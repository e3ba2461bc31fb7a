---------------------------- MODULE ServerProofs ----------------------------
(***************************************************************************)
(* Proofs about Server: the router that handlers are reached through, and  *)
(* the handler that asks an external service for the towns of a country.   *)
(* What the router promises is told by its tables: one by one they are     *)
(* shown to be clear, covered and fair (below), which they stay when they  *)
(* are joined; one request then follows the joined table from the front.   *)
(* The tables are the program's own, and so are the same for any values    *)
(* of the constants; the users, their roles and tokens, the services that  *)
(* fail and the places are any there may be.                               *)
(***************************************************************************)
EXTENDS Server, WellFoundedInduction, NaturalsInduction, TLAPS

\* A set of numbers has a least one: what an induction needs, over data too.
LEMMA LeastOne ==
  ASSUME NEW S \in SUBSET Nat, S # {}
  PROVE  \E i \in S : \A j \in S : i <= j
<1> DEFINE R == OpToRel(<, Nat)
<1>1. IsWellFoundedOn(R, Nat)
  BY NatLessThanWellFounded
<1>2. PICK i \in S : \A j \in S : ~(<<j, i>> \in R)
  BY <1>1, WFMin
<1>3. ASSUME NEW j \in S PROVE i <= j
  <2>1. ~(j < i)
    BY <1>2 DEF OpToRel
  <2>2. QED BY <2>1
<1>4. QED BY <1>3

-----------------------------------------------------------------------------
(***************************************************************************)
(* Locations: each key tells the provinces, the texts and the countries    *)
(* apart, and a request that walks the provinces one by one returns the    *)
(* towns of those that replied, as requests side by side do.               *)
(***************************************************************************)

\* What the provinces in S give, if replies of the kinds in good are taken, and the first i in the
\* list.
BlocksOf(S, text, r, good) ==
  {Block(p, r[p].towns, text) : p \in {q \in S : Gives(r[q], text, good)}}
FirstOf(i) == {Provinces[j] : j \in 1..i}

\* A list of these, each once.
Listed(s, S, text, r, good) ==
  /\ s \in Seq(BlocksOf(S, text, r, good))
  /\ ToSet(s) = BlocksOf(S, text, r, good)
  /\ \A i, j \in DOMAIN s : s[i].of = s[j].of => i = j

\* Nothing is listed of no province.
LEMMA ListedNone ==
  ASSUME NEW text, NEW r, NEW good
  PROVE  Listed(<<>>, {}, text, r, good)
BY DEF Listed, BlocksOf, ToSet

\* A province that gives something is one more at the end.
LEMMA ListedMore ==
  ASSUME NEW s, NEW S, NEW text, NEW r, NEW good, Listed(s, S, text, r, good),
         NEW p, p \notin S, Gives(r[p], text, good)
  PROVE  Listed(Append(s, Block(p, r[p].towns, text)), S \cup {p}, text, r, good)
<1> DEFINE B == BlocksOf(S, text, r, good)
           C == BlocksOf(S \cup {p}, text, r, good)
           b == Block(p, r[p].towns, text)
           t == Append(s, b)
<1>1. C = B \cup {b}
  <2>1. {q \in S \cup {p} : Gives(r[q], text, good)} = {q \in S : Gives(r[q], text, good)} \cup {p}
    OBVIOUS
  <2>2. QED BY <2>1 DEF BlocksOf
<1>2. b.of = p /\ \A c \in B : c.of \in S
  BY DEF Block, BlocksOf
<1>3. s \in Seq(B) /\ ToSet(s) = B /\ \A i, j \in DOMAIN s : s[i].of = s[j].of => i = j
  BY DEF Listed
<1> HIDE DEF B, C, b
<1>4. s \in Seq(C) /\ b \in C
  BY <1>1, <1>3
<1>5. /\ t \in Seq(C) /\ Len(t) = Len(s) + 1 /\ t[Len(s) + 1] = b /\ Len(s) \in Nat
      /\ DOMAIN t = 1..(Len(s) + 1) /\ DOMAIN s = 1..Len(s)
      /\ \A i \in 1..Len(s) : t[i] = s[i]
  BY <1>4
<1> HIDE DEF t
<1>6. ToSet(t) = C
  <2>1. \A i \in DOMAIN t : t[i] = b \/ t[i] \in ToSet(s)
    BY <1>5 DEF ToSet
  <2>2. \A c \in ToSet(s) : c \in ToSet(t)
    BY <1>5 DEF ToSet
  <2>3. b \in ToSet(t)
    BY <1>5 DEF ToSet
  <2>4. ToSet(t) \subseteq ToSet(s) \cup {b}
    BY <2>1 DEF ToSet
  <2>5. QED BY <1>1, <1>3, <2>2, <2>3, <2>4
<1>7. \A i \in 1..Len(s) : t[i].of \in S
  BY <1>2, <1>3, <1>5
<1>8. ASSUME NEW i \in DOMAIN t, NEW j \in DOMAIN t, t[i].of = t[j].of PROVE i = j
  <2>1. CASE i \in 1..Len(s) /\ j \in 1..Len(s)
    BY <1>3, <1>5, <1>8, <2>1
  <2>2. CASE i = Len(s) + 1 /\ j = Len(s) + 1
    BY <2>2
  <2>3. CASE i \in 1..Len(s) /\ j = Len(s) + 1
    BY <1>2, <1>5, <1>7, <1>8, <2>3
  <2>4. CASE i = Len(s) + 1 /\ j \in 1..Len(s)
    BY <1>2, <1>5, <1>7, <1>8, <2>4
  <2>5. QED BY <1>5, <2>1, <2>2, <2>3, <2>4
<1>9. QED BY <1>5, <1>6, <1>8 DEF Listed, t, b, C

\* A province that gives nothing changes nothing.
LEMMA ListedPast ==
  ASSUME NEW s, NEW S, NEW text, NEW r, NEW good, Listed(s, S, text, r, good),
         NEW p, ~Gives(r[p], text, good)
  PROVE  Listed(s, S \cup {p}, text, r, good)
<1>1. {q \in S \cup {p} : Gives(r[q], text, good)} = {q \in S : Gives(r[q], text, good)}
  OBVIOUS
<1>2. BlocksOf(S \cup {p}, text, r, good) = BlocksOf(S, text, r, good)
  BY <1>1 DEF BlocksOf
<1>3. QED BY <1>2 DEF Listed

\* Replies of others do not matter.
LEMMA ListedSame ==
  ASSUME NEW s, NEW S, NEW text, NEW r, NEW good, Listed(s, S, text, r, good),
         NEW q, \A p \in S : q[p] = r[p]
  PROVE  Listed(s, S, text, q, good)
<1>1. BlocksOf(S, text, q, good) = BlocksOf(S, text, r, good)
  BY DEF BlocksOf
<1>2. QED BY <1>1 DEF Listed

\* The walk of the prototype ends with a list of what all the provinces with a good reply give.
LEMMA VisitedTowns ==
  ASSUME PlacesAssumption, NEW text, NEW r
  PROVE  Listed(Visited(text, r)[Len(Provinces)], Country, text, r, {"ok"})
<1> DEFINE n == Len(Provinces)
           Step(f, i) == IF i = 0 THEN <<>>
                         ELSE IF Gives(r[Provinces[i]], text, {"ok"})
                              THEN Append(f[i - 1],
                                          Block(Provinces[i], r[Provinces[i]].towns, text))
                              ELSE f[i - 1]
           F == Visited(text, r)
           Walk(f, k) == f = [i \in 0..k |-> Step(f, i)]
<1>1. /\ n \in Nat /\ DOMAIN Provinces = 1..n
      /\ \A i, j \in 1..n : Provinces[i] = Provinces[j] => i = j
  BY DEF PlacesAssumption
<1>2. F = CHOOSE f : Walk(f, n)
  BY DEF Visited
<1>3. \E f : Walk(f, n)
  <2> DEFINE Some(k) == \E f : Walk(f, k)
             odd == {k \in 0..n : ~Some(k)}
  <2> HIDE DEF Some
  <2> SUFFICES ASSUME odd # {} PROVE FALSE
    <3>1. n \in 0..n
      BY <1>1
    <3>2. Some(n)
      BY <3>1
    <3>3. QED BY <3>2 DEF Some
  <2>1. odd \in SUBSET Nat
    BY <1>1
  <2>2. PICK k \in odd : \A j \in odd : k <= j
    BY <2>1, LeastOne
  <2>3. k \in 0..n /\ k \in Nat
    BY <1>1
  <2>4. CASE k = 0
    <3> DEFINE f == [i \in 0..0 |-> <<>>]
    <3>1. f = [i \in 0..0 |-> Step(f, i)]
      OBVIOUS
    <3>2. Walk(f, k)
      BY <2>4, <3>1
    <3>3. QED BY <2>2, <3>2 DEF Some
  <2>5. CASE k # 0
    <3>1. k - 1 \in 0..n /\ k - 1 \notin odd
      BY <1>1, <2>1, <2>2, <2>3, <2>5
    <3>2. PICK g : Walk(g, k - 1)
      BY <3>1 DEF Some
    <3> HIDE DEF odd
    <3> DEFINE f == [i \in 0..k |-> IF i = k THEN Step(g, k) ELSE g[i]]
    <3>3. \A i \in 0..k : f[i] = Step(f, i)
      <4> SUFFICES ASSUME NEW i \in 0..k PROVE f[i] = Step(f, i)
        OBVIOUS
      <4>1. i = 0 \/ (i - 1 \in 0..(k - 1) /\ i - 1 # k /\ i - 1 \in 0..k)
        BY <2>3
      <4>2. i = 0 \/ f[i - 1] = g[i - 1]
        BY <4>1
      <4>3. Step(f, i) = Step(g, i)
        BY <4>2
      <4>4. CASE i = k
        BY <4>3, <4>4
      <4>5. CASE i # k
        <5>1. i \in 0..(k - 1)
          BY <2>3, <4>5
        <5>2. g[i] = Step(g, i)
          BY <3>2, <5>1
        <5> HIDE DEF Step
        <5>3. QED BY <4>3, <4>5, <5>2
      <4>6. QED BY <4>4, <4>5
    <3> HIDE DEF Step
    <3>4. f = [i \in 0..k |-> Step(f, i)]
      BY <3>3
    <3>5. Walk(f, k)
      BY <3>4
    <3>6. ~\E h : Walk(h, k)
      BY <2>2 DEF odd, Some
    <3>7. QED BY <3>5, <3>6
  <2>6. QED BY <2>4, <2>5
<1>4. Walk(F, n)
  <2> HIDE DEF Walk, F
  <2>1. QED BY <1>2, <1>3
<1>5. \A i \in 0..n : F[i] = Step(F, i)
  <2> HIDE DEF F, Step
  <2>1. F = [i \in 0..n |-> Step(F, i)]
    BY <1>4
  <2>2. QED BY <2>1
<1> HIDE DEF F, Step, Walk
<1>6. \A i \in 0..n : Listed(F[i], FirstOf(i), text, r, {"ok"})
  <2> DEFINE odd == {i \in 0..n : ~Listed(F[i], FirstOf(i), text, r, {"ok"})}
  <2> SUFFICES ASSUME odd # {} PROVE FALSE
    OBVIOUS
  <2>1. odd \in SUBSET Nat
    BY <1>1
  <2>2. PICK i \in odd : \A j \in odd : i <= j
    BY <2>1, LeastOne
  <2>3. i \in 0..n /\ F[i] = Step(F, i)
    BY <1>5
  <2>4. CASE i = 0
    <3>1. FirstOf(i) = {} /\ F[i] = <<>>
      BY <2>3, <2>4 DEF FirstOf, Step
    <3>2. Listed(<<>>, {}, text, r, {"ok"})
      BY ListedNone
    <3>3. Listed(F[i], FirstOf(i), text, r, {"ok"})
      BY <3>1, <3>2
    <3>4. QED BY <2>2, <3>3
  <2>5. CASE i # 0
    <3> DEFINE p == Provinces[i]
    <3>1. i - 1 \in 0..n /\ i \in 1..n /\ i - 1 \notin odd
      BY <1>1, <2>1, <2>2, <2>3, <2>5
    <3>2. Listed(F[i - 1], FirstOf(i - 1), text, r, {"ok"})
      BY <3>1
    <3>3. 1..i = (1..(i - 1)) \cup {i}
      BY <3>1, <1>1
    <3>4. FirstOf(i) = FirstOf(i - 1) \cup {p}
      BY <3>3 DEF FirstOf
    <3>5. p \notin FirstOf(i - 1)
      BY <1>1, <3>1 DEF FirstOf
    <3>6. F[i] = IF Gives(r[p], text, {"ok"}) THEN Append(F[i - 1], Block(p, r[p].towns, text))
                 ELSE F[i - 1]
      BY <2>3, <2>5 DEF Step
    <3> HIDE DEF p
    <3>7. Listed(F[i], FirstOf(i - 1) \cup {p}, text, r, {"ok"})
      <4>1. CASE Gives(r[p], text, {"ok"})
        <5> DEFINE front == F[i - 1]
                   S == FirstOf(i - 1)
                   good == {"ok"}
        <5>1. Listed(front, S, text, r, good) /\ p \notin S /\ Gives(r[p], text, good)
          BY <3>2, <3>5, <4>1
        <5>2. F[i] = Append(front, Block(p, r[p].towns, text))
          BY <3>6, <4>1
        <5> HIDE DEF front, S, good
        <5>3. Listed(Append(front, Block(p, r[p].towns, text)), S \cup {p}, text, r, good)
          BY <5>1, ListedMore
        <5>4. QED BY <5>2, <5>3 DEF S, good
      <4>2. CASE ~Gives(r[p], text, {"ok"})
        BY <3>2, <3>6, <4>2, ListedPast
      <4>3. QED BY <4>1, <4>2
    <3>8. QED BY <2>2, <3>4, <3>7
  <2>6. QED BY <2>4, <2>5
<1>7. FirstOf(n) = Country
  BY <1>1 DEF FirstOf, Country, ToSet
<1>8. n \in 0..n
  BY <1>1
<1>9. QED BY <1>6, <1>7, <1>8 DEF F

\* The words of keys; the provers know of no string that it is one.
Letter == STRING \cup {":", "countries", "cities", "states", "zip"}
Text   == Seq(Letter)

\* What a user types are letters.
LEMMA PlainText ==
  ASSUME NEW x \in Seq(STRING)
  PROVE  x \in Text
BY DEF Text, Letter

\* A letter by itself is a text.
LEMMA OneLetter ==
  ASSUME NEW c \in Letter
  PROVE  <<c>> \in Text /\ Len(<<c>>) = 1 /\ <<c>>[1] = c /\ DOMAIN <<c>> = {1}
BY DEF Text

\* Where in a text the colons are.
Colons(x) == {i \in DOMAIN x : x[i] = ":"}

\* Two texts with a colon between them: where the words of each are.
LEMMA ColonText ==
  ASSUME NEW x \in Text, NEW y \in Text
  PROVE  /\ Colon(x, y) \in Text
         /\ Len(Colon(x, y)) = Len(x) + Len(y) + 1
         /\ \A i \in 1..Len(x) : Colon(x, y)[i] = x[i]
         /\ Colon(x, y)[Len(x) + 1] = ":"
         /\ \A i \in 1..Len(y) : Colon(x, y)[Len(x) + 1 + i] = y[i]
<1>1. /\ <<":">> \in Text /\ Len(<<":">>) = 1 /\ <<":">>[1] = ":"
  BY OneLetter DEF Letter
<1>2. /\ x \o <<":">> \in Text /\ Len(x \o <<":">>) = Len(x) + 1
      /\ \A i \in 1..Len(x) : (x \o <<":">>)[i] = x[i]
      /\ (x \o <<":">>)[Len(x) + 1] = ":"
  BY <1>1 DEF Text
<1> DEFINE z == x \o <<":">>
<1>3. Colon(x, y) = z \o y
  BY DEF Colon
<1> HIDE DEF z
<1>4. /\ z \in Text /\ Len(z) = Len(x) + 1
      /\ \A i \in 1..Len(x) : z[i] = x[i]
      /\ z[Len(x) + 1] = ":"
  BY <1>2 DEF z
<1>5. z \o y \in Text /\ Len(z \o y) = Len(z) + Len(y)
  BY <1>4 DEF Text
<1>6. \A i \in 1..(Len(x) + 1) : (z \o y)[i] = z[i]
  BY <1>4 DEF Text
<1>7. \A i \in 1..Len(y) : (z \o y)[Len(x) + 1 + i] = y[i]
  BY <1>4 DEF Text
<1>8. Len(x) \in Nat /\ Len(y) \in Nat
  BY DEF Text
<1>9. QED BY <1>3, <1>4, <1>5, <1>6, <1>7, <1>8

\* Texts are the same if their words are.
LEMMA TextsEqual ==
  ASSUME NEW x \in Text, NEW y \in Text, Len(x) = Len(y), \A i \in 1..Len(x) : x[i] = y[i]
  PROVE  x = y
BY DEF Text

\* Two texts with a colon between them tell what they were, if neither has one in it.
LEMMA ColonOne ==
  ASSUME NEW x \in Text, NEW y \in Text, NEW x2 \in Text, NEW y2 \in Text,
         Colons(x) = {}, Colons(y) = {}, Colon(x, y) = Colon(x2, y2)
  PROVE  x = x2 /\ y = y2
<1> DEFINE k == Colon(x, y)
<1>0. k = Colon(x2, y2)
  OBVIOUS
<1>1. /\ Len(k) = Len(x) + Len(y) + 1
      /\ \A i \in 1..Len(x) : k[i] = x[i]
      /\ \A i \in 1..Len(y) : k[Len(x) + 1 + i] = y[i]
  BY ColonText
<1> HIDE DEF k
<1>2. /\ Len(k) = Len(x2) + Len(y2) + 1
      /\ \A i \in 1..Len(x2) : k[i] = x2[i]
      /\ k[Len(x2) + 1] = ":"
      /\ \A i \in 1..Len(y2) : k[Len(x2) + 1 + i] = y2[i]
  BY <1>0, ColonText
<1>3. Len(x) \in Nat /\ Len(y) \in Nat /\ Len(x2) \in Nat /\ Len(y2) \in Nat
  BY DEF Text
<1>4. (\A i \in 1..Len(x) : x[i] # ":") /\ (\A i \in 1..Len(y) : y[i] # ":")
  BY DEF Text, Colons
<1>5. ~(Len(x2) < Len(x))
  <2> SUFFICES ASSUME Len(x2) < Len(x) PROVE FALSE
    OBVIOUS
  <2>1. Len(x2) + 1 \in 1..Len(x)
    BY <1>3
  <2>2. QED BY <1>1, <1>2, <1>4, <2>1
<1>6. ~(Len(x2) > Len(x))
  <2> SUFFICES ASSUME Len(x2) > Len(x) PROVE FALSE
    OBVIOUS
  <2>1. Len(x2) - Len(x) \in 1..Len(y) /\ Len(x) + 1 + (Len(x2) - Len(x)) = Len(x2) + 1
    BY <1>1, <1>2, <1>3
  <2>2. y[Len(x2) - Len(x)] = ":"
    BY <1>1, <1>2, <2>1
  <2>3. QED BY <1>4, <2>1, <2>2
<1>7. Len(x) = Len(x2) /\ Len(y) = Len(y2)
  BY <1>1, <1>2, <1>3, <1>5, <1>6
<1>8. QED BY <1>1, <1>2, <1>7, TextsEqual

\* A text in front that has none tells itself from what comes after, whatever that is.
LEMMA ColonFirst ==
  ASSUME NEW x \in Text, NEW y \in Text, NEW x2 \in Text, NEW y2 \in Text,
         Colons(x) = {}, Colons(x2) = {}, Colon(x, y) = Colon(x2, y2)
  PROVE  x = x2 /\ y = y2
<1> DEFINE k == Colon(x, y)
<1>0. k = Colon(x2, y2)
  OBVIOUS
<1>1. /\ Len(k) = Len(x) + Len(y) + 1
      /\ \A i \in 1..Len(x) : k[i] = x[i]
      /\ k[Len(x) + 1] = ":"
      /\ \A i \in 1..Len(y) : k[Len(x) + 1 + i] = y[i]
  BY ColonText
<1> HIDE DEF k
<1>2. /\ Len(k) = Len(x2) + Len(y2) + 1
      /\ \A i \in 1..Len(x2) : k[i] = x2[i]
      /\ k[Len(x2) + 1] = ":"
      /\ \A i \in 1..Len(y2) : k[Len(x2) + 1 + i] = y2[i]
  BY <1>0, ColonText
<1>3. Len(x) \in Nat /\ Len(y) \in Nat /\ Len(x2) \in Nat /\ Len(y2) \in Nat
  BY DEF Text
<1>4. (\A i \in 1..Len(x) : x[i] # ":") /\ (\A i \in 1..Len(x2) : x2[i] # ":")
  BY DEF Text, Colons
<1>5. ~(Len(x) + 1 \in 1..Len(x2)) /\ ~(Len(x2) + 1 \in 1..Len(x))
  BY <1>1, <1>2, <1>4
<1>6. Len(x) = Len(x2) /\ Len(y) = Len(y2)
  BY <1>1, <1>2, <1>3, <1>5
<1>7. QED BY <1>1, <1>2, <1>6, TextsEqual

\* And so do three; it is enough that the two colons between them are the only ones.
Three(x, y, z) == Colon(x, Colon(y, z))

\* Three texts without a colon can be told from the key they make.
LEMMA ColonTwo ==
  ASSUME NEW x \in Text, NEW y \in Text, NEW z \in Text,
         NEW x2 \in Text, NEW y2 \in Text, NEW z2 \in Text,
         Colons(x) = {}, Colons(y) = {}, Colons(z) = {},
         Three(x, y, z) = Three(x2, y2, z2)
  PROVE  x = x2 /\ y = y2 /\ z = z2
<1> DEFINE v == Colon(y, z)
           w == Colon(y2, z2)
           k == Colon(x, v)
<1>0. k = Colon(x2, w)
  BY DEF Three
<1>1. /\ v \in Text /\ Len(v) = Len(y) + Len(z) + 1
      /\ \A i \in 1..Len(y) : v[i] = y[i]
      /\ \A i \in 1..Len(z) : v[Len(y) + 1 + i] = z[i]
  BY ColonText
<1>2. w \in Text /\ Len(w) = Len(y2) + Len(z2) + 1 /\ w[Len(y2) + 1] = ":"
  BY ColonText
<1>2a. w \in Text
  BY <1>2
<1> HIDE DEF v, w
<1>3. /\ Len(k) = Len(x) + Len(v) + 1
      /\ \A i \in 1..Len(x) : k[i] = x[i]
      /\ \A i \in 1..Len(v) : k[Len(x) + 1 + i] = v[i]
  BY <1>1, ColonText
<1> HIDE DEF k
<1>4. /\ Len(k) = Len(x2) + Len(w) + 1
      /\ \A i \in 1..Len(x2) : k[i] = x2[i]
      /\ k[Len(x2) + 1] = ":"
      /\ \A i \in 1..Len(w) : k[Len(x2) + 1 + i] = w[i]
  <2>1. /\ Len(Colon(x2, w)) = Len(x2) + Len(w) + 1
        /\ \A i \in 1..Len(x2) : Colon(x2, w)[i] = x2[i]
        /\ Colon(x2, w)[Len(x2) + 1] = ":"
        /\ \A i \in 1..Len(w) : Colon(x2, w)[Len(x2) + 1 + i] = w[i]
    BY <1>2a, ColonText
  <2>2. QED BY <1>0, <2>1, Zenon
<1>5. /\ Len(x) \in Nat /\ Len(y) \in Nat /\ Len(z) \in Nat
      /\ Len(x2) \in Nat /\ Len(y2) \in Nat /\ Len(z2) \in Nat
  BY DEF Text
<1>6. /\ \A i \in 1..Len(x) : x[i] # ":"
      /\ \A i \in 1..Len(y) : y[i] # ":"
      /\ \A i \in 1..Len(z) : z[i] # ":"
  BY DEF Text, Colons
<1>7. k[Len(x2) + Len(y2) + 2] = ":"
  <2>1. Len(y2) + 1 \in 1..Len(w) /\ Len(x2) + 1 + (Len(y2) + 1) = Len(x2) + Len(y2) + 2
    BY <1>2, <1>5
  <2>2. QED BY <1>2, <1>4, <2>1
<1>8. /\ Len(k) = Len(x) + Len(y) + Len(z) + 2 /\ Len(k) = Len(x2) + Len(y2) + Len(z2) + 2
      /\ Len(k) \in Nat
  <2>1. Len(v) = Len(y) + Len(z) + 1 /\ Len(k) = Len(x) + Len(v) + 1
    BY <1>1, <1>3
  <2>2. Len(w) = Len(y2) + Len(z2) + 1 /\ Len(k) = Len(x2) + Len(w) + 1
    BY <1>2, <1>4
  <2>3. QED BY <1>5, <2>1, <2>2
\* The key has no colon but the two between its parts.
<1>9. \A i \in 1..Len(k) : k[i] = ":" => i = Len(x) + 1 \/ i = Len(x) + Len(y) + 2
  <2> SUFFICES ASSUME NEW i \in 1..Len(k), k[i] = ":", i # Len(x) + 1
               PROVE  i = Len(x) + Len(y) + 2
    OBVIOUS
  <2>1a. i \in Nat /\ i >= 1
    BY <1>8
  <2>1b. ~(i \in 1..Len(x))
    BY <1>3, <1>6
  <2>1. i \in Nat /\ i >= 1 /\ ~(i \in 1..Len(x))
    BY <2>1a, <2>1b
  <2>2. i > Len(x) + 1
    BY <1>5, <2>1
  <2> DEFINE j == i - Len(x) - 1
  <2>3. j \in 1..Len(v) /\ i = Len(x) + 1 + j
    BY <1>1, <1>5, <1>8, <2>1, <2>2
  <2> HIDE DEF j
  <2>4. v[j] = ":"
    BY <1>3, <2>3
  <2>5. ~(j \in 1..Len(y))
    BY <1>1, <1>6, <2>4
  <2>6. ~(j > Len(y) + 1)
    <3> SUFFICES ASSUME j > Len(y) + 1 PROVE FALSE
      OBVIOUS
    <3>1. j - Len(y) - 1 \in 1..Len(z) /\ j = Len(y) + 1 + (j - Len(y) - 1)
      BY <1>1, <1>5, <2>3
    <3>2. z[j - Len(y) - 1] = ":"
      BY <1>1, <2>4, <3>1
    <3>3. QED BY <1>6, <3>1, <3>2
  <2>7. j \in Nat /\ j >= 1
    BY <1>1, <1>5, <2>3
  <2>8. j = Len(y) + 1
    BY <1>5, <2>5, <2>6, <2>7
  <2>9. QED BY <1>5, <2>3, <2>8
<1>10. Len(x2) = Len(x) /\ Len(y2) = Len(y) /\ Len(z2) = Len(z)
  <2>1. Len(x2) + 1 \in 1..Len(k) /\ Len(x2) + Len(y2) + 2 \in 1..Len(k)
    BY <1>5, <1>8
  <2>2. /\ Len(x2) + 1 = Len(x) + 1 \/ Len(x2) + 1 = Len(x) + Len(y) + 2
        /\ \/ Len(x2) + Len(y2) + 2 = Len(x) + 1
           \/ Len(x2) + Len(y2) + 2 = Len(x) + Len(y) + 2
    BY <1>4, <1>7, <1>9, <2>1
  <2>3. QED BY <1>5, <1>8, <2>2
<1>11. Len(v) = Len(w)
  BY <1>1, <1>2, <1>10
<1>12. x = x2
  BY <1>3, <1>4, <1>10, TextsEqual
<1>13. v = w
  <2>1. \A i \in 1..Len(v) : k[Len(x) + 1 + i] = v[i] /\ k[Len(x) + 1 + i] = w[i]
    BY <1>3, <1>4, <1>10, <1>11
  <2>2. \A i \in 1..Len(v) : v[i] = w[i]
    BY <2>1
  <2>3. v \in Text /\ w \in Text
    BY <1>1, <1>2
  <2>4. QED BY <1>11, <2>2, <2>3, TextsEqual
<1>14. y = y2 /\ z = z2
  BY <1>13, ColonOne DEF v, w
<1>15. QED BY <1>12, <1>14

\* The key of a request without a colon is the key of no other.
LEMMA KeyTells ==
  ASSUME ServerAssumption, NEW r \in Calls, NEW q \in Calls, ColonFree(r), Key(q) = Key(r)
  PROVE  q = r
<1> DEFINE Name(c) == CASE c.op = "GetCountries" -> <<"countries">>
                        [] c.op = "GetCities"    -> <<"cities">>
                        [] c.op = "GetStates"    -> <<"states">>
                        [] c.op = "GetZipCodes"  -> <<"zip">>
           Rest(c) == CASE c.op = "GetCountries" -> c.text
                        [] c.op = "GetCities"    -> Colon(c.country, Colon(c.text, c.state))
                        [] c.op = "GetStates"    -> Colon(c.country, c.text)
                        [] c.op = "GetZipCodes"  -> Colon(c.country, Colon(c.text, c.state))
<1>1. /\ r \in [op : {"GetCountries", "GetCities", "GetStates", "GetZipCodes"},
                country : Text, text : Text, state : Text]
      /\ r.op = "GetCountries" => r.country = <<>>
      /\ r.op \in {"GetCountries", "GetStates"} => r.state = <<>>
  BY PlainText DEF ServerAssumption
<1>2. /\ q \in [op : {"GetCountries", "GetCities", "GetStates", "GetZipCodes"},
                country : Text, text : Text, state : Text]
      /\ q.op = "GetCountries" => q.country = <<>>
      /\ q.op \in {"GetCountries", "GetStates"} => q.state = <<>>
  BY PlainText DEF ServerAssumption
<1>2a. /\ r.country \in Text /\ r.text \in Text /\ r.state \in Text
       /\ q.country \in Text /\ q.text \in Text /\ q.state \in Text
  BY <1>1, <1>2
<1>3. Colons(r.country) = {} /\ Colons(r.text) = {} /\ Colons(r.state) = {}
  BY DEF ColonFree, Colons, ToSet
<1>4. Key(r) = Colon(Name(r), Rest(r)) /\ Key(q) = Colon(Name(q), Rest(q))
  BY <1>1, <1>2 DEF Key
<1>5. \A c \in {"countries", "cities", "states", "zip"} : <<c>> \in Text /\ Colons(<<c>>) = {}
  <2>1. \A c \in {"countries", "cities", "states", "zip"} : c \in Letter /\ c # ":"
    BY DEF Letter
  <2>2. QED BY <2>1, OneLetter DEF Colons
<1>5a. Name(r) \in Text /\ Name(q) \in Text /\ Colons(Name(r)) = {} /\ Colons(Name(q)) = {}
  BY <1>1, <1>2, <1>5
<1>6. Rest(r) \in Text
  BY <1>1, ColonText
<1>7. Rest(q) \in Text
  BY <1>2, ColonText
<1> HIDE DEF Name, Rest
<1>8. Name(q) = Name(r) /\ Rest(q) = Rest(r)
  BY <1>4, <1>5a, <1>6, <1>7, ColonFirst
<1>9. q.op = r.op
  <2>1. Name(q)[1] = Name(r)[1]
    BY <1>8
  <2>2. QED BY <1>1, <1>2, <2>1 DEF Name
<1>10. q.country = r.country /\ q.text = r.text /\ q.state = r.state
  <2>1. CASE r.op = "GetCountries"
    BY <1>1, <1>2, <1>8, <1>9, <2>1 DEF Rest
  <2>2. CASE r.op \in {"GetCities", "GetZipCodes"}
    <3> DEFINE a == r.country
               b == r.text
               c == r.state
               d == q.country
               e == q.text
               f == q.state
    <3>1. Three(a, b, c) = Three(d, e, f)
      BY <1>8, <1>9, <2>2 DEF Rest, Three
    <3>2. /\ a \in Text /\ b \in Text /\ c \in Text /\ d \in Text /\ e \in Text /\ f \in Text
          /\ Colons(a) = {} /\ Colons(b) = {} /\ Colons(c) = {}
      BY <1>2a, <1>3
    <3> HIDE DEF a, b, c, d, e, f
    <3>3. a = d /\ b = e /\ c = f
      BY ONLY <3>1, <3>2, ColonTwo
    <3>4. QED BY <3>3 DEF a, b, c, d, e, f
  <2>3. CASE r.op = "GetStates"
    <3>1. Colon(r.country, r.text) = Colon(q.country, q.text)
      BY <1>8, <1>9, <2>3 DEF Rest
    <3>2. QED BY <1>1, <1>2, <1>2a, <1>3, <1>9, <2>3, <3>1, ColonOne
  <2>5. QED BY <1>1, <2>1, <2>2, <2>3
<1>11. QED BY <1>1, <1>2, <1>9, <1>10

\* What the cache holds, and what a request is answered with, was assembled for a request with
\* the same key.
CacheInv ==
  /\ \A k \in DOMAIN cache :
       /\ DOMAIN cache[k] = {"life", "data", "whole", "for", "old"}
       /\ cache[k].for \in Calls /\ Key(cache[k].for) = k
  /\ phase \in {"idle", "asked", "spread", "answered"}
  /\ phase # "idle" => call \in Calls
  /\ phase = "answered" /\ answer.ok => answer.for \in Calls /\ Key(answer.for) = Key(call)

\* A goroutine that merges holds the lock and has read the list as it is; no goroutine is left
\* outside the search of a whole country.
WorkerInv ==
  /\ worker \in [Country -> {"none", "waiting", "asking", "locking", "merging", "done"}]
  /\ DOMAIN reply = Country
  /\ mu \in Country \cup {Nobody}
  /\ \A p \in Country :
       /\ mu = p <=> worker[p] = "merging"
       /\ worker[p] \in {"locking", "merging"} => Gives(reply[p], call.text, Read)
       /\ worker[p] = "merging" => copy = allCities
       /\ phase # "spread" => worker[p] \in {"none", "done"}

\* The list has what the goroutines that are done have found, once.
SpreadInv ==
  /\ phase \in {"idle", "asked"} => first = "none"
  /\ phase = "spread" =>
       /\ Nationwide(call) /\ first \in Read
       /\ first = "ok" => \A p \in Country : worker[p] # "none"
       /\ Listed(allCities, {p \in Country : worker[p] = "done"}, call.text, reply, Read)

\* What a request is answered with, if it is not from the cache.
AnswerInv ==
  phase = "answered" /\ first # "none" =>
    IF Nationwide(call)
    THEN first = "ok" => answer.ok /\ Listed(answer.places, Country, call.text, reply, Read)
    ELSE /\ answer.ok = Direct(call, first, names).ok
         /\ answer.places = Direct(call, first, names).places

\* The invariant of Locations.
LInv == CacheInv /\ WorkerInv /\ SpreadInv /\ AnswerInv

\* What a step of the server is to the handler of locations.
Steps ==
  \/ UNCHANGED locations
  \/ \E r \in Calls : Ask(r)
  \/ Directory
  \/ Gather
  \/ Return
  \/ \E lives \in {{"hour"}, {"hour", "day"}} : Pass(lives)

\* Each step of the server is a step of Locations, or leaves its variables alone.
LEMMA ServerSteps ==
  ASSUME [ServerNext]_vars2
  PROVE  Steps
<1>1. CASE UNCHANGED vars2
  BY <1>1 DEF vars2, Steps
<1>2. CASE Work
  <2>1. CASE Elsewhere(Advance) \/ Elsewhere(Test)
    BY <2>1 DEF Elsewhere, Steps
  <2>2. CASE \E r \in Calls : Locate(r)
    BY <2>2 DEF Locate, Steps
  <2>3. CASE Locating(Gather)
    BY <2>3 DEF Locating, Steps
  <2>4. CASE Located
    BY <2>4 DEF Located, Steps
  <2>5. QED BY <1>2, <2>1, <2>2, <2>3, <2>4 DEF Work
<1>3. CASE \E i \in Handled : \E d \in Defects(Stack[i].handler), t \in {token, NoToken} :
             Elsewhere(Send(i, d, t))
  BY <1>3 DEF Elsewhere, Steps
<1>4. CASE Elsewhere(Receive)
  BY <1>4 DEF Elsewhere, Steps
<1>5. CASE Hour \/ Day
  BY <1>5 DEF Hour, Day, Steps
<1>6. CASE Operated
  BY <1>6 DEF Operated, Elsewhere, Steps
<1>7. CASE Locating(Directory)
  BY <1>7 DEF Locating, Steps
<1>8. QED BY <1>1, <1>2, <1>3, <1>4, <1>5, <1>6, <1>7 DEF ServerNext, Others

-----------------------------------------------------------------------------
(* Locations, step by step *)

\* The service begins with all parts of LInv.
LEMMA LocationsStart ==
  ASSUME LocationsInit
  PROVE  LInv
<1>1. CacheInv
  BY DEF LocationsInit, CacheInv
<1>2. WorkerInv
  BY LocationsAssumption DEF LocationsInit, WorkerInv, Country
<1>3. SpreadInv /\ AnswerInv
  BY DEF LocationsInit, SpreadInv, AnswerInv
<1>4. QED BY <1>1, <1>2, <1>3 DEF LInv

\* What an answer that is kept leaves in the cache.
LEMMA SettleKeeps ==
  ASSUME CacheInv, phase \in {"asked", "spread"}, call' = call, NEW a, NEW whole,
         Settle(a, whole)
  PROVE  CacheInv' /\ phase' = "answered" /\ answer'.ok = a.ok /\ answer'.places = a.places
<1> DEFINE full == [ok |-> a.ok, places |-> a.places, whole |-> whole, for |-> call]
<1>1. /\ phase' = "answered" /\ answer' = full
      /\ IF a.ok THEN setCache(call, full) ELSE UNCHANGED cache
  BY DEF Settle
<1>2. call \in Calls
  BY DEF CacheInv
<1>3. \A k \in DOMAIN cache' :
        /\ DOMAIN cache'[k] = {"life", "data", "whole", "for", "old"}
        /\ cache'[k].for \in Calls /\ Key(cache'[k].for) = k
  <2>1. CASE a.ok
    <3> HIDE DEF full
    <3>1. cache' = [x \in DOMAIN cache \cup {Key(call)} |->
                      IF x = Key(call) THEN Item(Life(call), full, call) ELSE cache[x]]
      BY <1>1, <2>1 DEF setCache
    <3>2. /\ DOMAIN Item(Life(call), full, call) = {"life", "data", "whole", "for", "old"}
          /\ Item(Life(call), full, call).for = call
      BY DEF Item
    <3>3. QED BY <1>2, <3>1, <3>2 DEF CacheInv
  <2>2. CASE ~a.ok
    BY <1>1, <2>2 DEF CacheInv
  <2>3. QED BY <2>1, <2>2
<1>4. QED BY <1>1, <1>2, <1>3 DEF CacheInv

\* A request that finds its answer in the cache is answered with what was assembled for its
\* key.
LEMMA AskKeeps ==
  ASSUME LInv, NEW r \in Calls, Ask(r)
  PROVE  LInv'
<1> USE DEF LInv
<1>1. /\ phase = "idle" /\ call' = r /\ phase' \in {"asked", "answered"}
      /\ UNCHANGED <<first, names, worker, reply, mu, allCities, copy>>
  BY DEF Ask
<1>2. CacheInv'
  <2>1. CASE getFromCache(Key(r))
    <3>1. /\ answer' = [ok |-> TRUE, places |-> cache[Key(r)].data,
                         whole |-> cache[Key(r)].whole, for |-> cache[Key(r)].for]
          /\ phase' = "answered" /\ cache' = cache
      BY <2>1 DEF Ask
    <3>2. Key(r) \in DOMAIN cache
      BY <2>1 DEF getFromCache
    <3>3. QED BY <1>1, <3>1, <3>2 DEF CacheInv
  <2>2. CASE ~getFromCache(Key(r))
    <3>1. phase' = "asked" /\ cache' = Without(Key(r))
      BY <2>2 DEF Ask
    <3>2. QED BY <1>1, <3>1 DEF CacheInv, Without
  <2>3. QED BY <2>1, <2>2
<1>3. WorkerInv'
  BY <1>1 DEF WorkerInv
<1>4. SpreadInv' /\ AnswerInv'
  BY <1>1 DEF SpreadInv, AnswerInv
<1>5. QED BY <1>2, <1>3, <1>4

\* A request that was answered leaves nothing behind.
LEMMA ReturnKeeps ==
  ASSUME LInv, Return
  PROVE  LInv'
<1> USE DEF LInv
<1>1. /\ phase = "answered" /\ phase' = "idle" /\ first' = "none"
      /\ worker' = [p \in Country |-> "none"] /\ reply' = [p \in Country |-> NoReply]
      /\ UNCHANGED <<cache, mu>>
  BY DEF Return
<1>2. CacheInv'
  BY <1>1 DEF CacheInv
<1>3. WorkerInv'
  BY <1>1 DEF WorkerInv
<1>4. SpreadInv' /\ AnswerInv'
  BY <1>1 DEF SpreadInv, AnswerInv
<1>5. QED BY <1>2, <1>3, <1>4

\* What has grown too old is not answered with.
LEMMA PassKeeps ==
  ASSUME LInv, NEW lives, Pass(lives)
  PROVE  LInv'
<1> USE DEF LInv
<1>1. /\ cache' = [k \in DOMAIN cache |-> [cache[k] EXCEPT !.old = @ \/ cache[k].life \in lives]]
      /\ UNCHANGED <<call, phase, first, names, worker, reply, mu, allCities, copy, answer>>
  BY DEF Pass
<1>2. \A k \in DOMAIN cache : DOMAIN cache'[k] = DOMAIN cache[k] /\ cache'[k].for = cache[k].for
  BY <1>1 DEF CacheInv
<1>3. CacheInv'
  BY <1>1, <1>2 DEF CacheInv
<1>4. WorkerInv'
  BY <1>1 DEF WorkerInv
<1>5. SpreadInv' /\ AnswerInv'
  BY <1>1 DEF SpreadInv, AnswerInv
<1>6. QED BY <1>3, <1>4, <1>5

\* The first reply answers the request, or begins the search of the provinces.
LEMMA ReplyKeeps ==
  ASSUME LInv, NEW kind \in Kinds, NEW list, Reply(kind, list)
  PROVE  LInv'
<1> USE DEF LInv
<1>1. /\ phase = "asked" /\ ~Nationwide(call) /\ first' = kind
      /\ names' = list /\ Settle(Direct(call, kind, list), kind = "ok")
      /\ UNCHANGED <<call, worker, reply, mu, allCities, copy>>
  BY DEF Reply
<1>2. /\ CacheInv' /\ phase' = "answered"
      /\ answer'.ok = Direct(call, kind, list).ok
      /\ answer'.places = Direct(call, kind, list).places
  BY <1>1, SettleKeeps
<1>3. WorkerInv'
  BY <1>1, <1>2 DEF WorkerInv
<1>4. SpreadInv'
  BY <1>2 DEF SpreadInv
<1>5. ~Nationwide(call')
  BY <1>1
<1>6. AnswerInv'
  BY <1>1, <1>2, <1>5 DEF AnswerInv
<1>7. QED BY <1>2, <1>3, <1>4, <1>6

\* When the search begins no province is done and the list is empty; a good reply names them all.
LEMMA SpreadKeeps ==
  ASSUME LInv, NEW kind \in Kinds, NEW list \in Legible(kind, Provinces), Spread(kind, list)
  PROVE  LInv'
<1> USE DEF LInv
<1>1. /\ phase = "asked" /\ Nationwide(call) /\ first' = kind /\ allCities' = <<>>
      /\ UNCHANGED <<call, reply, mu, copy>>
  BY DEF Spread
<1>2. \A p \in Country : worker[p] \in {"none", "done"} /\ mu # p
  BY <1>1 DEF WorkerInv
<1>3. CASE kind \in Read
  <2>1. /\ phase' = "spread" /\ UNCHANGED <<answer, cache>>
        /\ worker' = [p \in Country |-> IF list # <<>> THEN "waiting" ELSE "none"]
    BY <1>3 DEF Spread
  <2>2. CacheInv'
    BY <1>1, <2>1 DEF CacheInv
  <2>3. WorkerInv'
    BY <1>1, <1>2, <2>1 DEF WorkerInv
  <2>4. {p \in Country : worker'[p] = "done"} = {}
    BY <2>1
  <2>5. SpreadInv'
    <3>1. Listed(allCities', {p \in Country : worker'[p] = "done"}, call.text, reply', Read)
      BY <1>1, <2>4, ListedNone
    <3>2. Nationwide(call')
      BY <1>1
    <3>3. kind = "ok" => \A p \in Country : worker'[p] # "none"
      <4>1. kind = "ok" => list # <<>>
        BY PlacesAssumption DEF Legible
      <4>2. QED BY <2>1, <4>1
    <3>4. QED BY <1>1, <1>3, <2>1, <3>1, <3>2, <3>3 DEF SpreadInv
  <2>6. AnswerInv'
    BY <2>1 DEF AnswerInv
  <2>7. QED BY <2>2, <2>3, <2>5, <2>6
<1>4. CASE kind \notin Read
  <2>1. Settle(Failure, FALSE) /\ UNCHANGED worker
    BY <1>4 DEF Spread
  <2>2. CacheInv' /\ phase' = "answered"
    BY <1>1, <2>1, SettleKeeps
  <2>3. WorkerInv'
    BY <1>1, <1>2, <2>1, <2>2 DEF WorkerInv
  <2>4. SpreadInv'
    BY <2>2 DEF SpreadInv
  <2>5. Nationwide(call')
    BY <1>1
  <2>6. AnswerInv'
    BY <1>1, <1>4, <2>5 DEF AnswerInv, Read
  <2>7. QED BY <2>2, <2>3, <2>4, <2>6
<1>5. QED BY <1>3, <1>4

\* A step of a goroutine changes nothing of the request.
LEMMA WorkerStep ==
  ASSUME LInv, NEW p \in Country, worker[p] \notin {"none", "done"},
         UNCHANGED <<cache, call, phase, first, names, answer>>
  PROVE  phase = "spread" /\ CacheInv' /\ AnswerInv'
<1>1. phase = "spread"
  BY DEF LInv, WorkerInv
<1>2. CacheInv'
  BY DEF LInv, CacheInv
<1>3. AnswerInv'
  BY <1>1 DEF AnswerInv
<1>4. QED BY <1>1, <1>2, <1>3

\* A goroutine that has a slot asks.
LEMMA TakeSlotKeeps ==
  ASSUME LInv, NEW p \in Country, TakeSlot(p)
  PROVE  LInv'
<1> USE DEF LInv
<1>1. /\ worker[p] = "waiting" /\ worker' = [worker EXCEPT ![p] = "asking"]
      /\ UNCHANGED <<cache, call, phase, first, names, reply, mu, allCities, copy, answer>>
  BY DEF TakeSlot
<1>2. phase = "spread" /\ CacheInv' /\ AnswerInv'
  BY <1>1, WorkerStep
<1>3. WorkerInv'
  BY <1>1, <1>2 DEF WorkerInv
<1>4. {q \in Country : worker'[q] = "done"} = {q \in Country : worker[q] = "done"}
  BY <1>1 DEF WorkerInv
<1>5. SpreadInv'
  BY <1>1, <1>2, <1>4 DEF SpreadInv, WorkerInv
<1>6. QED BY <1>2, <1>3, <1>5

\* A goroutine that has the lock has read the list as it is.
LEMMA LockKeeps ==
  ASSUME LInv, NEW p \in Country, Lock(p)
  PROVE  LInv'
<1> USE DEF LInv
<1>1. /\ worker[p] = "locking" /\ worker' = [worker EXCEPT ![p] = "merging"]
      /\ mu = Nobody /\ mu' = p /\ copy' = allCities
      /\ UNCHANGED <<cache, call, phase, first, names, reply, allCities, answer>>
  BY DEF Lock
<1>2. phase = "spread" /\ CacheInv' /\ AnswerInv'
  BY <1>1, WorkerStep
<1>3. \A q \in Country : worker[q] # "merging"
  BY <1>1, LocationsAssumption DEF WorkerInv, Country
<1>4. WorkerInv'
  BY <1>1, <1>2, <1>3 DEF WorkerInv
<1>5. {q \in Country : worker'[q] = "done"} = {q \in Country : worker[q] = "done"}
  BY <1>1 DEF WorkerInv
<1>6. SpreadInv'
  BY <1>1, <1>2, <1>5 DEF SpreadInv, WorkerInv
<1>7. QED BY <1>2, <1>4, <1>6

\* A goroutine that merges adds the towns of its province, and is done.
LEMMA MergeKeeps ==
  ASSUME LInv, NEW p \in Country, Merge(p)
  PROVE  LInv'
<1> USE DEF LInv
<1> DEFINE done == {q \in Country : worker[q] = "done"}
<1>1. /\ worker[p] = "merging" /\ worker' = [worker EXCEPT ![p] = "done"]
      /\ allCities' = Append(copy, Block(p, reply[p].towns, call.text)) /\ mu' = Nobody
      /\ UNCHANGED <<cache, call, phase, first, names, reply, copy, answer>>
  BY DEF Merge
<1>2. phase = "spread" /\ CacheInv' /\ AnswerInv'
  BY <1>1, WorkerStep
<1>3. /\ mu = p /\ Gives(reply[p], call.text, Read) /\ copy = allCities
      /\ \A q \in Country \ {p} : worker[q] # "merging"
  BY <1>1 DEF WorkerInv
<1>4. Nobody \notin Country
  BY LocationsAssumption DEF Country
<1>5. WorkerInv'
  BY <1>1, <1>2, <1>3, <1>4 DEF WorkerInv
<1>6. {q \in Country : worker'[q] = "done"} = done \cup {p} /\ p \notin done
  BY <1>1 DEF WorkerInv
<1>7. Listed(allCities', done \cup {p}, call.text, reply, Read)
  <2>1. Listed(allCities, done, call.text, reply, Read)
    BY <1>2 DEF SpreadInv
  <2> HIDE DEF done
  <2>2. QED BY <1>1, <1>3, <1>6, <2>1, ListedMore
<1>8. SpreadInv'
  BY <1>1, <1>2, <1>6, <1>7 DEF SpreadInv, WorkerInv
<1>9. QED BY <1>2, <1>5, <1>8

\* A province that replies badly, or has no towns, adds nothing.
LEMMA TownKeeps ==
  ASSUME LInv, NEW p \in Country, NEW kind, NEW towns, Town(p, kind, towns)
  PROVE  LInv'
<1> USE DEF LInv
<1> DEFINE heard == Heard(kind, towns)
           gives == Gives(heard, call.text, Read)
           done  == {q \in Country : worker[q] = "done"}
<1>1. /\ worker[p] = "asking" /\ reply' = [reply EXCEPT ![p] = heard]
      /\ worker' = [worker EXCEPT ![p] = IF gives THEN "locking" ELSE "done"]
      /\ UNCHANGED <<cache, call, phase, first, names, mu, allCities, copy, answer>>
  BY DEF Town
<1>2. phase = "spread" /\ CacheInv' /\ AnswerInv'
  BY <1>1, WorkerStep
<1>3. /\ p \notin done /\ mu # p /\ reply'[p] = heard
      /\ \A q \in Country \ {p} : reply'[q] = reply[q] /\ worker'[q] = worker[q]
  BY <1>1 DEF WorkerInv
<1>4. Gives(reply'[p], call.text, Read) = gives
  BY <1>3
<1> HIDE DEF heard, gives
<1>5. WorkerInv'
  <2>1. /\ worker' \in [Country -> {"none", "waiting", "asking", "locking", "merging", "done"}]
        /\ DOMAIN reply' = Country /\ mu' \in Country \cup {Nobody}
    BY <1>1 DEF WorkerInv
  <2>2. ASSUME NEW q \in Country
        PROVE  /\ mu' = q <=> worker'[q] = "merging"
               /\ worker'[q] \in {"locking", "merging"} => Gives(reply'[q], call'.text, Read)
               /\ worker'[q] = "merging" => copy' = allCities'
               /\ phase' # "spread" => worker'[q] \in {"none", "done"}
    <3>1. CASE q = p
      <4>1. (worker'[p] = "locking" /\ gives) \/ worker'[p] = "done"
        BY <1>1 DEF WorkerInv
      <4>2. QED BY <1>1, <1>2, <1>3, <1>4, <3>1, <4>1
    <3>2. CASE q # p
      BY <1>1, <1>2, <1>3, <3>2 DEF WorkerInv
    <3>3. QED BY <3>1, <3>2
  <2>3. QED BY <2>1, <2>2 DEF WorkerInv
<1>6. Listed(allCities, done, call.text, reply', Read)
  <2>1. Listed(allCities, done, call.text, reply, Read)
    BY <1>2 DEF SpreadInv
  <2>2. \A q \in done : reply'[q] = reply[q]
    BY <1>3
  <2> HIDE DEF done
  <2>3. QED BY <2>1, <2>2, ListedSame
<1>7. Listed(allCities, {q \in Country : worker'[q] = "done"}, call.text, reply', Read)
  <2>1. CASE gives
    <3>1. {q \in Country : worker'[q] = "done"} = done
      BY <1>1, <2>1 DEF WorkerInv
    <3>2. QED BY <1>6, <3>1
  <2>2. CASE ~gives
    <3>1. {q \in Country : worker'[q] = "done"} = done \cup {p}
      BY <1>1, <2>2 DEF WorkerInv
    <3> HIDE DEF done
    <3>2. QED BY <1>4, <1>6, <2>2, <3>1, ListedPast
  <2>3. QED BY <2>1, <2>2
<1>8. \A q \in Country : worker'[q] = "none" => worker[q] = "none"
  BY <1>1 DEF WorkerInv
<1>9. SpreadInv'
  BY <1>1, <1>2, <1>7, <1>8 DEF SpreadInv
<1>10. QED BY <1>2, <1>5, <1>9

\* When all are done the list has what all provinces have, and is kept under the key of the
\* request.
LEMMA WaitKeeps ==
  ASSUME LInv, Wait
  PROVE  LInv'
<1> USE DEF LInv
<1>1. /\ phase = "spread" /\ \A p \in Country : worker[p] \in {"none", "done"}
      /\ \E whole : Settle(Found(allCities), whole)
      /\ UNCHANGED <<call, first, names, worker, reply, mu, allCities, copy>>
  BY DEF Wait
<1>2. CacheInv' /\ phase' = "answered" /\ answer'.ok = TRUE /\ answer'.places = allCities
  <2>1. Found(allCities).ok = TRUE /\ Found(allCities).places = allCities
    BY DEF Found
  <2>2. QED BY <1>1, <2>1, SettleKeeps
<1>3. WorkerInv'
  BY <1>1, <1>2 DEF WorkerInv
<1>4. SpreadInv'
  BY <1>2 DEF SpreadInv
<1>5. ASSUME first = "ok" PROVE Listed(allCities, Country, call.text, reply, Read)
  <2>1. {p \in Country : worker[p] = "done"} = Country
    BY <1>1, <1>5 DEF SpreadInv
  <2>2. QED BY <1>1, <2>1 DEF SpreadInv
<1>6. Nationwide(call')
  BY <1>1 DEF SpreadInv
<1>7. AnswerInv'
  BY <1>1, <1>2, <1>5, <1>6 DEF AnswerInv
<1>8. QED BY <1>2, <1>3, <1>4, <1>7

\* Every step of the server keeps LInv.
LEMMA LocationsNext ==
  ASSUME LInv, [ServerNext]_vars2
  PROVE  LInv'
<1>1. CASE UNCHANGED locations
  <2>1. CacheInv'
    BY <1>1 DEF locations, LInv, CacheInv
  <2>2. WorkerInv'
    BY <1>1 DEF locations, LInv, WorkerInv
  <2>3. SpreadInv'
    BY <1>1 DEF locations, LInv, SpreadInv
  <2>4. AnswerInv'
    BY <1>1 DEF locations, LInv, AnswerInv
  <2>5. QED BY <2>1, <2>2, <2>3, <2>4 DEF LInv
<1>2. CASE \E r \in Calls : Ask(r)
  BY <1>2, AskKeeps
<1>3. CASE Directory
  <2>1. ASSUME NEW kind \in Kinds, NEW list \in Legible(kind, Provinces), Spread(kind, list)
        PROVE  LInv'
    BY <2>1, SpreadKeeps
  <2>2. ASSUME NEW kind \in Kinds, NEW list, Reply(kind, list) PROVE LInv'
    BY <2>2, ReplyKeeps
  <2>3. ASSUME NEW p \in Country, NEW kind, NEW towns, Town(p, kind, towns) PROVE LInv'
    BY <2>3, TownKeeps
  <2>4. QED BY <1>3, <2>1, <2>2, <2>3 DEF Directory
<1>4. CASE Gather
  <2>1. ASSUME NEW p \in Country, TakeSlot(p) PROVE LInv'
    BY <2>1, TakeSlotKeeps
  <2>2. ASSUME NEW p \in Country, Lock(p) PROVE LInv'
    BY <2>2, LockKeeps
  <2>3. ASSUME NEW p \in Country, Merge(p) PROVE LInv'
    BY <2>3, MergeKeeps
  <2>4. CASE Wait
    BY <2>4, WaitKeeps
  <2>5. QED BY <1>4, <2>1, <2>2, <2>3, <2>4 DEF Gather
<1>5. CASE Return
  BY <1>5, ReturnKeeps
<1>6. CASE \E lives \in {{"hour"}, {"hour", "day"}} : Pass(lives)
  BY <1>6, PassKeeps
<1>7. QED BY <1>1, <1>2, <1>3, <1>4, <1>5, <1>6, ServerSteps DEF Steps

\* All parts of LInv hold at all times.
LEMMA ServerLocations == ServerSpec => []LInv
<1>1. ServerInit => LInv
  BY LocationsStart DEF ServerInit
<1>2. LInv /\ [ServerNext]_vars2 => LInv'
  BY LocationsNext
<1>3. QED BY <1>1, <1>2, PTL DEF ServerSpec

\* A request without a colon in it is never answered with what was assembled for another
\* (location_service.go:135): keys of other requests may be the same, this one's is its own.
THEOREM KeysTellApart == ServerSpec => []AnsweredAsAsked
<1>1. LInv => AnsweredAsAsked
  <2> SUFFICES ASSUME CacheInv, phase = "answered", answer.ok, ColonFree(call)
               PROVE  answer.for = call
    BY DEF LInv, AnsweredAsAsked
  <2>1. call \in Calls /\ answer.for \in Calls /\ Key(answer.for) = Key(call)
    BY DEF CacheInv
  <2>2. QED BY <2>1, ServerAssumption, KeyTells
<1>2. QED BY <1>1, ServerLocations, PTL

\* What the two programs list of the same replies is the same, but for replies with odd shapes.
LEMMA SameBlocks ==
  ASSUME NEW text, NEW r,
         NEW s, Listed(s, Country, text, r, Read), NEW t, Listed(t, Country, text, r, {"ok"})
  PROVE  {b \in ToSet(s) : r[b.of].kind # "odd"} = ToSet(t)
<1>1. \A q \in Country : Gives(r[q], text, {"ok"}) <=> Gives(r[q], text, Read) /\ r[q].kind # "odd"
  BY DEF Gives, Read
<1>2. \A q : Block(q, r[q].towns, text).of = q
  BY DEF Block
<1>3. {b \in BlocksOf(Country, text, r, Read) : r[b.of].kind # "odd"}
        = BlocksOf(Country, text, r, {"ok"})
  BY <1>1, <1>2 DEF BlocksOf
<1>4. QED BY <1>3 DEF Listed

\* Whatever the two directories reply and in whatever order the goroutines append, the answer is
\* the one of the program that asked for one province after the other, but for the order of the
\* provinces and for what was read of replies with an odd shape (location_service.go:264-324).
THEOREM ParallelAgrees == ServerSpec => []AgreesWithPrototype
<1>1. LInv => AgreesWithPrototype
  <2> DEFINE theirs == Answered(call, first, names, reply)
  <2> SUFFICES ASSUME SpreadInv, AnswerInv, CacheInv, phase = "answered", first # "none",
                      Covers(call), theirs.ok
               PROVE  /\ answer.ok
                      /\ IF Nationwide(call)
                         THEN /\ {b \in ToSet(answer.places) : reply[b.of].kind # "odd"}
                                  = ToSet(theirs.places)
                              /\ \A i, j \in DOMAIN answer.places :
                                   answer.places[i].of = answer.places[j].of => i = j
                         ELSE answer.places = theirs.places
    BY DEF LInv, AgreesWithPrototype
  <2>0. Failure.ok = FALSE /\ \A S : Found(S).ok = TRUE /\ Found(S).places = S
    BY DEF Failure, Found
  <2>1. CASE Nationwide(call)
    <3>1. theirs = getCitiesIndonesia(call.text, first, reply)
      BY <2>1 DEF Nationwide, Answered
    <3>2. first = "ok"
      BY <2>0, <3>1 DEF getCitiesIndonesia
    <3>3. theirs = Found(Visited(call.text, reply)[Len(Provinces)])
      BY <3>1, <3>2 DEF getCitiesIndonesia
    <3>4. Listed(theirs.places, Country, call.text, reply, {"ok"})
      BY <2>0, <3>3, PlacesAssumption, VisitedTowns
    <3>5. answer.ok /\ Listed(answer.places, Country, call.text, reply, Read)
      BY <2>1, <3>2 DEF AnswerInv
    <3> HIDE DEF theirs
    <3>6. {b \in ToSet(answer.places) : reply[b.of].kind # "odd"} = ToSet(theirs.places)
      BY <3>4, <3>5, SameBlocks
    <3>7. \A i, j \in DOMAIN answer.places : answer.places[i].of = answer.places[j].of => i = j
      BY <3>5 DEF Listed
    <3>8. QED BY <2>1, <3>5, <3>6, <3>7
  <2>2. CASE ~Nationwide(call)
    <3>1. /\ answer.ok = Direct(call, first, names).ok
          /\ answer.places = Direct(call, first, names).places
      BY <2>2 DEF AnswerInv
    <3>2. theirs = Direct(call, first, names)
      <4>1. CASE getCitiesHandler(call)
        <5>1. call.op = "GetCities" /\ call.country # Indonesia
          BY <2>2, <4>1 DEF getCitiesHandler, Nationwide
        <5>2. /\ theirs = International(first, names)
              /\ Direct(call, first, names) = abroad(first, names)
          BY <5>1 DEF Answered, getCitiesInternational, Direct, cities, citiesAbroad
        <5>3. QED BY <2>0, <5>2 DEF International, abroad
      <4>2. CASE getStatesHandler(call) /\ call.country = Indonesia
        <5>1. /\ theirs = getStatesIndonesia(first, names)
              /\ Direct(call, first, names) = states(first, names)
          BY <4>2 DEF getStatesHandler, Answered, Direct, statesOf
        <5>2. QED BY <2>0, <5>1 DEF getStatesIndonesia, states
      <4>3. CASE getStatesHandler(call) /\ call.country # Indonesia
        <5>1. /\ theirs = International(first, names)
              /\ Direct(call, first, names) = abroad(first, names)
          BY <4>3 DEF getStatesHandler, Answered, getStatesInternational, Direct, statesOf,
                      statesAbroad
        <5>2. QED BY <2>0, <5>1 DEF International, abroad
      <4>4. CASE getZipCodesHandler(call)
        <5>1. /\ theirs = International(first, names)
              /\ Direct(call, first, names) = abroad(first, names)
          BY <4>4 DEF getZipCodesHandler, Answered, getZipCodesInternational, Direct, zipCodes
        <5>2. QED BY <2>0, <5>1 DEF International, abroad
      <4>5. QED BY <4>1, <4>2, <4>3, <4>4 DEF Covers
    <3>3. QED BY <2>2, <3>1, <3>2
  <2>3. QED BY <2>1, <2>2
<1>2. QED BY <1>1, ServerLocations, PTL

-----------------------------------------------------------------------------
(***************************************************************************)
(* Http: the tables.  Two entries are apart if no request matches both;    *)
(* guards stand above what they guard; and a handler answers what went     *)
(* wrong with the status of an error, and what went well with another.     *)
(***************************************************************************)

\* A word no route has for a parameter, and what a parameter is taken for.
Taken == Params \cup {"word", "uuid"}

\* Two entries of which no request matches both: the earlier has a word of its own where the later
\* has another, or takes anything.
Apart(e, f) ==
  \/ e.verb # f.verb
  \/ Len(e.path) # Len(f.path)
  \/ \E k \in 1..Len(e.path) : e.path[k] \notin Taken /\ e.path[k] # f.path[k]

\* The entries of a table are apart from those of another, and from each other but for one.
Cross(S, T) == \A i \in DOMAIN S, j \in DOMAIN T : S[i].verb # "use" => Apart(S[i], T[j])
Clear(T) == \A i, j \in DOMAIN T :
  i < j /\ T[i].verb # "use" => Apart(T[i], T[j]) \/ T[j].handler = BulkResetAiLimit

\* A guard that takes every path of an entry, and an entry that comes after one.
Above(e, f, guard) ==
  /\ e.verb = "use" /\ e.guard = guard /\ Len(e.path) \in 1..Len(f.path)
  /\ \A k \in 1..Len(e.path) : e.path[k] = f.path[k] /\ e.path[k] \notin Params
Under(T, j, guard) == \E i \in 1..(j - 1) : Above(T[i], T[j], guard)
Owned(h)           == h.svc \in Personal \/ h \in Mine
Covered(T)         == \A j \in DOMAIN T : T[j].verb # "use" =>
  /\ T[j].handler.svc = "admin" => Under(T, j, "admin")
  /\ Owned(T[j].handler) => T[j].guard \in {"payment", "ws"} \/ Under(T, j, "jwt")

\* The first words of the paths, and the second ones.
WellFormed(p, n) == Len(p) \in Nat /\ DOMAIN p = 1..Len(p) /\ Len(p) >= n
GuardNames       == {"none", "jwt", "payment", "ws", "admin"}
Shaped(T)        == \A i \in DOMAIN T : WellFormed(T[i].path, 1) /\ T[i].guard \in GuardNames
Starts(T, W)     == \A i \in DOMAIN T : T[i].path[1] \in W
Seconds(T, W)    == \A i \in DOMAIN T :
  T[i].verb # "use" => WellFormed(T[i].path, 2) /\ T[i].path[2] \in W

\* A handler that answers what went wrong as an error, and what went well as none.
Refusing(tests) == \A i \in DOMAIN tests : i \in Nat /\ tests[i][2] \in 400..599
Refuses(errors) == \A e \in DOMAIN errors : errors[e] \in 400..599
Honest(h)       == h.ok \in 100..399 /\ Refusing(h.tests) /\ Refuses(h.errors)
Sound(h, svc)   == h.svc = svc /\ Honest(h)
Fair(T)         == \A i \in DOMAIN T : T[i].handler \in Quiet \/ Honest(T[i].handler)

Kept(T) == Shaped(T) /\ Clear(T) /\ Covered(T) /\ Fair(T)

\* The login of admins and their guard.
Gate == <<Route("POST", <<"admin", "login">>, AdminLogin), Use(<<"admin">>, "admin")>>

Tables  == {AuthRoutes, UserRoutes, OAuthRoutes, NotebookRoutes, NoteRoutes, ChatbotRoutes,
            PaymentRoutes, Gate,
            AdminUsers, AdminPlans, AdminLimits, AdminRest, LocationRoutes, PlanRoutes,
            NotificationRoutes}
Entries == UNION {{T[i] : i \in DOMAIN T} : T \in Tables}

\* A table joined of two has the entries of the one, and then those of the other.
LEMMA JoinedDomain ==
  ASSUME NEW V, NEW S \in Seq(V), NEW T \in Seq(V)
  PROVE  /\ S \o T \in Seq(V)
         /\ Len(S \o T) = Len(S) + Len(T)
         /\ \A i \in DOMAIN S : i \in DOMAIN (S \o T) /\ (S \o T)[i] = S[i]
         /\ \A j \in DOMAIN T : Len(S) + j \in DOMAIN (S \o T) /\ (S \o T)[Len(S) + j] = T[j]
         /\ \A i \in DOMAIN (S \o T) :
              \/ i \in DOMAIN S
              \/ i > Len(S) /\ i - Len(S) \in DOMAIN T /\ (S \o T)[i] = T[i - Len(S)]
  OBVIOUS

\* What holds of both holds of the table joined of them.
LEMMA JoinedClear ==
  ASSUME NEW V, NEW S \in Seq(V), NEW T \in Seq(V), Clear(S), Clear(T), Cross(S, T)
  PROVE  Clear(S \o T)
  BY JoinedDomain DEF Clear, Cross

\* What is apart from two tables is apart from them joined.
LEMMA JoinedCross ==
  ASSUME NEW V, NEW S \in Seq(V), NEW T \in Seq(V), NEW U, Cross(S, U), Cross(T, U)
  PROVE  Cross(S \o T, U)
  BY JoinedDomain DEF Cross

\* What stands after a guard does so when tables are joined.
LEMMA JoinedUnder ==
  ASSUME NEW V, NEW S \in Seq(V), NEW T \in Seq(V), NEW g
  PROVE  /\ \A j \in DOMAIN S : Under(S, j, g) => Under(S \o T, j, g)
         /\ \A j \in DOMAIN T : Under(T, j, g) => Under(S \o T, Len(S) + j, g)
<1>1. ASSUME NEW j \in DOMAIN S, Under(S, j, g) PROVE Under(S \o T, j, g)
  <2>1. PICK i \in 1..(j - 1) : Above(S[i], S[j], g)
    BY <1>1 DEF Under
  <2>2. (S \o T)[i] = S[i] /\ (S \o T)[j] = S[j]
    OBVIOUS
  <2>3. QED BY <2>1, <2>2 DEF Under
<1>2. ASSUME NEW j \in DOMAIN T, Under(T, j, g) PROVE Under(S \o T, Len(S) + j, g)
  <2> DEFINE R == S \o T
             m == Len(S) + j
  <2>1. PICK i \in 1..(j - 1) : Above(T[i], T[j], g)
    BY <1>2 DEF Under
  <2>2. Len(S) + i \in 1..(m - 1) /\ R[Len(S) + i] = T[i] /\ R[m] = T[j]
    OBVIOUS
  <2> HIDE DEF R, m
  <2>3. Under(R, m, g)
    BY <2>1, <2>2 DEF Under
  <2>4. QED BY <2>3 DEF R, m
<1>3. QED BY <1>1, <1>2

\* Services that ask for a token stand after their guards when tables are joined.
LEMMA JoinedCovered ==
  ASSUME NEW V, NEW S \in Seq(V), NEW T \in Seq(V), Covered(S), Covered(T)
  PROVE  Covered(S \o T)
<1> SUFFICES ASSUME NEW j \in DOMAIN (S \o T), (S \o T)[j].verb # "use"
             PROVE  /\ (S \o T)[j].handler.svc = "admin" => Under(S \o T, j, "admin")
                    /\ Owned((S \o T)[j].handler) =>
                         (S \o T)[j].guard \in {"payment", "ws"} \/ Under(S \o T, j, "jwt")
  BY DEF Covered
<1>1. CASE j \in DOMAIN S
  <2>1. (S \o T)[j] = S[j]
    BY <1>1
  <2>2. QED BY <1>1, <2>1, JoinedUnder DEF Covered
<1>2. CASE j \notin DOMAIN S
  <2>1. /\ j - Len(S) \in DOMAIN T /\ (S \o T)[j] = T[j - Len(S)]
        /\ Len(S) + (j - Len(S)) = j
    BY <1>2
  <2>2. \A g : Under(T, j - Len(S), g) => Under(S \o T, j, g)
    BY <2>1, JoinedUnder
  <2>3. QED BY <2>1, <2>2 DEF Covered
<1>3. QED BY <1>1, <1>2

\* So it is with handlers, shapes and the words that paths begin with.
LEMMA JoinedRest ==
  ASSUME NEW V, NEW S \in Seq(V), NEW T \in Seq(V)
  PROVE  /\ Fair(S) /\ Fair(T) => Fair(S \o T)
         /\ Shaped(S) /\ Shaped(T) => Shaped(S \o T)
         /\ \A W, U : Starts(S, W) /\ Starts(T, U) => Starts(S \o T, W \cup U)
         /\ \A W, U : Seconds(S, W) /\ Seconds(T, U) => Seconds(S \o T, W \cup U)
<1>1. Fair(S) /\ Fair(T) => Fair(S \o T)
  BY JoinedDomain DEF Fair
<1>2. Shaped(S) /\ Shaped(T) => Shaped(S \o T)
  BY JoinedDomain DEF Shaped
<1>3. \A W, U : Starts(S, W) /\ Starts(T, U) => Starts(S \o T, W \cup U)
  BY JoinedDomain DEF Starts
<1>4. \A W, U : Seconds(S, W) /\ Seconds(T, U) => Seconds(S \o T, W \cup U)
  BY JoinedDomain DEF Seconds
<1>5. QED BY <1>1, <1>2, <1>3, <1>4

\* Tables whose first words differ, or whose second words do, are apart.
LEMMA StartsCross ==
  ASSUME NEW S, NEW T, NEW W, NEW U, Starts(S, W), Starts(T, U), W \cap U = {}, W \cap Taken = {},
         Shaped(S), Shaped(T)
  PROVE  Cross(S, T)
  BY DEF Starts, Cross, Apart, Shaped, WellFormed

\* Tables whose paths differ in the second word are apart.
LEMMA SecondsCross ==
  ASSUME NEW S, NEW T, NEW W, NEW U, Seconds(S, W), Seconds(T, U), W \cap U = {}, W \cap Taken = {},
         Shaped(S), Shaped(T)
  PROVE  Cross(S, T)
  BY DEF Seconds, Cross, Apart, Shaped, WellFormed

\* How long the paths of the routes are.
LEMMA LongerPath == \A p : WellFormed(p, 2) => WellFormed(p, 1)
  BY DEF WellFormed

\* The paths of one to five words are well formed.
LEMMA PathLengths ==
  /\ \A a : WellFormed(<<a>>, 1)
  /\ \A a, b : WellFormed(<<a, b>>, 1) /\ WellFormed(<<a, b>>, 2)
  /\ \A a, b, c : WellFormed(<<a, b, c>>, 1) /\ WellFormed(<<a, b, c>>, 2)
  /\ \A a, b, c, d : WellFormed(<<a, b, c, d>>, 1) /\ WellFormed(<<a, b, c, d>>, 2)
  /\ \A a, b, c, d, e : WellFormed(<<a, b, c, d, e>>, 1) /\ WellFormed(<<a, b, c, d, e>>, 2)
  BY DEF WellFormed

\* The tests that handlers begin with, and the status that each refuses with.
Known == {Id, Fields, File, Query, Raised("media"), Raised("json"), Raised("fields"),
          <<"media", 400>>, <<"json", 400>>, <<"unreadable", 500>>, <<"code", 500>>,
          <<"upgrade", 426>>}

\* Each test a handler may make refuses with 400 or more.
LEMMA KnownRefuse == \A t \in Known : t[2] \in 400..599
  BY DEF Known, Id, Fields, File, Query, Raised, ErrorHandlerMiddleware

\* The tests of the handlers are of these.
LEMMA TestsKnown ==
  /\ <<>> \in Seq(Known) /\ Body \in Seq(Known) /\ RaisedBody \in Seq(Known)
  /\ ValidateRequest \in Seq(Known)
  /\ <<Id>> \in Seq(Known) /\ <<File>> \in Seq(Known) /\ <<Fields>> \in Seq(Known)
  /\ <<Query>> \in Seq(Known)
  /\ <<File, <<"unreadable", 500>>>> \in Seq(Known)
  /\ <<<<"code", ErrorHandlerMiddleware["panic"]>>>> \in Seq(Known)
  /\ <<<<"upgrade", 426>>>> \in Seq(Known)
<1> USE DEF Known
<1>1. <<>> \in Seq(Known) OBVIOUS
<1>2. Body \in Seq(Known)  BY DEF Body
<1>3. RaisedBody \in Seq(Known)  BY DEF RaisedBody
<1>4. ValidateRequest \in Seq(Known)  BY DEF ValidateRequest
<1>5. /\ <<Id>> \in Seq(Known) /\ <<File>> \in Seq(Known) /\ <<Fields>> \in Seq(Known)
      /\ <<Query>> \in Seq(Known)
  OBVIOUS
<1>6. <<File, <<"unreadable", 500>>>> \in Seq(Known) OBVIOUS
<1>7. <<<<"code", ErrorHandlerMiddleware["panic"]>>>> \in Seq(Known)
  BY DEF ErrorHandlerMiddleware
<1>8. <<<<"upgrade", 426>>>> \in Seq(Known) OBVIOUS
<1>9. QED BY ONLY <1>1, <1>2, <1>3, <1>4, <1>5, <1>6, <1>7, <1>8

\* So are those that are made of two or three.
LEMMA TestsJoined ==
  /\ <<Id>> \o RaisedBody \in Seq(Known) /\ <<Id>> \o Body \in Seq(Known)
  /\ Body \o <<Fields>> \in Seq(Known)
  /\ <<Id>> \o Body \o <<Fields>> \in Seq(Known) /\ RaisedBody \o ValidateRequest \in Seq(Known)
  BY TestsKnown

\* A handler with any of these refuses what fails them.
LEMMA TestsRefusing ==
  /\ Refusing(<<>>) /\ Refusing(Body) /\ Refusing(RaisedBody)
  /\ Refusing(<<Id>>) /\ Refusing(<<File>>) /\ Refusing(<<Query>>)
  /\ Refusing(<<Id>> \o RaisedBody) /\ Refusing(<<Id>> \o Body)
  /\ Refusing(Body \o <<Fields>>) /\ Refusing(<<Id>> \o Body \o <<Fields>>)
  /\ Refusing(RaisedBody \o ValidateRequest)
  /\ Refusing(<<File, <<"unreadable", 500>>>>) /\ Refusing(<<<<"upgrade", 426>>>>)
  /\ Refusing(<<<<"code", ErrorHandlerMiddleware["panic"]>>>>)
<1>1. \A tests \in Seq(Known) : Refusing(tests)
  BY KnownRefuse DEF Refusing
<1>2. QED BY <1>1, TestsKnown, TestsJoined

\* The ways in which errors are turned into statuses refuse.
LEMMA ErrorsRefuse ==
  /\ Refuses(Error) /\ Refuses(Raise)
  /\ Refuses(Else(400)) /\ Refuses(Else(401)) /\ Refuses(Else(404)) /\ Refuses(Else(426))
  BY DEF Refuses, Else, Error, Raise, ErrorHandlerMiddleware

\* What handlers answer when all went well is no error.
LEMMA StatusKinds == {101, 200, 201, 302, 307} \subseteq 100..399
  OBVIOUS

-----------------------------------------------------------------------------
(* The handlers: each answers for its service, and honestly. *)

\* auth_controller.go
LEMMA AuthSound ==
  /\ Sound(AdminLogin, "auth") /\ Sound(Register, "auth") /\ Sound(VerifyEmail, "auth")
  /\ Sound(Login, "auth") /\ Sound(ResetPassword, "auth")
  BY ONLY TestsRefusing, ErrorsRefuse, StatusKinds DEF Sound, Honest, Auth, Handler,
    AdminLogin, Register, VerifyEmail, Login, ResetPassword

\* admin_controller.go: users and what they paid.
LEMMA AdminSound1 ==
  /\ Sound(GetDashboardStats, "admin") /\ Sound(GetUserGrowth, "admin")
  /\ Sound(GetAllUsers, "admin") /\ Sound(CreateUser, "admin")
  /\ Sound(BulkCreateUsers, "admin") /\ Sound(GetUserDetail, "admin")
  /\ Sound(UpdateUserStatus, "admin") /\ Sound(UpdateUser, "admin")
  /\ Sound(DeleteUser, "admin") /\ Sound(PurgeUsers, "admin")
  /\ Sound(GetTransactions, "admin") /\ Sound(GetLogs, "admin")
<1>1. /\ Sound(GetDashboardStats, "admin") /\ Sound(GetUserGrowth, "admin")
      /\ Sound(GetAllUsers, "admin") /\ Sound(BulkCreateUsers, "admin")
      /\ Sound(GetUserDetail, "admin") /\ Sound(UpdateUserStatus, "admin")
      /\ Sound(UpdateUser, "admin") /\ Sound(DeleteUser, "admin") /\ Sound(PurgeUsers, "admin")
      /\ Sound(GetTransactions, "admin") /\ Sound(GetLogs, "admin")
  BY ONLY TestsRefusing, ErrorsRefuse, StatusKinds DEF Sound, Honest, Admin, Handler,
    GetDashboardStats, GetUserGrowth, GetAllUsers, BulkCreateUsers, GetUserDetail,
    UpdateUserStatus, UpdateUser, DeleteUser, PurgeUsers, GetTransactions, GetLogs
<1>2. Sound(CreateUser, "admin")
  <2>1. Refuses(On("already-exists", 409, Error))
    BY DEF Refuses, RefundErrors, On, Error, Raise, Else, ErrorHandlerMiddleware
  <2>2. QED BY ONLY <2>1, TestsRefusing, StatusKinds DEF Sound, Honest, Admin, Handler, CreateUser
<1>3. QED BY ONLY <1>1, <1>2

\* Subscriptions, plans and refunds.
LEMMA AdminSound2 ==
  /\ Sound(GetLogDetail, "admin") /\ Sound(UpgradeSubscription, "admin")
  /\ Sound(RefundSubscription, "admin") /\ Sound(CreatePlan, "admin")
  /\ Sound(UpdatePlan, "admin") /\ Sound(DeletePlan, "admin")
  /\ Sound(AdminGetAllPlans, "admin") /\ Sound(AdminGetRefunds, "admin")
  /\ Sound(ApproveRefund, "admin") /\ Sound(RejectRefund, "admin")
  /\ Sound(GetTokenUsage, "admin") /\ Sound(GetPlanFeatures, "admin")
<1>1. /\ Sound(GetLogDetail, "admin") /\ Sound(UpgradeSubscription, "admin")
      /\ Sound(RefundSubscription, "admin") /\ Sound(CreatePlan, "admin")
      /\ Sound(UpdatePlan, "admin") /\ Sound(AdminGetAllPlans, "admin")
      /\ Sound(AdminGetRefunds, "admin") /\ Sound(GetTokenUsage, "admin")
      /\ Sound(GetPlanFeatures, "admin")
  BY ONLY TestsRefusing, ErrorsRefuse, StatusKinds DEF Sound, Honest, Admin, Handler,
    GetLogDetail, UpgradeSubscription, RefundSubscription, CreatePlan, UpdatePlan,
    AdminGetAllPlans, AdminGetRefunds, GetTokenUsage, GetPlanFeatures
<1>2. Sound(DeletePlan, "admin")
  <2>1. Refuses(On("cannot-delete-plan", 409, Error))
    BY DEF Refuses, RefundErrors, On, Error, Raise, Else, ErrorHandlerMiddleware
  <2>2. QED BY ONLY <2>1, TestsRefusing, StatusKinds DEF Sound, Honest, Admin, Handler, DeletePlan
<1>3. Sound(ApproveRefund, "admin")
  <2>1. Refuses(RefundErrors)
    BY DEF Refuses, RefundErrors, On, Error, Raise, Else, ErrorHandlerMiddleware
  <2>2. QED BY ONLY <2>1, TestsRefusing, StatusKinds
              DEF Sound, Honest, Admin, Handler, ApproveRefund
<1>4. Sound(RejectRefund, "admin")
  <2>1. Refuses(RefundErrors)
    BY DEF Refuses, RefundErrors, On, Error, Raise, Else, ErrorHandlerMiddleware
  <2>2. QED BY ONLY <2>1, TestsRefusing, StatusKinds DEF Sound, Honest, Admin, Handler, RejectRefund
<1>5. QED BY ONLY <1>1, <1>2, <1>3, <1>4

\* Features, limits and configurations.
LEMMA AdminSound3 ==
  /\ Sound(CreatePlanFeature, "admin") /\ Sound(DeletePlanFeature, "admin")
  /\ Sound(GetAllFeatures, "admin") /\ Sound(CreateFeature, "admin")
  /\ Sound(UpdateFeature, "admin") /\ Sound(DeleteFeature, "admin")
  /\ Sound(UpdateAiLimit, "admin") /\ Sound(ResetAiLimit, "admin")
  /\ Sound(BulkUpdateAiLimit, "admin") /\ Sound(BulkResetAiLimit, "admin")
  /\ Sound(GetAllAiConfigurations, "admin") /\ Sound(UpdateAiConfiguration, "admin")
<1>1. /\ Sound(GetAllFeatures, "admin") /\ Sound(BulkUpdateAiLimit, "admin")
      /\ Sound(BulkResetAiLimit, "admin") /\ Sound(GetAllAiConfigurations, "admin")
  BY ONLY TestsRefusing, ErrorsRefuse, StatusKinds DEF Sound, Honest, Admin, Handler,
    GetAllFeatures, BulkUpdateAiLimit, BulkResetAiLimit, GetAllAiConfigurations
<1>2. Sound(CreatePlanFeature, "admin")
  <2>1. Refuses(On("plan-not-found", 404, Error))
    BY DEF Refuses, RefundErrors, On, Error, Raise, Else, ErrorHandlerMiddleware
  <2>2. QED BY ONLY <2>1, TestsRefusing, StatusKinds
              DEF Sound, Honest, Admin, Handler, CreatePlanFeature
<1>3. Sound(DeletePlanFeature, "admin")
  <2>1. Refuses(On("feature-not-found", 404, Error))
    BY DEF Refuses, RefundErrors, On, Error, Raise, Else, ErrorHandlerMiddleware
  <2>2. QED BY ONLY <2>1, TestsRefusing, StatusKinds
              DEF Sound, Honest, Admin, Handler, DeletePlanFeature
<1>4. Sound(CreateFeature, "admin")
  <2>1. Refuses(On("already-exists", 409, Error))
    BY DEF Refuses, RefundErrors, On, Error, Raise, Else, ErrorHandlerMiddleware
  <2>2. QED BY ONLY <2>1, TestsRefusing, StatusKinds
              DEF Sound, Honest, Admin, Handler, CreateFeature
<1>5. Sound(UpdateFeature, "admin")
  <2>1. Refuses(On("feature-not-found", 404, Error))
    BY DEF Refuses, RefundErrors, On, Error, Raise, Else, ErrorHandlerMiddleware
  <2>2. QED BY ONLY <2>1, TestsRefusing, StatusKinds
              DEF Sound, Honest, Admin, Handler, UpdateFeature
<1>6. Sound(DeleteFeature, "admin")
  <2>1. Refuses(On("feature-not-found", 404, Error))
    BY DEF Refuses, RefundErrors, On, Error, Raise, Else, ErrorHandlerMiddleware
  <2>2. QED BY ONLY <2>1, TestsRefusing, StatusKinds
              DEF Sound, Honest, Admin, Handler, DeleteFeature
<1>7. Sound(UpdateAiLimit, "admin")
  <2>1. Refuses(On("user-not-found", 404, Error))
    BY DEF Refuses, RefundErrors, On, Error, Raise, Else, ErrorHandlerMiddleware
  <2>2. QED BY ONLY <2>1, TestsRefusing, StatusKinds
              DEF Sound, Honest, Admin, Handler, UpdateAiLimit
<1>8. Sound(ResetAiLimit, "admin")
  <2>1. Refuses(On("user-not-found", 404, Error))
    BY DEF Refuses, RefundErrors, On, Error, Raise, Else, ErrorHandlerMiddleware
  <2>2. QED BY ONLY <2>1, TestsRefusing, StatusKinds DEF Sound, Honest, Admin, Handler, ResetAiLimit
<1>9. Sound(UpdateAiConfiguration, "admin")
  <2>1. Refuses(On("not-found", 404, Error))
    BY DEF Refuses, RefundErrors, On, Error, Raise, Else, ErrorHandlerMiddleware
  <2>2. QED BY ONLY <2>1, TestsRefusing, StatusKinds
              DEF Sound, Honest, Admin, Handler, UpdateAiConfiguration
<1>10. QED BY ONLY <1>1, <1>2, <1>3, <1>4, <1>5, <1>6, <1>7, <1>8, <1>9

\* Nuances, addresses and cancellations.
LEMMA AdminSound4 ==
  /\ Sound(GetAllNuances, "admin") /\ Sound(CreateNuance, "admin")
  /\ Sound(UpdateNuance, "admin") /\ Sound(DeleteNuance, "admin")
  /\ Sound(GetUserBillingAddresses, "admin") /\ Sound(CreateBillingAddress, "admin")
  /\ Sound(UpdateBillingAddress, "admin") /\ Sound(DeleteBillingAddress, "admin")
  /\ Sound(AdminGetCancellations, "admin") /\ Sound(ProcessCancellation, "admin")
<1>1. /\ Sound(GetAllNuances, "admin") /\ Sound(GetUserBillingAddresses, "admin")
      /\ Sound(CreateBillingAddress, "admin") /\ Sound(DeleteBillingAddress, "admin")
      /\ Sound(AdminGetCancellations, "admin")
  BY ONLY TestsRefusing, ErrorsRefuse, StatusKinds DEF Sound, Honest, Admin, Handler,
    GetAllNuances, GetUserBillingAddresses, CreateBillingAddress, DeleteBillingAddress,
    AdminGetCancellations
<1>2. Sound(CreateNuance, "admin")
  <2>1. Refuses(On("already-exists", 409, Error))
    BY DEF Refuses, RefundErrors, On, Error, Raise, Else, ErrorHandlerMiddleware
  <2>2. QED BY ONLY <2>1, TestsRefusing, StatusKinds DEF Sound, Honest, Admin, Handler, CreateNuance
<1>3. Sound(UpdateNuance, "admin")
  <2>1. Refuses(On("not-found", 404, Error))
    BY DEF Refuses, RefundErrors, On, Error, Raise, Else, ErrorHandlerMiddleware
  <2>2. QED BY ONLY <2>1, TestsRefusing, StatusKinds DEF Sound, Honest, Admin, Handler, UpdateNuance
<1>4. Sound(DeleteNuance, "admin")
  <2>1. Refuses(On("not-found", 404, Error))
    BY DEF Refuses, RefundErrors, On, Error, Raise, Else, ErrorHandlerMiddleware
  <2>2. QED BY ONLY <2>1, TestsRefusing, StatusKinds DEF Sound, Honest, Admin, Handler, DeleteNuance
<1>5. Sound(UpdateBillingAddress, "admin")
  <2>1. Refuses(On("not-found", 404, Error))
    BY DEF Refuses, RefundErrors, On, Error, Raise, Else, ErrorHandlerMiddleware
  <2>2. QED BY ONLY <2>1, TestsRefusing, StatusKinds
              DEF Sound, Honest, Admin, Handler, UpdateBillingAddress
<1>6. Sound(ProcessCancellation, "admin")
  <2>1. Refuses(On("not-found", 404, Error))
    BY DEF Refuses, RefundErrors, On, Error, Raise, Else, ErrorHandlerMiddleware
  <2>2. QED BY ONLY <2>1, TestsRefusing, StatusKinds
              DEF Sound, Honest, Admin, Handler, ProcessCancellation
<1>7. QED BY ONLY <1>1, <1>2, <1>3, <1>4, <1>5, <1>6

\* user_controller.go
LEMMA UserSound ==
  /\ Sound(GetProfile, "user") /\ Sound(UpdateProfile, "user") /\ Sound(DeleteAccount, "user")
  /\ Sound(UploadAvatar, "user") /\ Sound(RequestRefund, "user") /\ Sound(GetRefunds, "user")
  /\ Sound(GetRefundDetail, "user") /\ Sound(GetBillingInfo, "user")
  /\ Sound(UpdateBillingInfo, "user") /\ Sound(RequestCancellation, "user")
  /\ Sound(GetCancellations, "user") /\ Sound(GetCancellationDetail, "user")
<1>1. /\ Sound(GetProfile, "user") /\ Sound(UpdateProfile, "user")
      /\ Sound(DeleteAccount, "user") /\ Sound(UploadAvatar, "user")
      /\ Sound(GetRefunds, "user") /\ Sound(GetBillingInfo, "user")
      /\ Sound(UpdateBillingInfo, "user") /\ Sound(GetCancellations, "user")
  BY ONLY TestsRefusing, ErrorsRefuse, StatusKinds DEF Sound, Honest, Handler, User,
    GetProfile, UpdateProfile, DeleteAccount, UploadAvatar, GetRefunds, GetBillingInfo,
    UpdateBillingInfo, GetCancellations
<1>2. Sound(RequestRefund, "user")
  <2>1. Refuses(On("subscription-not-found", 404,
                   On("already-requested", 400,
                      On("not-active", 400, On("not-eligible", 400, Error)))))
    BY DEF Refuses, RefundErrors, On, Error, Raise, Else, ErrorHandlerMiddleware
  <2>2. QED BY ONLY <2>1, TestsRefusing, StatusKinds DEF Sound, Honest, Handler, User, RequestRefund
<1>3. Sound(GetRefundDetail, "user")
  <2>1. Refuses(On("refund-not-found", 404, Error))
    BY DEF Refuses, RefundErrors, On, Error, Raise, Else, ErrorHandlerMiddleware
  <2>2. QED BY ONLY <2>1, TestsRefusing, StatusKinds
              DEF Sound, Honest, Handler, User, GetRefundDetail
<1>4. Sound(RequestCancellation, "user")
  <2>1. Refuses(On("subscription-not-found", 404,
                   On("already-requested", 400, On("not-active", 400, Error))))
    BY DEF Refuses, RefundErrors, On, Error, Raise, Else, ErrorHandlerMiddleware
  <2>2. QED BY ONLY <2>1, TestsRefusing, StatusKinds
              DEF Sound, Honest, Handler, User, RequestCancellation
<1>5. Sound(GetCancellationDetail, "user")
  <2>1. Refuses(On("cancellation-not-found", 404, Error))
    BY DEF Refuses, RefundErrors, On, Error, Raise, Else, ErrorHandlerMiddleware
  <2>2. QED BY ONLY <2>1, TestsRefusing, StatusKinds
              DEF Sound, Honest, Handler, User, GetCancellationDetail
<1>6. QED BY ONLY <1>1, <1>2, <1>3, <1>4, <1>5

\* note_controller.go
LEMMA NoteSound ==
  /\ Sound(NoteCreate, "note") /\ Sound(NoteShow, "note") /\ Sound(NoteUpdate, "note")
  /\ Sound(NoteDelete, "note") /\ Sound(MoveNote, "note") /\ Sound(SemanticSearch, "note")
<1>1. /\ Sound(NoteCreate, "note") /\ Sound(NoteShow, "note") /\ Sound(NoteUpdate, "note")
      /\ Sound(NoteDelete, "note") /\ Sound(MoveNote, "note")
  BY ONLY TestsRefusing, ErrorsRefuse, StatusKinds DEF Sound, Honest, Handler, Note,
    NoteCreate, NoteShow, NoteUpdate, NoteDelete, MoveNote
<1>2. Sound(SemanticSearch, "note")
  <2>1. Refuses(On("feature-requires-pro-plan", 403, Raise))
    BY DEF Refuses, RefundErrors, On, Error, Raise, Else, ErrorHandlerMiddleware
  <2>2. QED BY ONLY <2>1, TestsRefusing, StatusKinds
              DEF Sound, Honest, Handler, Note, SemanticSearch
<1>3. QED BY ONLY <1>1, <1>2

\* notebook_controller.go
LEMMA NotebookSound ==
  /\ Sound(NotebookGetAll, "notebook") /\ Sound(NotebookCreate, "notebook")
  /\ Sound(NotebookShow, "notebook") /\ Sound(NotebookUpdate, "notebook")
  /\ Sound(NotebookDelete, "notebook") /\ Sound(MoveNotebook, "notebook")
  BY ONLY TestsRefusing, ErrorsRefuse, StatusKinds DEF Sound, Honest, Handler, Notebook,
    NotebookGetAll, NotebookCreate, NotebookShow, NotebookUpdate, NotebookDelete, MoveNotebook

\* chatbot_controller.go
LEMMA ChatbotSound ==
  /\ Sound(CreateSession, "chatbot") /\ Sound(GetAllSessions, "chatbot")
  /\ Sound(GetChatHistory, "chatbot") /\ Sound(SendChat, "chatbot")
  /\ Sound(DeleteSession, "chatbot") /\ Sound(GetAvailableNuances, "chatbot")
<1>1. /\ Sound(CreateSession, "chatbot") /\ Sound(GetAllSessions, "chatbot")
      /\ Sound(GetChatHistory, "chatbot") /\ Sound(DeleteSession, "chatbot")
      /\ Sound(GetAvailableNuances, "chatbot")
  BY ONLY TestsRefusing, ErrorsRefuse, StatusKinds DEF Sound, Honest, Chatbot, Handler,
    CreateSession, GetAllSessions, GetChatHistory, DeleteSession, GetAvailableNuances
<1>2. Sound(SendChat, "chatbot")
  <2>1. Refuses(On("limit-exceeded", 429, On("feature-requires-pro-plan", 403, Error)))
    BY DEF Refuses, RefundErrors, On, Error, Raise, Else, ErrorHandlerMiddleware
  <2>2. QED BY ONLY <2>1, TestsRefusing, StatusKinds DEF Sound, Honest, Chatbot, Handler, SendChat
<1>3. QED BY ONLY <1>1, <1>2

\* payment_controller.go
LEMMA PaymentSound ==
  /\ Sound(Webhook, "payment") /\ Sound(GetPlans, "payment")
  /\ Sound(GetOrderSummary, "payment") /\ Sound(Checkout, "payment")
  /\ Sound(GetStatus, "payment") /\ Sound(CancelSubscription, "payment")
  /\ Sound(ValidateSubscription, "payment")
  BY ONLY TestsRefusing, ErrorsRefuse, StatusKinds DEF Sound, Honest, Handler, Payment,
    Webhook, GetPlans, GetOrderSummary, Checkout, GetStatus, CancelSubscription,
    ValidateSubscription

\* oauth_controller.go, plan_controller.go and the hub.
LEMMA OtherSound ==
  /\ Sound(OAuthLogin, "oauth") /\ Sound(Callback, "oauth") /\ Sound(GetAllPlans, "plan")
  /\ Sound(GetUsageStatus, "usage") /\ Sound(DebugTriggerEvent, "debug")
  /\ Sound(ServeWs, "hub")
<1>1. /\ Sound(OAuthLogin, "oauth") /\ Sound(Callback, "oauth") /\ Sound(GetAllPlans, "plan")
      /\ Sound(GetUsageStatus, "usage") /\ Sound(ServeWs, "hub")
  BY ONLY TestsRefusing, ErrorsRefuse, StatusKinds DEF Sound, Honest, Handler, OAuthLogin,
    Callback, GetAllPlans, GetUsageStatus, ServeWs
<1>2. Sound(DebugTriggerEvent, "debug")
  <2>1. Refuses(On("no-publisher", 503, Error))
    BY DEF Refuses, RefundErrors, On, Error, Raise, Else, ErrorHandlerMiddleware
  <2>2. QED BY ONLY <2>1, TestsRefusing, StatusKinds DEF Sound, Honest, Handler, DebugTriggerEvent
<1>3. QED BY ONLY <1>1, <1>2

\* location_controller.go
LEMMA LocationSound ==
  /\ Sound(DetectCountry, "location") /\ Sound(GetCountries, "location")
  /\ Sound(GetCities, "location") /\ Sound(GetStates, "location")
  /\ Sound(GetZipCodes, "location")
  BY ONLY TestsRefusing, ErrorsRefuse, StatusKinds DEF Sound, Honest, Handler, Location,
    DetectCountry, GetCountries, GetCities, GetStates, GetZipCodes

\* notification_controller.go
LEMMA NotifSound ==
  /\ Sound(GetNotifications, "notification") /\ Sound(GetUnreadCount, "notification")
  /\ Sound(MarkAsRead, "notification") /\ Sound(MarkAllAsRead, "notification")
<1>1. /\ Sound(GetUnreadCount, "notification") /\ Sound(MarkAsRead, "notification")
      /\ Sound(MarkAllAsRead, "notification")
  BY ONLY TestsRefusing, ErrorsRefuse, StatusKinds DEF Sound, Honest, Handler, Notif,
    GetUnreadCount, MarkAsRead, MarkAllAsRead
<1>2. Sound(GetNotifications, "notification")
  <2>1. Refuses(On("limit-is-zero", ErrorHandlerMiddleware["panic"], Error))
    BY DEF Refuses, RefundErrors, On, Error, Raise, Else, ErrorHandlerMiddleware
  <2>2. QED BY ONLY <2>1, TestsRefusing, StatusKinds
              DEF Sound, Honest, Handler, Notif, GetNotifications
<1>3. QED BY ONLY <1>1, <1>2

\* The entries an admin alone may come to.
Administered(T) == \A i \in DOMAIN T :
  /\ T[i].verb # "use" /\ T[i].handler.svc = "admin"
  /\ WellFormed(T[i].path, 1) /\ T[i].path[1] = "admin"

\* Checkout and what comes after it belong to the payments.
LEMMA MineSvc == \A h \in Mine : h.svc = "payment"
  BY DEF Mine, Checkout, GetStatus, CancelSubscription, ValidateSubscription, Payment, Handler

-----------------------------------------------------------------------------
(* The tables, one by one: clear, covered and fair. *)

\* Routes that anybody may take.
LEMMA AuthRoutesKept ==
  ASSUME NEW T, T = AuthRoutes
  PROVE  /\ T \in Seq({T[i] : i \in DOMAIN T}) /\ Shaped(T) /\ Clear(T) /\ Fair(T)
         /\ Starts(T, {"auth"}) /\ Covered(T)
<1> DEFINE N == {1, 2, 3, 4, 5, 6}
<1>1. T \in Seq({T[i] : i \in DOMAIN T}) /\ DOMAIN T = N
  <2>1. T \in Seq({T[i] : i \in DOMAIN T}) /\ DOMAIN T = 1..6
    BY DEF AuthRoutes
  <2>2. QED BY <2>1
<1>2. /\ T[1].verb = "POST" /\ T[2].verb = "POST" /\ T[3].verb = "POST" /\ T[4].verb = "POST"
      /\ T[5].verb = "POST" /\ T[6].verb = "POST"
  BY DEF AuthRoutes, Route, Use, Entry
<1>3. /\ T[1].path = <<"auth", "register">> /\ T[2].path = <<"auth", "verify-email">>
      /\ T[3].path = <<"auth", "login">> /\ T[4].path = <<"auth", "forgot-password">>
      /\ T[5].path = <<"auth", "reset-password">> /\ T[6].path = <<"auth", "logout">>
  BY DEF AuthRoutes, Route, Use, Entry
<1>4. /\ T[1].handler = Register /\ T[2].handler = VerifyEmail /\ T[3].handler = Login
      /\ T[4].handler = ForgotPassword /\ T[5].handler = ResetPassword /\ T[6].handler = Logout
  BY DEF AuthRoutes, Route, Use, Entry
<1>5. \A j \in N : WellFormed(T[j].path, 2) /\ T[j].path[1] \in {"auth"}
  <2>1. /\ WellFormed(T[1].path, 2) /\ WellFormed(T[2].path, 2) /\ WellFormed(T[3].path, 2)
        /\ WellFormed(T[4].path, 2) /\ WellFormed(T[5].path, 2) /\ WellFormed(T[6].path, 2)
    BY <1>3, PathLengths
  <2>2. \A j \in N : T[j].path[1] \in {"auth"}
    BY <1>3
  <2>3. QED BY <2>1, <2>2
<1>6. Shaped(T) /\ Starts(T, {"auth"})
  <2>1. \A j \in N : WellFormed(T[j].path, 1)
    BY ONLY <1>5, LongerPath
  <2>2. /\ T[1].guard = "none" /\ T[2].guard = "none" /\ T[3].guard = "none"
        /\ T[4].guard = "none" /\ T[5].guard = "none" /\ T[6].guard = "none"
    BY DEF AuthRoutes, Route, Use, Entry
  <2>3. \A j \in N : T[j].guard \in GuardNames
    BY ONLY <2>2 DEF GuardNames
  <2>4. QED BY ONLY <1>1, <1>5, <2>1, <2>3 DEF Shaped, Starts
<1>7. Clear(T)
  <2>1. \A j \in N : 1 < j => Apart(T[1], T[j])
    BY <1>2, <1>3 DEF Apart, Taken, Params
  <2>2. \A j \in N : 2 < j => Apart(T[2], T[j])
    BY <1>2, <1>3 DEF Apart, Taken, Params
  <2>3. \A j \in N : 3 < j => Apart(T[3], T[j])
    BY <1>2, <1>3 DEF Apart, Taken, Params
  <2>4. \A j \in N : 4 < j => Apart(T[4], T[j])
    BY <1>2, <1>3 DEF Apart, Taken, Params
  <2>5. \A j \in N : 5 < j => Apart(T[5], T[j])
    BY <1>2, <1>3 DEF Apart, Taken, Params
  <2>6. QED BY <1>1, <1>2, <1>4, <2>1, <2>2, <2>3, <2>4, <2>5 DEF Clear
<1>8. Fair(T)
  BY <1>1, <1>4, AuthSound DEF Fair, Sound, Quiet
<1>9. Covered(T)
  <2>4. \A j \in N : T[j].verb # "use" => T[j].handler.svc # "admin"
    BY <1>2, <1>4, AuthSound DEF Sound, Auth, Handler, ForgotPassword, Logout
  <2>5. \A j \in {1, 2, 3, 4, 5, 6} : ~Owned(T[j].handler)
    BY <1>4, MineSvc, AuthSound DEF Owned, Personal, Sound, Auth, Handler, ForgotPassword, Logout
  <2>6. QED BY <1>1, <1>2, <2>5, <2>4 DEF Covered
<1>10. QED BY <1>1, <1>6, <1>7, <1>8, <1>9

\* Routes behind the guard of users.
LEMMA UserRoutesKept ==
  ASSUME NEW T, T = UserRoutes
  PROVE  /\ T \in Seq({T[i] : i \in DOMAIN T}) /\ Shaped(T) /\ Clear(T) /\ Fair(T)
         /\ Starts(T, {"user"}) /\ Covered(T)
<1> DEFINE N == {1, 2, 3, 4, 5, 6, 7, 8, 9, 10, 11, 12, 13}
<1>1. T \in Seq({T[i] : i \in DOMAIN T}) /\ DOMAIN T = N
  <2>1. T \in Seq({T[i] : i \in DOMAIN T}) /\ DOMAIN T = 1..13
    BY DEF UserRoutes
  <2>2. QED BY <2>1
<1>2. /\ T[1].verb = "use" /\ T[2].verb = "GET" /\ T[3].verb = "PUT" /\ T[4].verb = "DELETE"
      /\ T[5].verb = "POST" /\ T[6].verb = "POST" /\ T[7].verb = "GET" /\ T[8].verb = "GET"
      /\ T[9].verb = "GET" /\ T[10].verb = "PUT" /\ T[11].verb = "POST" /\ T[12].verb = "GET"
      /\ T[13].verb = "GET"
  BY DEF UserRoutes, Route, Use, Entry
<1>3. /\ T[1].path = <<"user">> /\ T[2].path = <<"user", "profile">>
      /\ T[3].path = <<"user", "profile">> /\ T[4].path = <<"user", "account">>
      /\ T[5].path = <<"user", "avatar">> /\ T[6].path = <<"user", "refund", "request">>
      /\ T[7].path = <<"user", "refunds">> /\ T[8].path = <<"user", "refunds", ":id">>
      /\ T[9].path = <<"user", "billing">> /\ T[10].path = <<"user", "billing">>
      /\ T[11].path = <<"user", "cancellation">> /\ T[12].path = <<"user", "cancellations">>
      /\ T[13].path = <<"user", "cancellations", ":id">>
  BY DEF UserRoutes, Route, Use, Entry
<1>4. /\ T[1].handler = DetectCountry /\ T[2].handler = GetProfile
      /\ T[3].handler = UpdateProfile /\ T[4].handler = DeleteAccount
      /\ T[5].handler = UploadAvatar /\ T[6].handler = RequestRefund
      /\ T[7].handler = GetRefunds /\ T[8].handler = GetRefundDetail
      /\ T[9].handler = GetBillingInfo /\ T[10].handler = UpdateBillingInfo
      /\ T[11].handler = RequestCancellation /\ T[12].handler = GetCancellations
      /\ T[13].handler = GetCancellationDetail
  BY DEF UserRoutes, Route, Use, Entry
<1>5. \A j \in N : WellFormed(T[j].path, 1) /\ T[j].path[1] \in {"user"}
  <2>1. /\ WellFormed(T[1].path, 1) /\ WellFormed(T[2].path, 1) /\ WellFormed(T[3].path, 1)
        /\ WellFormed(T[4].path, 1) /\ WellFormed(T[5].path, 1) /\ WellFormed(T[6].path, 1)
        /\ WellFormed(T[7].path, 1) /\ WellFormed(T[8].path, 1) /\ WellFormed(T[9].path, 1)
        /\ WellFormed(T[10].path, 1) /\ WellFormed(T[11].path, 1) /\ WellFormed(T[12].path, 1)
        /\ WellFormed(T[13].path, 1)
    BY <1>3, PathLengths
  <2>2. \A j \in N : T[j].path[1] \in {"user"}
    BY <1>3
  <2>3. QED BY <2>1, <2>2
<1>6. Shaped(T) /\ Starts(T, {"user"})
  <2>1. \A j \in N : WellFormed(T[j].path, 1)
    BY ONLY <1>5, LongerPath
  <2>2. /\ T[1].guard = "jwt" /\ T[2].guard = "none" /\ T[3].guard = "none"
        /\ T[4].guard = "none" /\ T[5].guard = "none" /\ T[6].guard = "none"
        /\ T[7].guard = "none" /\ T[8].guard = "none" /\ T[9].guard = "none"
        /\ T[10].guard = "none" /\ T[11].guard = "none" /\ T[12].guard = "none"
        /\ T[13].guard = "none"
    BY DEF UserRoutes, Route, Use, Entry
  <2>3. \A j \in N : T[j].guard \in GuardNames
    BY ONLY <2>2 DEF GuardNames
  <2>4. QED BY ONLY <1>1, <1>5, <2>1, <2>3 DEF Shaped, Starts
<1>7. Clear(T)
  <2>1. \A j \in N : 2 < j => Apart(T[2], T[j])
    BY <1>2, <1>3 DEF Apart, Taken, Params
  <2>2. \A j \in N : 3 < j => Apart(T[3], T[j])
    BY <1>2, <1>3 DEF Apart, Taken, Params
  <2>3. \A j \in N : 4 < j => Apart(T[4], T[j])
    BY <1>2, <1>3 DEF Apart, Taken, Params
  <2>4. \A j \in N : 5 < j => Apart(T[5], T[j])
    BY <1>2, <1>3 DEF Apart, Taken, Params
  <2>5. \A j \in N : 6 < j => Apart(T[6], T[j])
    BY <1>2, <1>3 DEF Apart, Taken, Params
  <2>6. \A j \in N : 7 < j => Apart(T[7], T[j])
    BY <1>2, <1>3 DEF Apart, Taken, Params
  <2>7. \A j \in N : 8 < j => Apart(T[8], T[j])
    BY <1>2, <1>3 DEF Apart, Taken, Params
  <2>8. \A j \in N : 9 < j => Apart(T[9], T[j])
    BY <1>2, <1>3 DEF Apart, Taken, Params
  <2>9. \A j \in N : 10 < j => Apart(T[10], T[j])
    BY <1>2, <1>3 DEF Apart, Taken, Params
  <2>10. \A j \in N : 11 < j => Apart(T[11], T[j])
    BY <1>2, <1>3 DEF Apart, Taken, Params
  <2>11. \A j \in N : 12 < j => Apart(T[12], T[j])
    BY <1>2, <1>3 DEF Apart, Taken, Params
  <2>12. QED BY <1>1, <1>2, <1>4, <2>1, <2>2, <2>3, <2>4, <2>5, <2>6, <2>7, <2>8, <2>9, <2>10,
                <2>11 DEF Clear
<1>8. Fair(T)
  BY <1>1, <1>4, LocationSound, UserSound DEF Fair, Sound
<1>9. Covered(T)
  <2>1. ASSUME NEW j \in {2, 3, 4, 5, 6, 7, 8, 9, 10, 11, 12, 13} PROVE Above(T[1], T[j], "jwt")
    <3>1. T[1].verb = "use" /\ T[1].guard = "jwt"
      BY DEF UserRoutes, Use, Entry
    <3>2. /\ T[j].path[1] = T[1].path[1] /\ T[1].path[1] \notin Params
      BY <1>3 DEF Params
    <3>3. Len(T[1].path) = 1 /\ 1..1 = {1}
      BY <1>3
    <3>4. WellFormed(T[j].path, 1)
      BY <1>5
    <3>5. Len(T[1].path) \in 1..Len(T[j].path)
      BY <3>3, <3>4 DEF WellFormed
    <3>6. \A k \in 1..Len(T[1].path) : T[1].path[k] = T[j].path[k] /\ T[1].path[k] \notin Params
      BY ONLY <3>2, <3>3
    <3>7. QED BY ONLY <3>1, <3>5, <3>6 DEF Above
  <2>2. \A j \in {2, 3, 4, 5, 6, 7, 8, 9, 10, 11, 12, 13} : Under(T, j, "jwt")
    BY <2>1 DEF Under
  <2>4. \A j \in N : T[j].verb # "use" => T[j].handler.svc # "admin"
    BY <1>2, <1>4, LocationSound, UserSound DEF Sound
  <2>6. QED BY <1>1, <1>2, <2>2, <2>4 DEF Covered
<1>10. QED BY <1>1, <1>6, <1>7, <1>8, <1>9

\* Routes that anybody may take.
LEMMA OAuthRoutesKept ==
  ASSUME NEW T, T = OAuthRoutes
  PROVE  /\ T \in Seq({T[i] : i \in DOMAIN T}) /\ Shaped(T) /\ Clear(T) /\ Fair(T)
         /\ Starts(T, {"auth"}) /\ Covered(T)
<1> DEFINE N == {1, 2}
<1>1. T \in Seq({T[i] : i \in DOMAIN T}) /\ DOMAIN T = N
  <2>1. T \in Seq({T[i] : i \in DOMAIN T}) /\ DOMAIN T = 1..2
    BY DEF OAuthRoutes
  <2>2. QED BY <2>1
<1>2. /\ T[1].verb = "GET" /\ T[2].verb = "GET"
  BY DEF OAuthRoutes, Route, Use, Entry
<1>3. /\ T[1].path = <<"auth", ":provider">> /\ T[2].path = <<"auth", ":provider", "callback">>
  BY DEF OAuthRoutes, Route, Use, Entry
<1>4. /\ T[1].handler = OAuthLogin /\ T[2].handler = Callback
  BY DEF OAuthRoutes, Route, Use, Entry
<1>5. \A j \in N : WellFormed(T[j].path, 2) /\ T[j].path[1] \in {"auth"}
  <2>1. /\ WellFormed(T[1].path, 2) /\ WellFormed(T[2].path, 2)
    BY <1>3, PathLengths
  <2>2. \A j \in N : T[j].path[1] \in {"auth"}
    BY <1>3
  <2>3. QED BY <2>1, <2>2
<1>6. Shaped(T) /\ Starts(T, {"auth"})
  <2>1. \A j \in N : WellFormed(T[j].path, 1)
    BY ONLY <1>5, LongerPath
  <2>2. /\ T[1].guard = "none" /\ T[2].guard = "none"
    BY DEF OAuthRoutes, Route, Use, Entry
  <2>3. \A j \in N : T[j].guard \in GuardNames
    BY ONLY <2>2 DEF GuardNames
  <2>4. QED BY ONLY <1>1, <1>5, <2>1, <2>3 DEF Shaped, Starts
<1>7. Clear(T)
  <2>1. \A j \in N : 1 < j => Apart(T[1], T[j])
    BY <1>2, <1>3 DEF Apart, Taken, Params
  <2>2. QED BY <1>1, <1>2, <1>4, <2>1 DEF Clear
<1>8. Fair(T)
  BY <1>1, <1>4, OtherSound DEF Fair, Sound
<1>9. Covered(T)
  <2>4. \A j \in N : T[j].verb # "use" => T[j].handler.svc # "admin"
    BY <1>2, <1>4, OtherSound DEF Sound
  <2>5. \A j \in {1, 2} : ~Owned(T[j].handler)
    BY <1>4, MineSvc, OtherSound DEF Owned, Personal, Sound
  <2>6. QED BY <1>1, <1>2, <2>5, <2>4 DEF Covered
<1>10. QED BY <1>1, <1>6, <1>7, <1>8, <1>9

\* Routes behind the guard of users.
LEMMA NotebookRoutesKept ==
  ASSUME NEW T, T = NotebookRoutes
  PROVE  /\ T \in Seq({T[i] : i \in DOMAIN T}) /\ Shaped(T) /\ Clear(T) /\ Fair(T)
         /\ Starts(T, {"notebook"}) /\ Covered(T)
<1> DEFINE N == {1, 2, 3, 4, 5, 6, 7}
<1>1. T \in Seq({T[i] : i \in DOMAIN T}) /\ DOMAIN T = N
  <2>1. T \in Seq({T[i] : i \in DOMAIN T}) /\ DOMAIN T = 1..7
    BY DEF NotebookRoutes
  <2>2. QED BY <2>1
<1>2. /\ T[1].verb = "use" /\ T[2].verb = "GET" /\ T[3].verb = "POST" /\ T[4].verb = "GET"
      /\ T[5].verb = "PUT" /\ T[6].verb = "DELETE" /\ T[7].verb = "PUT"
  BY DEF NotebookRoutes, Route, Use, Entry
<1>3. /\ T[1].path = <<"notebook", "v1">> /\ T[2].path = <<"notebook", "v1">>
      /\ T[3].path = <<"notebook", "v1">> /\ T[4].path = <<"notebook", "v1", ":id">>
      /\ T[5].path = <<"notebook", "v1", ":id">> /\ T[6].path = <<"notebook", "v1", ":id">>
      /\ T[7].path = <<"notebook", "v1", ":id", "move">>
  BY DEF NotebookRoutes, Route, Use, Entry
<1>4. /\ T[1].handler = DetectCountry /\ T[2].handler = NotebookGetAll
      /\ T[3].handler = NotebookCreate /\ T[4].handler = NotebookShow
      /\ T[5].handler = NotebookUpdate /\ T[6].handler = NotebookDelete
      /\ T[7].handler = MoveNotebook
  BY DEF NotebookRoutes, Route, Use, Entry
<1>5. \A j \in N : WellFormed(T[j].path, 2) /\ T[j].path[1] \in {"notebook"}
  <2>1. /\ WellFormed(T[1].path, 2) /\ WellFormed(T[2].path, 2) /\ WellFormed(T[3].path, 2)
        /\ WellFormed(T[4].path, 2) /\ WellFormed(T[5].path, 2) /\ WellFormed(T[6].path, 2)
        /\ WellFormed(T[7].path, 2)
    BY <1>3, PathLengths
  <2>2. \A j \in N : T[j].path[1] \in {"notebook"}
    BY <1>3
  <2>3. QED BY <2>1, <2>2
<1>6. Shaped(T) /\ Starts(T, {"notebook"})
  <2>1. \A j \in N : WellFormed(T[j].path, 1)
    BY ONLY <1>5, LongerPath
  <2>2. /\ T[1].guard = "jwt" /\ T[2].guard = "none" /\ T[3].guard = "none"
        /\ T[4].guard = "none" /\ T[5].guard = "none" /\ T[6].guard = "none"
        /\ T[7].guard = "none"
    BY DEF NotebookRoutes, Route, Use, Entry
  <2>3. \A j \in N : T[j].guard \in GuardNames
    BY ONLY <2>2 DEF GuardNames
  <2>4. QED BY ONLY <1>1, <1>5, <2>1, <2>3 DEF Shaped, Starts
<1>7. Clear(T)
  <2>1. \A j \in N : 2 < j => Apart(T[2], T[j])
    BY <1>2, <1>3 DEF Apart, Taken, Params
  <2>2. \A j \in N : 3 < j => Apart(T[3], T[j])
    BY <1>2, <1>3 DEF Apart, Taken, Params
  <2>3. \A j \in N : 4 < j => Apart(T[4], T[j])
    BY <1>2, <1>3 DEF Apart, Taken, Params
  <2>4. \A j \in N : 5 < j => Apart(T[5], T[j])
    BY <1>2, <1>3 DEF Apart, Taken, Params
  <2>5. \A j \in N : 6 < j => Apart(T[6], T[j])
    BY <1>2, <1>3 DEF Apart, Taken, Params
  <2>6. QED BY <1>1, <1>2, <1>4, <2>1, <2>2, <2>3, <2>4, <2>5 DEF Clear
<1>8. Fair(T)
  BY <1>1, <1>4, LocationSound, NotebookSound DEF Fair, Sound
<1>9. Covered(T)
  <2>1. ASSUME NEW j \in {2, 3, 4, 5, 6, 7} PROVE Above(T[1], T[j], "jwt")
    <3>1. T[1].verb = "use" /\ T[1].guard = "jwt"
      BY DEF NotebookRoutes, Use, Entry
    <3>2. /\ T[j].path[1] = T[1].path[1] /\ T[j].path[2] = T[1].path[2]
          /\ T[1].path[1] \notin Params /\ T[1].path[2] \notin Params
      BY <1>3 DEF Params
    <3>3. Len(T[1].path) = 2 /\ 1..2 = {1, 2}
      BY <1>3
    <3>4. WellFormed(T[j].path, 2)
      BY <1>5
    <3>5. Len(T[1].path) \in 1..Len(T[j].path)
      BY <3>3, <3>4 DEF WellFormed
    <3>6. \A k \in 1..Len(T[1].path) : T[1].path[k] = T[j].path[k] /\ T[1].path[k] \notin Params
      BY ONLY <3>2, <3>3
    <3>7. QED BY ONLY <3>1, <3>5, <3>6 DEF Above
  <2>2. \A j \in {2, 3, 4, 5, 6, 7} : Under(T, j, "jwt")
    BY <2>1 DEF Under
  <2>4. \A j \in N : T[j].verb # "use" => T[j].handler.svc # "admin"
    BY <1>2, <1>4, LocationSound, NotebookSound DEF Sound
  <2>6. QED BY <1>1, <1>2, <2>2, <2>4 DEF Covered
<1>10. QED BY <1>1, <1>6, <1>7, <1>8, <1>9

\* Routes behind the guard of users.
LEMMA NoteRoutesKept ==
  ASSUME NEW T, T = NoteRoutes
  PROVE  /\ T \in Seq({T[i] : i \in DOMAIN T}) /\ Shaped(T) /\ Clear(T) /\ Fair(T)
         /\ Starts(T, {"note"}) /\ Covered(T)
<1> DEFINE N == {1, 2, 3, 4, 5, 6, 7}
<1>1. T \in Seq({T[i] : i \in DOMAIN T}) /\ DOMAIN T = N
  <2>1. T \in Seq({T[i] : i \in DOMAIN T}) /\ DOMAIN T = 1..7
    BY DEF NoteRoutes
  <2>2. QED BY <2>1
<1>2. /\ T[1].verb = "use" /\ T[2].verb = "GET" /\ T[3].verb = "POST" /\ T[4].verb = "GET"
      /\ T[5].verb = "PUT" /\ T[6].verb = "PUT" /\ T[7].verb = "DELETE"
  BY DEF NoteRoutes, Route, Use, Entry
<1>3. /\ T[1].path = <<"note", "v1">> /\ T[2].path = <<"note", "v1", "semantic-search">>
      /\ T[3].path = <<"note", "v1">> /\ T[4].path = <<"note", "v1", ":id">>
      /\ T[5].path = <<"note", "v1", ":id">> /\ T[6].path = <<"note", "v1", ":id", "move">>
      /\ T[7].path = <<"note", "v1", ":id">>
  BY DEF NoteRoutes, Route, Use, Entry
<1>4. /\ T[1].handler = DetectCountry /\ T[2].handler = SemanticSearch
      /\ T[3].handler = NoteCreate /\ T[4].handler = NoteShow /\ T[5].handler = NoteUpdate
      /\ T[6].handler = MoveNote /\ T[7].handler = NoteDelete
  BY DEF NoteRoutes, Route, Use, Entry
<1>5. \A j \in N : WellFormed(T[j].path, 2) /\ T[j].path[1] \in {"note"}
  <2>1. /\ WellFormed(T[1].path, 2) /\ WellFormed(T[2].path, 2) /\ WellFormed(T[3].path, 2)
        /\ WellFormed(T[4].path, 2) /\ WellFormed(T[5].path, 2) /\ WellFormed(T[6].path, 2)
        /\ WellFormed(T[7].path, 2)
    BY <1>3, PathLengths
  <2>2. \A j \in N : T[j].path[1] \in {"note"}
    BY <1>3
  <2>3. QED BY <2>1, <2>2
<1>6. Shaped(T) /\ Starts(T, {"note"})
  <2>1. \A j \in N : WellFormed(T[j].path, 1)
    BY ONLY <1>5, LongerPath
  <2>2. /\ T[1].guard = "jwt" /\ T[2].guard = "none" /\ T[3].guard = "none"
        /\ T[4].guard = "none" /\ T[5].guard = "none" /\ T[6].guard = "none"
        /\ T[7].guard = "none"
    BY DEF NoteRoutes, Route, Use, Entry
  <2>3. \A j \in N : T[j].guard \in GuardNames
    BY ONLY <2>2 DEF GuardNames
  <2>4. QED BY ONLY <1>1, <1>5, <2>1, <2>3 DEF Shaped, Starts
<1>7. Clear(T)
  <2>1. \A j \in N : 2 < j => Apart(T[2], T[j])
    BY <1>2, <1>3 DEF Apart, Taken, Params
  <2>2. \A j \in N : 3 < j => Apart(T[3], T[j])
    BY <1>2, <1>3 DEF Apart, Taken, Params
  <2>3. \A j \in N : 4 < j => Apart(T[4], T[j])
    BY <1>2, <1>3 DEF Apart, Taken, Params
  <2>4. \A j \in N : 5 < j => Apart(T[5], T[j])
    BY <1>2, <1>3 DEF Apart, Taken, Params
  <2>5. \A j \in N : 6 < j => Apart(T[6], T[j])
    BY <1>2, <1>3 DEF Apart, Taken, Params
  <2>6. QED BY <1>1, <1>2, <1>4, <2>1, <2>2, <2>3, <2>4, <2>5 DEF Clear
<1>8. Fair(T)
  BY <1>1, <1>4, LocationSound, NoteSound DEF Fair, Sound
<1>9. Covered(T)
  <2>1. ASSUME NEW j \in {2, 3, 4, 5, 6, 7} PROVE Above(T[1], T[j], "jwt")
    <3>1. T[1].verb = "use" /\ T[1].guard = "jwt"
      BY DEF NoteRoutes, Use, Entry
    <3>2. /\ T[j].path[1] = T[1].path[1] /\ T[j].path[2] = T[1].path[2]
          /\ T[1].path[1] \notin Params /\ T[1].path[2] \notin Params
      BY <1>3 DEF Params
    <3>3. Len(T[1].path) = 2 /\ 1..2 = {1, 2}
      BY <1>3
    <3>4. WellFormed(T[j].path, 2)
      BY <1>5
    <3>5. Len(T[1].path) \in 1..Len(T[j].path)
      BY <3>3, <3>4 DEF WellFormed
    <3>6. \A k \in 1..Len(T[1].path) : T[1].path[k] = T[j].path[k] /\ T[1].path[k] \notin Params
      BY ONLY <3>2, <3>3
    <3>7. QED BY ONLY <3>1, <3>5, <3>6 DEF Above
  <2>2. \A j \in {2, 3, 4, 5, 6, 7} : Under(T, j, "jwt")
    BY <2>1 DEF Under
  <2>4. \A j \in N : T[j].verb # "use" => T[j].handler.svc # "admin"
    BY <1>2, <1>4, LocationSound, NoteSound DEF Sound
  <2>6. QED BY <1>1, <1>2, <2>2, <2>4 DEF Covered
<1>10. QED BY <1>1, <1>6, <1>7, <1>8, <1>9

\* Routes behind the guard of users.
LEMMA ChatbotRoutesKept ==
  ASSUME NEW T, T = ChatbotRoutes
  PROVE  /\ T \in Seq({T[i] : i \in DOMAIN T}) /\ Shaped(T) /\ Clear(T) /\ Fair(T)
         /\ Starts(T, {"chatbot"}) /\ Covered(T)
<1> DEFINE N == {1, 2, 3, 4, 5, 6, 7}
<1>1. T \in Seq({T[i] : i \in DOMAIN T}) /\ DOMAIN T = N
  <2>1. T \in Seq({T[i] : i \in DOMAIN T}) /\ DOMAIN T = 1..7
    BY DEF ChatbotRoutes
  <2>2. QED BY <2>1
<1>2. /\ T[1].verb = "use" /\ T[2].verb = "GET" /\ T[3].verb = "GET" /\ T[4].verb = "GET"
      /\ T[5].verb = "POST" /\ T[6].verb = "POST" /\ T[7].verb = "DELETE"
  BY DEF ChatbotRoutes, Route, Use, Entry
<1>3. /\ T[1].path = <<"chatbot", "v1">> /\ T[2].path = <<"chatbot", "v1", "sessions">>
      /\ T[3].path = <<"chatbot", "v1", "chat-history">>
      /\ T[4].path = <<"chatbot", "v1", "nuances">>
      /\ T[5].path = <<"chatbot", "v1", "create-session">>
      /\ T[6].path = <<"chatbot", "v1", "send-chat">>
      /\ T[7].path = <<"chatbot", "v1", "delete-session">>
  BY DEF ChatbotRoutes, Route, Use, Entry
<1>4. /\ T[1].handler = DetectCountry /\ T[2].handler = GetAllSessions
      /\ T[3].handler = GetChatHistory /\ T[4].handler = GetAvailableNuances
      /\ T[5].handler = CreateSession /\ T[6].handler = SendChat
      /\ T[7].handler = DeleteSession
  BY DEF ChatbotRoutes, Route, Use, Entry
<1>5. \A j \in N : WellFormed(T[j].path, 2) /\ T[j].path[1] \in {"chatbot"}
  <2>1. /\ WellFormed(T[1].path, 2) /\ WellFormed(T[2].path, 2) /\ WellFormed(T[3].path, 2)
        /\ WellFormed(T[4].path, 2) /\ WellFormed(T[5].path, 2) /\ WellFormed(T[6].path, 2)
        /\ WellFormed(T[7].path, 2)
    BY <1>3, PathLengths
  <2>2. \A j \in N : T[j].path[1] \in {"chatbot"}
    BY <1>3
  <2>3. QED BY <2>1, <2>2
<1>6. Shaped(T) /\ Starts(T, {"chatbot"})
  <2>1. \A j \in N : WellFormed(T[j].path, 1)
    BY ONLY <1>5, LongerPath
  <2>2. /\ T[1].guard = "jwt" /\ T[2].guard = "none" /\ T[3].guard = "none"
        /\ T[4].guard = "none" /\ T[5].guard = "none" /\ T[6].guard = "none"
        /\ T[7].guard = "none"
    BY DEF ChatbotRoutes, Route, Use, Entry
  <2>3. \A j \in N : T[j].guard \in GuardNames
    BY ONLY <2>2 DEF GuardNames
  <2>4. QED BY ONLY <1>1, <1>5, <2>1, <2>3 DEF Shaped, Starts
<1>7. Clear(T)
  <2>1. \A j \in N : 2 < j => Apart(T[2], T[j])
    BY <1>2, <1>3 DEF Apart, Taken, Params
  <2>2. \A j \in N : 3 < j => Apart(T[3], T[j])
    BY <1>2, <1>3 DEF Apart, Taken, Params
  <2>3. \A j \in N : 4 < j => Apart(T[4], T[j])
    BY <1>2, <1>3 DEF Apart, Taken, Params
  <2>4. \A j \in N : 5 < j => Apart(T[5], T[j])
    BY <1>2, <1>3 DEF Apart, Taken, Params
  <2>5. \A j \in N : 6 < j => Apart(T[6], T[j])
    BY <1>2, <1>3 DEF Apart, Taken, Params
  <2>6. QED BY <1>1, <1>2, <1>4, <2>1, <2>2, <2>3, <2>4, <2>5 DEF Clear
<1>8. Fair(T)
  BY <1>1, <1>4, LocationSound, ChatbotSound DEF Fair, Sound
<1>9. Covered(T)
  <2>1. ASSUME NEW j \in {2, 3, 4, 5, 6, 7} PROVE Above(T[1], T[j], "jwt")
    <3>1. T[1].verb = "use" /\ T[1].guard = "jwt"
      BY DEF ChatbotRoutes, Use, Entry
    <3>2. /\ T[j].path[1] = T[1].path[1] /\ T[j].path[2] = T[1].path[2]
          /\ T[1].path[1] \notin Params /\ T[1].path[2] \notin Params
      BY <1>3 DEF Params
    <3>3. Len(T[1].path) = 2 /\ 1..2 = {1, 2}
      BY <1>3
    <3>4. WellFormed(T[j].path, 2)
      BY <1>5
    <3>5. Len(T[1].path) \in 1..Len(T[j].path)
      BY <3>3, <3>4 DEF WellFormed
    <3>6. \A k \in 1..Len(T[1].path) : T[1].path[k] = T[j].path[k] /\ T[1].path[k] \notin Params
      BY ONLY <3>2, <3>3
    <3>7. QED BY ONLY <3>1, <3>5, <3>6 DEF Above
  <2>2. \A j \in {2, 3, 4, 5, 6, 7} : Under(T, j, "jwt")
    BY <2>1 DEF Under
  <2>4. \A j \in N : T[j].verb # "use" => T[j].handler.svc # "admin"
    BY <1>2, <1>4, LocationSound, ChatbotSound DEF Sound
  <2>6. QED BY <1>1, <1>2, <2>2, <2>4 DEF Covered
<1>10. QED BY <1>1, <1>6, <1>7, <1>8, <1>9

\* Routes of which some have a guard of their own, and the webhook none.
LEMMA PaymentRoutesKept ==
  ASSUME NEW T, T = PaymentRoutes
  PROVE  /\ T \in Seq({T[i] : i \in DOMAIN T}) /\ Shaped(T) /\ Clear(T) /\ Fair(T)
         /\ Starts(T, {"payment"}) /\ Covered(T)
<1> DEFINE N == {1, 2, 3, 4, 5, 6, 7}
<1>1. T \in Seq({T[i] : i \in DOMAIN T}) /\ DOMAIN T = N
  <2>1. T \in Seq({T[i] : i \in DOMAIN T}) /\ DOMAIN T = 1..7
    BY DEF PaymentRoutes
  <2>2. QED BY <2>1
<1>2. /\ T[1].verb = "POST" /\ T[2].verb = "GET" /\ T[3].verb = "GET" /\ T[4].verb = "POST"
      /\ T[5].verb = "GET" /\ T[6].verb = "POST" /\ T[7].verb = "GET"
  BY DEF PaymentRoutes, Route, Use, Entry
<1>3. /\ T[1].path = <<"payment", "midtrans", "notification">>
      /\ T[2].path = <<"payment", "plans">> /\ T[3].path = <<"payment", "summary">>
      /\ T[4].path = <<"payment", "checkout">> /\ T[5].path = <<"payment", "status">>
      /\ T[6].path = <<"payment", "cancel">> /\ T[7].path = <<"payment", "validate">>
  BY DEF PaymentRoutes, Route, Use, Entry
<1>4. /\ T[1].handler = Webhook /\ T[2].handler = GetPlans /\ T[3].handler = GetOrderSummary
      /\ T[4].handler = Checkout /\ T[5].handler = GetStatus
      /\ T[6].handler = CancelSubscription /\ T[7].handler = ValidateSubscription
  BY DEF PaymentRoutes, Route, Use, Entry
<1>5. \A j \in N : WellFormed(T[j].path, 2) /\ T[j].path[1] \in {"payment"}
  <2>1. /\ WellFormed(T[1].path, 2) /\ WellFormed(T[2].path, 2) /\ WellFormed(T[3].path, 2)
        /\ WellFormed(T[4].path, 2) /\ WellFormed(T[5].path, 2) /\ WellFormed(T[6].path, 2)
        /\ WellFormed(T[7].path, 2)
    BY <1>3, PathLengths
  <2>2. \A j \in N : T[j].path[1] \in {"payment"}
    BY <1>3
  <2>3. QED BY <2>1, <2>2
<1>6. Shaped(T) /\ Starts(T, {"payment"})
  <2>1. \A j \in N : WellFormed(T[j].path, 1)
    BY ONLY <1>5, LongerPath
  <2>2. /\ T[1].guard = "none" /\ T[2].guard = "none" /\ T[3].guard = "none"
        /\ T[4].guard = "payment" /\ T[5].guard = "payment" /\ T[6].guard = "payment"
        /\ T[7].guard = "payment"
    BY DEF PaymentRoutes, Route, Use, Entry
  <2>3. \A j \in N : T[j].guard \in GuardNames
    BY ONLY <2>2 DEF GuardNames
  <2>4. QED BY ONLY <1>1, <1>5, <2>1, <2>3 DEF Shaped, Starts
<1>7. Clear(T)
  <2>1. \A j \in N : 1 < j => Apart(T[1], T[j])
    BY <1>2, <1>3 DEF Apart, Taken, Params
  <2>2. \A j \in N : 2 < j => Apart(T[2], T[j])
    BY <1>2, <1>3 DEF Apart, Taken, Params
  <2>3. \A j \in N : 3 < j => Apart(T[3], T[j])
    BY <1>2, <1>3 DEF Apart, Taken, Params
  <2>4. \A j \in N : 4 < j => Apart(T[4], T[j])
    BY <1>2, <1>3 DEF Apart, Taken, Params
  <2>5. \A j \in N : 5 < j => Apart(T[5], T[j])
    BY <1>2, <1>3 DEF Apart, Taken, Params
  <2>6. \A j \in N : 6 < j => Apart(T[6], T[j])
    BY <1>2, <1>3 DEF Apart, Taken, Params
  <2>7. QED BY <1>1, <1>2, <1>4, <2>1, <2>2, <2>3, <2>4, <2>5, <2>6 DEF Clear
<1>8. Fair(T)
  BY <1>1, <1>4, PaymentSound DEF Fair, Sound
<1>9. Covered(T)
  <2>3. /\ T[4].guard = "payment" /\ T[5].guard = "payment" /\ T[6].guard = "payment"
        /\ T[7].guard = "payment"
    BY DEF PaymentRoutes, Entry, Route, Use
  <2>4. \A j \in N : T[j].verb # "use" => T[j].handler.svc # "admin"
    BY <1>2, <1>4, PaymentSound DEF Sound
  <2>5. \A j \in {1, 2, 3} : ~Owned(T[j].handler)
    BY <1>4, MineSvc, PaymentSound DEF Owned, Personal, Sound, Mine, Payment, Handler, Webhook,
                                       GetPlans, GetOrderSummary, Checkout, GetStatus,
                                       CancelSubscription, ValidateSubscription
  <2>6. QED BY <1>1, <1>2, <2>3, <2>5, <2>4 DEF Covered
<1>10. QED BY <1>1, <1>6, <1>7, <1>8, <1>9

\* Routes that anybody may take.
LEMMA LocationRoutesKept ==
  ASSUME NEW T, T = LocationRoutes
  PROVE  /\ T \in Seq({T[i] : i \in DOMAIN T}) /\ Shaped(T) /\ Clear(T) /\ Fair(T)
         /\ Starts(T, {"location"}) /\ Covered(T)
<1> DEFINE N == {1, 2, 3, 4, 5}
<1>1. T \in Seq({T[i] : i \in DOMAIN T}) /\ DOMAIN T = N
  <2>1. T \in Seq({T[i] : i \in DOMAIN T}) /\ DOMAIN T = 1..5
    BY DEF LocationRoutes
  <2>2. QED BY <2>1
<1>2. /\ T[1].verb = "GET" /\ T[2].verb = "GET" /\ T[3].verb = "GET" /\ T[4].verb = "GET"
      /\ T[5].verb = "GET"
  BY DEF LocationRoutes, Route, Use, Entry
<1>3. /\ T[1].path = <<"location", "detect-country">>
      /\ T[2].path = <<"location", "countries">> /\ T[3].path = <<"location", "cities">>
      /\ T[4].path = <<"location", "states">> /\ T[5].path = <<"location", "zipcodes">>
  BY DEF LocationRoutes, Route, Use, Entry
<1>4. /\ T[1].handler = DetectCountry /\ T[2].handler = GetCountries
      /\ T[3].handler = GetCities /\ T[4].handler = GetStates /\ T[5].handler = GetZipCodes
  BY DEF LocationRoutes, Route, Use, Entry
<1>5. \A j \in N : WellFormed(T[j].path, 2) /\ T[j].path[1] \in {"location"}
  <2>1. /\ WellFormed(T[1].path, 2) /\ WellFormed(T[2].path, 2) /\ WellFormed(T[3].path, 2)
        /\ WellFormed(T[4].path, 2) /\ WellFormed(T[5].path, 2)
    BY <1>3, PathLengths
  <2>2. \A j \in N : T[j].path[1] \in {"location"}
    BY <1>3
  <2>3. QED BY <2>1, <2>2
<1>6. Shaped(T) /\ Starts(T, {"location"})
  <2>1. \A j \in N : WellFormed(T[j].path, 1)
    BY ONLY <1>5, LongerPath
  <2>2. /\ T[1].guard = "none" /\ T[2].guard = "none" /\ T[3].guard = "none"
        /\ T[4].guard = "none" /\ T[5].guard = "none"
    BY DEF LocationRoutes, Route, Use, Entry
  <2>3. \A j \in N : T[j].guard \in GuardNames
    BY ONLY <2>2 DEF GuardNames
  <2>4. QED BY ONLY <1>1, <1>5, <2>1, <2>3 DEF Shaped, Starts
<1>7. Clear(T)
  <2>1. \A j \in N : 1 < j => Apart(T[1], T[j])
    BY <1>2, <1>3 DEF Apart, Taken, Params
  <2>2. \A j \in N : 2 < j => Apart(T[2], T[j])
    BY <1>2, <1>3 DEF Apart, Taken, Params
  <2>3. \A j \in N : 3 < j => Apart(T[3], T[j])
    BY <1>2, <1>3 DEF Apart, Taken, Params
  <2>4. \A j \in N : 4 < j => Apart(T[4], T[j])
    BY <1>2, <1>3 DEF Apart, Taken, Params
  <2>5. QED BY <1>1, <1>2, <1>4, <2>1, <2>2, <2>3, <2>4 DEF Clear
<1>8. Fair(T)
  BY <1>1, <1>4, LocationSound DEF Fair, Sound
<1>9. Covered(T)
  <2>4. \A j \in N : T[j].verb # "use" => T[j].handler.svc # "admin"
    BY <1>2, <1>4, LocationSound DEF Sound
  <2>5. \A j \in {1, 2, 3, 4, 5} : ~Owned(T[j].handler)
    BY <1>4, MineSvc, LocationSound DEF Owned, Personal, Sound
  <2>6. QED BY <1>1, <1>2, <2>5, <2>4 DEF Covered
<1>10. QED BY <1>1, <1>6, <1>7, <1>8, <1>9

\* The list of plans, which anybody may see, and the usage, behind the guard of users.
LEMMA PlanRoutesKept ==
  ASSUME NEW T, T = PlanRoutes
  PROVE  /\ T \in Seq({T[i] : i \in DOMAIN T}) /\ Shaped(T) /\ Clear(T) /\ Fair(T)
         /\ Starts(T, {"plans", "user"}) /\ Covered(T)
<1> DEFINE N == {1, 2, 3}
<1>1. T \in Seq({T[i] : i \in DOMAIN T}) /\ DOMAIN T = N
  <2>1. T \in Seq({T[i] : i \in DOMAIN T}) /\ DOMAIN T = 1..3
    BY DEF PlanRoutes
  <2>2. QED BY <2>1
<1>2. /\ T[1].verb = "GET" /\ T[2].verb = "use" /\ T[3].verb = "GET"
  BY DEF PlanRoutes, Route, Use, Entry
<1>3. /\ T[1].path = <<"plans">> /\ T[2].path = <<"user">>
      /\ T[3].path = <<"user", "usage-status">>
  BY DEF PlanRoutes, Route, Use, Entry
<1>4. /\ T[1].handler = GetAllPlans /\ T[2].handler = DetectCountry
      /\ T[3].handler = GetUsageStatus
  BY DEF PlanRoutes, Route, Use, Entry
<1>5. \A j \in N : WellFormed(T[j].path, 1) /\ T[j].path[1] \in {"plans", "user"}
  <2>1. /\ WellFormed(T[1].path, 1) /\ WellFormed(T[2].path, 1) /\ WellFormed(T[3].path, 1)
    BY <1>3, PathLengths
  <2>2. \A j \in N : T[j].path[1] \in {"plans", "user"}
    BY <1>3
  <2>3. QED BY <2>1, <2>2
<1>6. Shaped(T) /\ Starts(T, {"plans", "user"})
  <2>1. \A j \in N : WellFormed(T[j].path, 1)
    BY ONLY <1>5, LongerPath
  <2>2. /\ T[1].guard = "none" /\ T[2].guard = "jwt" /\ T[3].guard = "none"
    BY DEF PlanRoutes, Route, Use, Entry
  <2>3. \A j \in N : T[j].guard \in GuardNames
    BY ONLY <2>2 DEF GuardNames
  <2>4. QED BY ONLY <1>1, <1>5, <2>1, <2>3 DEF Shaped, Starts
<1>7. Clear(T)
  <2>1. \A j \in N : 1 < j => Apart(T[1], T[j])
    BY <1>2, <1>3 DEF Apart, Taken, Params
  <2>2. QED BY <1>1, <1>2, <1>4, <2>1 DEF Clear
<1>8. Fair(T)
  BY <1>1, <1>4, OtherSound, LocationSound DEF Fair, Sound
<1>9. Covered(T)
  <2>1. ASSUME NEW j \in {3} PROVE Above(T[2], T[j], "jwt")
    <3>1. T[2].verb = "use" /\ T[2].guard = "jwt"
      BY DEF PlanRoutes, Use, Entry
    <3>2. /\ T[j].path[1] = T[2].path[1] /\ T[2].path[1] \notin Params
      BY <1>3 DEF Params
    <3>3. Len(T[2].path) = 1 /\ 1..1 = {1}
      BY <1>3
    <3>4. WellFormed(T[j].path, 1)
      BY <1>5
    <3>5. Len(T[2].path) \in 1..Len(T[j].path)
      BY <3>3, <3>4 DEF WellFormed
    <3>6. \A k \in 1..Len(T[2].path) : T[2].path[k] = T[j].path[k] /\ T[2].path[k] \notin Params
      BY ONLY <3>2, <3>3
    <3>7. QED BY ONLY <3>1, <3>5, <3>6 DEF Above
  <2>2. \A j \in {3} : Under(T, j, "jwt")
    BY <2>1 DEF Under
  <2>4. \A j \in N : T[j].verb # "use" => T[j].handler.svc # "admin"
    BY <1>2, <1>4, OtherSound, LocationSound DEF Sound
  <2>5. \A j \in {1} : ~Owned(T[j].handler)
    BY <1>4, MineSvc, OtherSound, LocationSound DEF Owned, Personal, Sound
  <2>6. QED BY <1>1, <1>2, <2>2, <2>5, <2>4 DEF Covered
<1>10. QED BY <1>1, <1>6, <1>7, <1>8, <1>9

\* Notifications behind the guard of users, and the socket with a guard of its own.
LEMMA NotificationRoutesKept ==
  ASSUME NEW T, T = NotificationRoutes
  PROVE  /\ T \in Seq({T[i] : i \in DOMAIN T}) /\ Shaped(T) /\ Clear(T) /\ Fair(T)
         /\ Starts(T, {"notifications", "debug", "ws"}) /\ Covered(T)
<1> DEFINE N == {1, 2, 3, 4, 5, 6, 7, 8}
<1>1. T \in Seq({T[i] : i \in DOMAIN T}) /\ DOMAIN T = N
  <2>1. T \in Seq({T[i] : i \in DOMAIN T}) /\ DOMAIN T = 1..8
    BY DEF NotificationRoutes
  <2>2. QED BY <2>1
<1>2. /\ T[1].verb = "use" /\ T[2].verb = "GET" /\ T[3].verb = "GET" /\ T[4].verb = "PATCH"
      /\ T[5].verb = "PATCH" /\ T[6].verb = "POST" /\ T[7].verb = "POST" /\ T[8].verb = "GET"
  BY DEF NotificationRoutes, Route, Use, Entry
<1>3. /\ T[1].path = <<"notifications">> /\ T[2].path = <<"notifications">>
      /\ T[3].path = <<"notifications", "unread-count">>
      /\ T[4].path = <<"notifications", ":id", "read">>
      /\ T[5].path = <<"notifications", "read-all">>
      /\ T[6].path = <<"notifications", "broadcast">>
      /\ T[7].path = <<"debug", "trigger-notification">> /\ T[8].path = <<"ws">>
  BY DEF NotificationRoutes, Route, Use, Entry
<1>4. /\ T[1].handler = DetectCountry /\ T[2].handler = GetNotifications
      /\ T[3].handler = GetUnreadCount /\ T[4].handler = MarkAsRead
      /\ T[5].handler = MarkAllAsRead /\ T[6].handler = Broadcast
      /\ T[7].handler = DebugTriggerEvent /\ T[8].handler = ServeWs
  BY DEF NotificationRoutes, Route, Use, Entry
<1>5. \A j \in N : WellFormed(T[j].path, 1) /\ T[j].path[1] \in {"notifications", "debug", "ws"}
  <2>1. /\ WellFormed(T[1].path, 1) /\ WellFormed(T[2].path, 1) /\ WellFormed(T[3].path, 1)
        /\ WellFormed(T[4].path, 1) /\ WellFormed(T[5].path, 1) /\ WellFormed(T[6].path, 1)
        /\ WellFormed(T[7].path, 1) /\ WellFormed(T[8].path, 1)
    BY <1>3, PathLengths
  <2>2. \A j \in N : T[j].path[1] \in {"notifications", "debug", "ws"}
    BY <1>3
  <2>3. QED BY <2>1, <2>2
<1>6. Shaped(T) /\ Starts(T, {"notifications", "debug", "ws"})
  <2>1. \A j \in N : WellFormed(T[j].path, 1)
    BY ONLY <1>5, LongerPath
  <2>2. /\ T[1].guard = "jwt" /\ T[2].guard = "none" /\ T[3].guard = "none"
        /\ T[4].guard = "none" /\ T[5].guard = "none" /\ T[6].guard = "none"
        /\ T[7].guard = "none" /\ T[8].guard = "ws"
    BY DEF NotificationRoutes, Route, Use, Entry
  <2>3. \A j \in N : T[j].guard \in GuardNames
    BY ONLY <2>2 DEF GuardNames
  <2>4. QED BY ONLY <1>1, <1>5, <2>1, <2>3 DEF Shaped, Starts
<1>7. Clear(T)
  <2>1. \A j \in N : 2 < j => Apart(T[2], T[j])
    BY <1>2, <1>3 DEF Apart, Taken, Params
  <2>2. \A j \in N : 3 < j => Apart(T[3], T[j])
    BY <1>2, <1>3 DEF Apart, Taken, Params
  <2>3. \A j \in N : 4 < j => Apart(T[4], T[j])
    BY <1>2, <1>3 DEF Apart, Taken, Params
  <2>4. \A j \in N : 5 < j => Apart(T[5], T[j])
    BY <1>2, <1>3 DEF Apart, Taken, Params
  <2>5. \A j \in N : 6 < j => Apart(T[6], T[j])
    BY <1>2, <1>3 DEF Apart, Taken, Params
  <2>6. \A j \in N : 7 < j => Apart(T[7], T[j])
    BY <1>2, <1>3 DEF Apart, Taken, Params
  <2>7. QED BY <1>1, <1>2, <1>4, <2>1, <2>2, <2>3, <2>4, <2>5, <2>6 DEF Clear
<1>8. Fair(T)
  BY <1>1, <1>4, LocationSound, NotifSound, OtherSound DEF Fair, Sound, Quiet
<1>9. Covered(T)
  <2>1. ASSUME NEW j \in {2, 3, 4, 5, 6} PROVE Above(T[1], T[j], "jwt")
    <3>1. T[1].verb = "use" /\ T[1].guard = "jwt"
      BY DEF NotificationRoutes, Use, Entry
    <3>2. /\ T[j].path[1] = T[1].path[1] /\ T[1].path[1] \notin Params
      BY <1>3 DEF Params
    <3>3. Len(T[1].path) = 1 /\ 1..1 = {1}
      BY <1>3
    <3>4. WellFormed(T[j].path, 1)
      BY <1>5
    <3>5. Len(T[1].path) \in 1..Len(T[j].path)
      BY <3>3, <3>4 DEF WellFormed
    <3>6. \A k \in 1..Len(T[1].path) : T[1].path[k] = T[j].path[k] /\ T[1].path[k] \notin Params
      BY ONLY <3>2, <3>3
    <3>7. QED BY ONLY <3>1, <3>5, <3>6 DEF Above
  <2>2. \A j \in {2, 3, 4, 5, 6} : Under(T, j, "jwt")
    BY <2>1 DEF Under
  <2>3. T[8].guard = "ws"
    BY DEF NotificationRoutes, Entry, Route, Use
  <2>4. \A j \in N : T[j].verb # "use" => T[j].handler.svc # "admin"
    BY <1>2, <1>4, LocationSound, NotifSound, OtherSound DEF Sound, Notif, Handler, Broadcast
  <2>5. \A j \in {7} : ~Owned(T[j].handler)
    BY <1>4, MineSvc, LocationSound, NotifSound, OtherSound DEF Owned, Personal, Sound
  <2>6. QED BY <1>1, <1>2, <2>2, <2>3, <2>5, <2>4 DEF Covered
<1>10. QED BY <1>1, <1>6, <1>7, <1>8, <1>9

\* Routes of admins: users and what they paid.
LEMMA AdminUsersKept ==
  ASSUME NEW T, T = AdminUsers
  PROVE  /\ T \in Seq({T[i] : i \in DOMAIN T}) /\ Shaped(T) /\ Clear(T) /\ Fair(T)
         /\ Starts(T, {"admin"}) /\ Administered(T)
         /\ Seconds(T, {"dashboard", "growth", "users", "transactions", "logs", "subscriptions"})
<1> DEFINE N == {1, 2, 3, 4, 5, 6, 7, 8, 9, 10, 11, 12, 13, 14, 15}
<1>1. T \in Seq({T[i] : i \in DOMAIN T}) /\ DOMAIN T = N
  <2>1. T \in Seq({T[i] : i \in DOMAIN T}) /\ DOMAIN T = 1..15
    BY DEF AdminUsers
  <2>2. QED BY <2>1
<1>2. /\ T[1].verb = "GET" /\ T[2].verb = "GET" /\ T[3].verb = "GET" /\ T[4].verb = "POST"
      /\ T[5].verb = "POST" /\ T[6].verb = "GET" /\ T[7].verb = "PUT" /\ T[8].verb = "PUT"
      /\ T[9].verb = "DELETE" /\ T[10].verb = "POST" /\ T[11].verb = "GET"
      /\ T[12].verb = "GET" /\ T[13].verb = "GET" /\ T[14].verb = "POST" /\ T[15].verb = "POST"
  BY DEF AdminUsers, Route, Use, Entry
<1>3. /\ T[1].path = <<"admin", "dashboard">> /\ T[2].path = <<"admin", "growth">>
      /\ T[3].path = <<"admin", "users">> /\ T[4].path = <<"admin", "users">>
      /\ T[5].path = <<"admin", "users", "bulk">> /\ T[6].path = <<"admin", "users", ":id">>
      /\ T[7].path = <<"admin", "users", ":id", "status">>
      /\ T[8].path = <<"admin", "users", ":id">> /\ T[9].path = <<"admin", "users", ":id">>
      /\ T[10].path = <<"admin", "users", "purge">> /\ T[11].path = <<"admin", "transactions">>
      /\ T[12].path = <<"admin", "logs">> /\ T[13].path = <<"admin", "logs", ":id">>
      /\ T[14].path = <<"admin", "subscriptions", "upgrade">>
      /\ T[15].path = <<"admin", "subscriptions", "refund">>
  BY DEF AdminUsers, Route, Use, Entry
<1>4. /\ T[1].handler = GetDashboardStats /\ T[2].handler = GetUserGrowth
      /\ T[3].handler = GetAllUsers /\ T[4].handler = CreateUser
      /\ T[5].handler = BulkCreateUsers /\ T[6].handler = GetUserDetail
      /\ T[7].handler = UpdateUserStatus /\ T[8].handler = UpdateUser
      /\ T[9].handler = DeleteUser /\ T[10].handler = PurgeUsers
      /\ T[11].handler = GetTransactions /\ T[12].handler = GetLogs
      /\ T[13].handler = GetLogDetail /\ T[14].handler = UpgradeSubscription
      /\ T[15].handler = RefundSubscription
  BY DEF AdminUsers, Route, Use, Entry
<1>5. \A j \in N : WellFormed(T[j].path, 2) /\ T[j].path[1] \in {"admin"}
  <2>1. /\ WellFormed(T[1].path, 2) /\ WellFormed(T[2].path, 2) /\ WellFormed(T[3].path, 2)
        /\ WellFormed(T[4].path, 2) /\ WellFormed(T[5].path, 2) /\ WellFormed(T[6].path, 2)
        /\ WellFormed(T[7].path, 2) /\ WellFormed(T[8].path, 2) /\ WellFormed(T[9].path, 2)
        /\ WellFormed(T[10].path, 2) /\ WellFormed(T[11].path, 2) /\ WellFormed(T[12].path, 2)
        /\ WellFormed(T[13].path, 2) /\ WellFormed(T[14].path, 2) /\ WellFormed(T[15].path, 2)
    BY <1>3, PathLengths
  <2>2. \A j \in N : T[j].path[1] \in {"admin"}
    BY <1>3
  <2>3. QED BY <2>1, <2>2
<1>6. Shaped(T) /\ Starts(T, {"admin"})
  <2>1. \A j \in N : WellFormed(T[j].path, 1)
    BY ONLY <1>5, LongerPath
  <2>2. /\ T[1].guard = "none" /\ T[2].guard = "none" /\ T[3].guard = "none"
        /\ T[4].guard = "none" /\ T[5].guard = "none" /\ T[6].guard = "none"
        /\ T[7].guard = "none" /\ T[8].guard = "none" /\ T[9].guard = "none"
        /\ T[10].guard = "none" /\ T[11].guard = "none" /\ T[12].guard = "none"
        /\ T[13].guard = "none" /\ T[14].guard = "none" /\ T[15].guard = "none"
    BY DEF AdminUsers, Route, Use, Entry
  <2>3. \A j \in N : T[j].guard \in GuardNames
    BY ONLY <2>2 DEF GuardNames
  <2>4. QED BY ONLY <1>1, <1>5, <2>1, <2>3 DEF Shaped, Starts
<1>7. Clear(T)
  <2>1. \A j \in N : 1 < j => Apart(T[1], T[j])
    BY <1>2, <1>3 DEF Apart, Taken, Params
  <2>2. \A j \in N : 2 < j => Apart(T[2], T[j])
    BY <1>2, <1>3 DEF Apart, Taken, Params
  <2>3. \A j \in N : 3 < j => Apart(T[3], T[j])
    BY <1>2, <1>3 DEF Apart, Taken, Params
  <2>4. \A j \in N : 4 < j => Apart(T[4], T[j])
    BY <1>2, <1>3 DEF Apart, Taken, Params
  <2>5. \A j \in N : 5 < j => Apart(T[5], T[j])
    BY <1>2, <1>3 DEF Apart, Taken, Params
  <2>6. \A j \in N : 6 < j => Apart(T[6], T[j])
    BY <1>2, <1>3 DEF Apart, Taken, Params
  <2>7. \A j \in N : 7 < j => Apart(T[7], T[j])
    BY <1>2, <1>3 DEF Apart, Taken, Params
  <2>8. \A j \in N : 8 < j => Apart(T[8], T[j])
    BY <1>2, <1>3 DEF Apart, Taken, Params
  <2>9. \A j \in N : 9 < j => Apart(T[9], T[j])
    BY <1>2, <1>3 DEF Apart, Taken, Params
  <2>10. \A j \in N : 10 < j => Apart(T[10], T[j])
    BY <1>2, <1>3 DEF Apart, Taken, Params
  <2>11. \A j \in N : 11 < j => Apart(T[11], T[j])
    BY <1>2, <1>3 DEF Apart, Taken, Params
  <2>12. \A j \in N : 12 < j => Apart(T[12], T[j])
    BY <1>2, <1>3 DEF Apart, Taken, Params
  <2>13. \A j \in N : 13 < j => Apart(T[13], T[j])
    BY <1>2, <1>3 DEF Apart, Taken, Params
  <2>14. \A j \in N : 14 < j => Apart(T[14], T[j])
    BY <1>2, <1>3 DEF Apart, Taken, Params
  <2>15. QED BY <1>1, <1>2, <1>4, <2>1, <2>2, <2>3, <2>4, <2>5, <2>6, <2>7, <2>8, <2>9, <2>10,
                <2>11, <2>12, <2>13, <2>14 DEF Clear
<1>8. Fair(T)
  BY <1>1, <1>4, AdminSound1, AdminSound2 DEF Fair, Sound
<1>9. Administered(T)
  <2>1. \A j \in N : T[j].verb # "use"
    BY <1>2
  <2>2. \A j \in N : T[j].handler.svc = "admin"
    BY <1>4, AdminSound1, AdminSound2 DEF Sound
  <2>3. QED BY ONLY <1>1, <1>5, <1>6, <2>1, <2>2 DEF Administered, Shaped
<1>10. Seconds(T, {"dashboard", "growth", "users", "transactions", "logs", "subscriptions"})
  <2>1. \A j \in N : T[j].path[2] \in {"dashboard", "growth", "users", "transactions", "logs",
                                       "subscriptions"}
    BY <1>3
  <2>2. QED BY ONLY <1>1, <1>5, <2>1 DEF Seconds
<1>11. QED BY <1>1, <1>6, <1>7, <1>8, <1>9, <1>10

\* Routes of admins: plans, features and refunds.
LEMMA AdminPlansKept ==
  ASSUME NEW T, T = AdminPlans
  PROVE  /\ T \in Seq({T[i] : i \in DOMAIN T}) /\ Shaped(T) /\ Clear(T) /\ Fair(T)
         /\ Starts(T, {"admin"}) /\ Administered(T)
         /\ Seconds(T, {"plans", "features", "refunds"})
<1> DEFINE N == {1, 2, 3, 4, 5, 6, 7, 8, 9, 10, 11, 12, 13, 14}
<1>1. T \in Seq({T[i] : i \in DOMAIN T}) /\ DOMAIN T = N
  <2>1. T \in Seq({T[i] : i \in DOMAIN T}) /\ DOMAIN T = 1..14
    BY DEF AdminPlans
  <2>2. QED BY <2>1
<1>2. /\ T[1].verb = "POST" /\ T[2].verb = "GET" /\ T[3].verb = "PUT" /\ T[4].verb = "DELETE"
      /\ T[5].verb = "GET" /\ T[6].verb = "POST" /\ T[7].verb = "DELETE" /\ T[8].verb = "GET"
      /\ T[9].verb = "POST" /\ T[10].verb = "PUT" /\ T[11].verb = "DELETE"
      /\ T[12].verb = "GET" /\ T[13].verb = "POST" /\ T[14].verb = "POST"
  BY DEF AdminPlans, Route, Use, Entry
<1>3. /\ T[1].path = <<"admin", "plans">> /\ T[2].path = <<"admin", "plans">>
      /\ T[3].path = <<"admin", "plans", ":id">> /\ T[4].path = <<"admin", "plans", ":id">>
      /\ T[5].path = <<"admin", "plans", ":id", "features">>
      /\ T[6].path = <<"admin", "plans", ":id", "features">>
      /\ T[7].path = <<"admin", "plans", ":id", "features", ":featureId">>
      /\ T[8].path = <<"admin", "features">> /\ T[9].path = <<"admin", "features">>
      /\ T[10].path = <<"admin", "features", ":id">>
      /\ T[11].path = <<"admin", "features", ":id">> /\ T[12].path = <<"admin", "refunds">>
      /\ T[13].path = <<"admin", "refunds", ":id", "approve">>
      /\ T[14].path = <<"admin", "refunds", ":id", "reject">>
  BY DEF AdminPlans, Route, Use, Entry
<1>4. /\ T[1].handler = CreatePlan /\ T[2].handler = AdminGetAllPlans
      /\ T[3].handler = UpdatePlan /\ T[4].handler = DeletePlan
      /\ T[5].handler = GetPlanFeatures /\ T[6].handler = CreatePlanFeature
      /\ T[7].handler = DeletePlanFeature /\ T[8].handler = GetAllFeatures
      /\ T[9].handler = CreateFeature /\ T[10].handler = UpdateFeature
      /\ T[11].handler = DeleteFeature /\ T[12].handler = AdminGetRefunds
      /\ T[13].handler = ApproveRefund /\ T[14].handler = RejectRefund
  BY DEF AdminPlans, Route, Use, Entry
<1>5. \A j \in N : WellFormed(T[j].path, 2) /\ T[j].path[1] \in {"admin"}
  <2>1. /\ WellFormed(T[1].path, 2) /\ WellFormed(T[2].path, 2) /\ WellFormed(T[3].path, 2)
        /\ WellFormed(T[4].path, 2) /\ WellFormed(T[5].path, 2) /\ WellFormed(T[6].path, 2)
        /\ WellFormed(T[7].path, 2) /\ WellFormed(T[8].path, 2) /\ WellFormed(T[9].path, 2)
        /\ WellFormed(T[10].path, 2) /\ WellFormed(T[11].path, 2) /\ WellFormed(T[12].path, 2)
        /\ WellFormed(T[13].path, 2) /\ WellFormed(T[14].path, 2)
    BY <1>3, PathLengths
  <2>2. \A j \in N : T[j].path[1] \in {"admin"}
    BY <1>3
  <2>3. QED BY <2>1, <2>2
<1>6. Shaped(T) /\ Starts(T, {"admin"})
  <2>1. \A j \in N : WellFormed(T[j].path, 1)
    BY ONLY <1>5, LongerPath
  <2>2. /\ T[1].guard = "none" /\ T[2].guard = "none" /\ T[3].guard = "none"
        /\ T[4].guard = "none" /\ T[5].guard = "none" /\ T[6].guard = "none"
        /\ T[7].guard = "none" /\ T[8].guard = "none" /\ T[9].guard = "none"
        /\ T[10].guard = "none" /\ T[11].guard = "none" /\ T[12].guard = "none"
        /\ T[13].guard = "none" /\ T[14].guard = "none"
    BY DEF AdminPlans, Route, Use, Entry
  <2>3. \A j \in N : T[j].guard \in GuardNames
    BY ONLY <2>2 DEF GuardNames
  <2>4. QED BY ONLY <1>1, <1>5, <2>1, <2>3 DEF Shaped, Starts
<1>7. Clear(T)
  <2>1. \A j \in N : 1 < j => Apart(T[1], T[j])
    BY <1>2, <1>3 DEF Apart, Taken, Params
  <2>2. \A j \in N : 2 < j => Apart(T[2], T[j])
    BY <1>2, <1>3 DEF Apart, Taken, Params
  <2>3. \A j \in N : 3 < j => Apart(T[3], T[j])
    BY <1>2, <1>3 DEF Apart, Taken, Params
  <2>4. \A j \in N : 4 < j => Apart(T[4], T[j])
    BY <1>2, <1>3 DEF Apart, Taken, Params
  <2>5. \A j \in N : 5 < j => Apart(T[5], T[j])
    BY <1>2, <1>3 DEF Apart, Taken, Params
  <2>6. \A j \in N : 6 < j => Apart(T[6], T[j])
    BY <1>2, <1>3 DEF Apart, Taken, Params
  <2>7. \A j \in N : 7 < j => Apart(T[7], T[j])
    BY <1>2, <1>3 DEF Apart, Taken, Params
  <2>8. \A j \in N : 8 < j => Apart(T[8], T[j])
    BY <1>2, <1>3 DEF Apart, Taken, Params
  <2>9. \A j \in N : 9 < j => Apart(T[9], T[j])
    BY <1>2, <1>3 DEF Apart, Taken, Params
  <2>10. \A j \in N : 10 < j => Apart(T[10], T[j])
    BY <1>2, <1>3 DEF Apart, Taken, Params
  <2>11. \A j \in N : 11 < j => Apart(T[11], T[j])
    BY <1>2, <1>3 DEF Apart, Taken, Params
  <2>12. \A j \in N : 12 < j => Apart(T[12], T[j])
    BY <1>2, <1>3 DEF Apart, Taken, Params
  <2>13. \A j \in N : 13 < j => Apart(T[13], T[j])
    BY <1>2, <1>3 DEF Apart, Taken, Params
  <2>14. QED BY <1>1, <1>2, <1>4, <2>1, <2>2, <2>3, <2>4, <2>5, <2>6, <2>7, <2>8, <2>9, <2>10,
                <2>11, <2>12, <2>13 DEF Clear
<1>8. Fair(T)
  BY <1>1, <1>4, AdminSound2, AdminSound3 DEF Fair, Sound
<1>9. Administered(T)
  <2>1. \A j \in N : T[j].verb # "use"
    BY <1>2
  <2>2. \A j \in N : T[j].handler.svc = "admin"
    BY <1>4, AdminSound2, AdminSound3 DEF Sound
  <2>3. QED BY ONLY <1>1, <1>5, <1>6, <2>1, <2>2 DEF Administered, Shaped
<1>10. Seconds(T, {"plans", "features", "refunds"})
  <2>1. \A j \in N : T[j].path[2] \in {"plans", "features", "refunds"}
    BY <1>3
  <2>2. QED BY ONLY <1>1, <1>5, <2>1 DEF Seconds
<1>11. QED BY <1>1, <1>6, <1>7, <1>8, <1>9, <1>10

\* Routes of admins: limits, where one route stands before another it takes the requests of.
LEMMA AdminLimitsKept ==
  ASSUME NEW T, T = AdminLimits
  PROVE  /\ T \in Seq({T[i] : i \in DOMAIN T}) /\ Shaped(T) /\ Clear(T) /\ Fair(T)
         /\ Starts(T, {"admin"}) /\ Administered(T) /\ Seconds(T, {"token-usage"})
<1> DEFINE N == {1, 2, 3, 4, 5}
<1>1. T \in Seq({T[i] : i \in DOMAIN T}) /\ DOMAIN T = N
  <2>1. T \in Seq({T[i] : i \in DOMAIN T}) /\ DOMAIN T = 1..5
    BY DEF AdminLimits
  <2>2. QED BY <2>1
<1>2. /\ T[1].verb = "GET" /\ T[2].verb = "PUT" /\ T[3].verb = "DELETE" /\ T[4].verb = "POST"
      /\ T[5].verb = "DELETE"
  BY DEF AdminLimits, Route, Use, Entry
<1>3. /\ T[1].path = <<"admin", "token-usage">>
      /\ T[2].path = <<"admin", "token-usage", ":userId">>
      /\ T[3].path = <<"admin", "token-usage", ":userId">>
      /\ T[4].path = <<"admin", "token-usage", "bulk">>
      /\ T[5].path = <<"admin", "token-usage", "bulk">>
  BY DEF AdminLimits, Route, Use, Entry
<1>4. /\ T[1].handler = GetTokenUsage /\ T[2].handler = UpdateAiLimit
      /\ T[3].handler = ResetAiLimit /\ T[4].handler = BulkUpdateAiLimit
      /\ T[5].handler = BulkResetAiLimit
  BY DEF AdminLimits, Route, Use, Entry
<1>5. \A j \in N : WellFormed(T[j].path, 2) /\ T[j].path[1] \in {"admin"}
  <2>1. /\ WellFormed(T[1].path, 2) /\ WellFormed(T[2].path, 2) /\ WellFormed(T[3].path, 2)
        /\ WellFormed(T[4].path, 2) /\ WellFormed(T[5].path, 2)
    BY <1>3, PathLengths
  <2>2. \A j \in N : T[j].path[1] \in {"admin"}
    BY <1>3
  <2>3. QED BY <2>1, <2>2
<1>6. Shaped(T) /\ Starts(T, {"admin"})
  <2>1. \A j \in N : WellFormed(T[j].path, 1)
    BY ONLY <1>5, LongerPath
  <2>2. /\ T[1].guard = "none" /\ T[2].guard = "none" /\ T[3].guard = "none"
        /\ T[4].guard = "none" /\ T[5].guard = "none"
    BY DEF AdminLimits, Route, Use, Entry
  <2>3. \A j \in N : T[j].guard \in GuardNames
    BY ONLY <2>2 DEF GuardNames
  <2>4. QED BY ONLY <1>1, <1>5, <2>1, <2>3 DEF Shaped, Starts
<1>7. Clear(T)
  <2>1. \A j \in N : 1 < j => Apart(T[1], T[j])
    BY <1>2, <1>3 DEF Apart, Taken, Params
  <2>2. \A j \in N : 2 < j => Apart(T[2], T[j])
    BY <1>2, <1>3 DEF Apart, Taken, Params
  <2>3. \A j \in N : 3 < j => Apart(T[3], T[j]) \/ j = 5
    BY <1>2, <1>3 DEF Apart, Taken, Params
  <2>4. \A j \in N : 4 < j => Apart(T[4], T[j])
    BY <1>2, <1>3 DEF Apart, Taken, Params
  <2>5. QED BY <1>1, <1>2, <1>4, <2>1, <2>2, <2>3, <2>4 DEF Clear
<1>8. Fair(T)
  BY <1>1, <1>4, AdminSound2, AdminSound3 DEF Fair, Sound
<1>9. Administered(T)
  <2>1. \A j \in N : T[j].verb # "use"
    BY <1>2
  <2>2. \A j \in N : T[j].handler.svc = "admin"
    BY <1>4, AdminSound2, AdminSound3 DEF Sound
  <2>3. QED BY ONLY <1>1, <1>5, <1>6, <2>1, <2>2 DEF Administered, Shaped
<1>10. Seconds(T, {"token-usage"})
  <2>1. \A j \in N : T[j].path[2] \in {"token-usage"}
    BY <1>3
  <2>2. QED BY ONLY <1>1, <1>5, <2>1 DEF Seconds
<1>11. QED BY <1>1, <1>6, <1>7, <1>8, <1>9, <1>10

\* Routes of admins: configurations, nuances, addresses and cancellations.
LEMMA AdminRestKept ==
  ASSUME NEW T, T = AdminRest
  PROVE  /\ T \in Seq({T[i] : i \in DOMAIN T}) /\ Shaped(T) /\ Clear(T) /\ Fair(T)
         /\ Starts(T, {"admin"}) /\ Administered(T)
         /\ Seconds(T, {"ai", "users", "billing", "cancellations"})
<1> DEFINE N == {1, 2, 3, 4, 5, 6, 7, 8, 9, 10, 11, 12}
<1>1. T \in Seq({T[i] : i \in DOMAIN T}) /\ DOMAIN T = N
  <2>1. T \in Seq({T[i] : i \in DOMAIN T}) /\ DOMAIN T = 1..12
    BY DEF AdminRest
  <2>2. QED BY <2>1
<1>2. /\ T[1].verb = "GET" /\ T[2].verb = "PUT" /\ T[3].verb = "GET" /\ T[4].verb = "POST"
      /\ T[5].verb = "PUT" /\ T[6].verb = "DELETE" /\ T[7].verb = "GET" /\ T[8].verb = "POST"
      /\ T[9].verb = "PUT" /\ T[10].verb = "DELETE" /\ T[11].verb = "GET"
      /\ T[12].verb = "POST"
  BY DEF AdminRest, Route, Use, Entry
<1>3. /\ T[1].path = <<"admin", "ai", "configurations">>
      /\ T[2].path = <<"admin", "ai", "configurations", ":key">>
      /\ T[3].path = <<"admin", "ai", "nuances">> /\ T[4].path = <<"admin", "ai", "nuances">>
      /\ T[5].path = <<"admin", "ai", "nuances", ":id">>
      /\ T[6].path = <<"admin", "ai", "nuances", ":id">>
      /\ T[7].path = <<"admin", "users", ":id", "billing">>
      /\ T[8].path = <<"admin", "users", ":id", "billing">>
      /\ T[9].path = <<"admin", "billing", ":id">>
      /\ T[10].path = <<"admin", "billing", ":id">>
      /\ T[11].path = <<"admin", "cancellations">>
      /\ T[12].path = <<"admin", "cancellations", ":id", "process">>
  BY DEF AdminRest, Route, Use, Entry
<1>4. /\ T[1].handler = GetAllAiConfigurations /\ T[2].handler = UpdateAiConfiguration
      /\ T[3].handler = GetAllNuances /\ T[4].handler = CreateNuance
      /\ T[5].handler = UpdateNuance /\ T[6].handler = DeleteNuance
      /\ T[7].handler = GetUserBillingAddresses /\ T[8].handler = CreateBillingAddress
      /\ T[9].handler = UpdateBillingAddress /\ T[10].handler = DeleteBillingAddress
      /\ T[11].handler = AdminGetCancellations /\ T[12].handler = ProcessCancellation
  BY DEF AdminRest, Route, Use, Entry
<1>5. \A j \in N : WellFormed(T[j].path, 2) /\ T[j].path[1] \in {"admin"}
  <2>1. /\ WellFormed(T[1].path, 2) /\ WellFormed(T[2].path, 2) /\ WellFormed(T[3].path, 2)
        /\ WellFormed(T[4].path, 2) /\ WellFormed(T[5].path, 2) /\ WellFormed(T[6].path, 2)
        /\ WellFormed(T[7].path, 2) /\ WellFormed(T[8].path, 2) /\ WellFormed(T[9].path, 2)
        /\ WellFormed(T[10].path, 2) /\ WellFormed(T[11].path, 2) /\ WellFormed(T[12].path, 2)
    BY <1>3, PathLengths
  <2>2. \A j \in N : T[j].path[1] \in {"admin"}
    BY <1>3
  <2>3. QED BY <2>1, <2>2
<1>6. Shaped(T) /\ Starts(T, {"admin"})
  <2>1. \A j \in N : WellFormed(T[j].path, 1)
    BY ONLY <1>5, LongerPath
  <2>2. /\ T[1].guard = "none" /\ T[2].guard = "none" /\ T[3].guard = "none"
        /\ T[4].guard = "none" /\ T[5].guard = "none" /\ T[6].guard = "none"
        /\ T[7].guard = "none" /\ T[8].guard = "none" /\ T[9].guard = "none"
        /\ T[10].guard = "none" /\ T[11].guard = "none" /\ T[12].guard = "none"
    BY DEF AdminRest, Route, Use, Entry
  <2>3. \A j \in N : T[j].guard \in GuardNames
    BY ONLY <2>2 DEF GuardNames
  <2>4. QED BY ONLY <1>1, <1>5, <2>1, <2>3 DEF Shaped, Starts
<1>7. Clear(T)
  <2>1. \A j \in N : 1 < j => Apart(T[1], T[j])
    BY <1>2, <1>3 DEF Apart, Taken, Params
  <2>2. \A j \in N : 2 < j => Apart(T[2], T[j])
    BY <1>2, <1>3 DEF Apart, Taken, Params
  <2>3. \A j \in N : 3 < j => Apart(T[3], T[j])
    BY <1>2, <1>3 DEF Apart, Taken, Params
  <2>4. \A j \in N : 4 < j => Apart(T[4], T[j])
    BY <1>2, <1>3 DEF Apart, Taken, Params
  <2>5. \A j \in N : 5 < j => Apart(T[5], T[j])
    BY <1>2, <1>3 DEF Apart, Taken, Params
  <2>6. \A j \in N : 6 < j => Apart(T[6], T[j])
    BY <1>2, <1>3 DEF Apart, Taken, Params
  <2>7. \A j \in N : 7 < j => Apart(T[7], T[j])
    BY <1>2, <1>3 DEF Apart, Taken, Params
  <2>8. \A j \in N : 8 < j => Apart(T[8], T[j])
    BY <1>2, <1>3 DEF Apart, Taken, Params
  <2>9. \A j \in N : 9 < j => Apart(T[9], T[j])
    BY <1>2, <1>3 DEF Apart, Taken, Params
  <2>10. \A j \in N : 10 < j => Apart(T[10], T[j])
    BY <1>2, <1>3 DEF Apart, Taken, Params
  <2>11. \A j \in N : 11 < j => Apart(T[11], T[j])
    BY <1>2, <1>3 DEF Apart, Taken, Params
  <2>12. QED BY <1>1, <1>2, <1>4, <2>1, <2>2, <2>3, <2>4, <2>5, <2>6, <2>7, <2>8, <2>9, <2>10,
                <2>11 DEF Clear
<1>8. Fair(T)
  BY <1>1, <1>4, AdminSound3, AdminSound4 DEF Fair, Sound
<1>9. Administered(T)
  <2>1. \A j \in N : T[j].verb # "use"
    BY <1>2
  <2>2. \A j \in N : T[j].handler.svc = "admin"
    BY <1>4, AdminSound3, AdminSound4 DEF Sound
  <2>3. QED BY ONLY <1>1, <1>5, <1>6, <2>1, <2>2 DEF Administered, Shaped
<1>10. Seconds(T, {"ai", "users", "billing", "cancellations"})
  <2>1. \A j \in N : T[j].path[2] \in {"ai", "users", "billing", "cancellations"}
    BY <1>3
  <2>2. QED BY ONLY <1>1, <1>5, <2>1 DEF Seconds
<1>11. QED BY <1>1, <1>6, <1>7, <1>8, <1>9, <1>10

-----------------------------------------------------------------------------
(* The tables joined, in the order in which they are registered. *)

\* A sequence over a set is one over a larger set.
LEMMA SeqMore == ASSUME NEW V, NEW W, V \subseteq W, NEW T \in Seq(V) PROVE T \in Seq(W)
  OBVIOUS

\* A table is one of entries.
LEMMA InTable ==
  ASSUME NEW T \in Tables, T \in Seq({T[i] : i \in DOMAIN T})
  PROVE  T \in Seq(Entries)
<1>1. {T[i] : i \in DOMAIN T} \subseteq Entries
  BY DEF Entries
<1>2. QED BY <1>1, SeqMore

\* The login of admins stands before their guard, and everything else of theirs after it.
LEMMA GateKept ==
  /\ Gate \in Seq({Gate[i] : i \in DOMAIN Gate}) /\ Len(Gate) = 2 /\ DOMAIN Gate = 1..2
  /\ Gate[1].verb = "POST" /\ Gate[1].handler = AdminLogin
  /\ Gate[2] = Use(<<"admin">>, "admin")
  /\ Shaped(Gate) /\ Clear(Gate) /\ Fair(Gate) /\ Starts(Gate, {"admin"})
  /\ Seconds(Gate, {"login"})
<1>1. /\ Gate \in Seq({Gate[i] : i \in DOMAIN Gate}) /\ Len(Gate) = 2 /\ DOMAIN Gate = 1..2
      /\ 1..2 = {1, 2}
  BY DEF Gate
<1>2. /\ Gate[1].verb = "POST" /\ Gate[1].handler = AdminLogin
      /\ Gate[1].path = <<"admin", "login">>
      /\ Gate[2].verb = "use" /\ Gate[2].handler = DetectCountry /\ Gate[2].path = <<"admin">>
      /\ Gate[2] = Use(<<"admin">>, "admin")
  BY DEF Gate, Route, Use, Entry
<1>3. WellFormed(Gate[1].path, 2) /\ WellFormed(Gate[1].path, 1) /\ WellFormed(Gate[2].path, 1)
  BY <1>2, PathLengths
<1>4. Shaped(Gate) /\ Starts(Gate, {"admin"})
  <2>1. Gate[1].guard = "none" /\ Gate[2].guard = "admin"
    BY DEF Gate, Route, Use, Entry
  <2>2. QED BY <1>1, <1>2, <1>3, <2>1 DEF Shaped, Starts, GuardNames
<1>5. Seconds(Gate, {"login"})
  BY <1>1, <1>2, <1>3 DEF Seconds
<1>6. Clear(Gate)
  BY <1>1, <1>2 DEF Clear, Apart
<1>7. Fair(Gate)
  BY <1>1, <1>2, AuthSound, LocationSound DEF Fair, Sound
<1>8. QED BY <1>1, <1>2, <1>4, <1>5, <1>6, <1>7

\* The routes of admins, as far as they are registered: all but the login stand behind the guard.
Behind(S) == /\ DOMAIN S = 1..Len(S) /\ Len(S) \in Nat /\ Len(S) >= 2
             /\ S[1].handler = AdminLogin /\ S[2] = Use(<<"admin">>, "admin")
             /\ \A j \in DOMAIN S : j > 2 => /\ S[j].verb # "use" /\ S[j].handler.svc = "admin"
                                            /\ WellFormed(S[j].path, 1) /\ S[j].path[1] = "admin"

\* They still do when more of them are joined, and so they are covered.
LEMMA JoinedBehind ==
  ASSUME NEW V, NEW S \in Seq(V), NEW T \in Seq(V), Behind(S), Administered(T)
  PROVE  Behind(S \o T)
<1> DEFINE R == S \o T
<1>1. /\ Len(R) = Len(S) + Len(T) /\ DOMAIN R = 1..Len(R)
      /\ Len(S) \in Nat /\ Len(T) \in Nat /\ DOMAIN S = 1..Len(S)
  OBVIOUS
<1>2. /\ \A i \in DOMAIN S : R[i] = S[i]
      /\ \A i \in DOMAIN R : i \in DOMAIN S \/ (i - Len(S) \in DOMAIN T /\ R[i] = T[i - Len(S)])
  BY JoinedDomain
<1> HIDE DEF R
<1>3. R[1] = S[1] /\ R[2] = S[2] /\ Len(R) >= 2 /\ Len(R) \in Nat
  BY <1>1, <1>2 DEF Behind
<1>4. ASSUME NEW j \in DOMAIN R, j > 2
      PROVE  /\ R[j].verb # "use" /\ R[j].handler.svc = "admin"
             /\ WellFormed(R[j].path, 1) /\ R[j].path[1] = "admin"
  BY <1>2, <1>4 DEF Behind, Administered
<1>5. Behind(R)
  BY <1>1, <1>3, <1>4 DEF Behind
<1>6. QED BY <1>5 DEF R

\* A table all of whose entries stand after a guard is covered by it.
LEMMA BehindCovered ==
  ASSUME NEW S, Behind(S)
  PROVE  Covered(S)
<1> SUFFICES ASSUME NEW j \in DOMAIN S, S[j].verb # "use"
             PROVE  /\ S[j].handler.svc = "admin" => Under(S, j, "admin")
                    /\ ~Owned(S[j].handler)
  BY DEF Covered
<1>1. AdminLogin.svc = "auth"
  BY AuthSound DEF Sound
<1>2. S[2].verb = "use" /\ S[2].guard = "admin" /\ S[2].path = <<"admin">>
  BY DEF Behind, Use, Entry
<1>3. CASE j = 1
  <2>1. S[j].handler.svc = "auth"
    BY <1>1, <1>3 DEF Behind
  <2>2. QED BY <2>1, MineSvc DEF Owned, Personal
<1>4. CASE j > 2
  <2>1. S[j].handler.svc = "admin" /\ WellFormed(S[j].path, 1) /\ S[j].path[1] = "admin"
    BY <1>4 DEF Behind
  <2>2. Len(S[2].path) = 1 /\ S[2].path[1] = "admin" /\ 1..1 = {1}
    BY <1>2
  <2>3. Above(S[2], S[j], "admin")
    BY <1>2, <2>1, <2>2 DEF Above, WellFormed, Params
  <2>4. 2 \in 1..(j - 1)
    BY <1>4 DEF Behind
  <2>5. Under(S, j, "admin")
    BY <2>3, <2>4 DEF Under
  <2>6. QED BY <2>1, <2>5, MineSvc DEF Owned, Personal
<1>5. QED BY <1>2, <1>3, <1>4 DEF Behind

\* What a user has is told apart from the user by its length.
LEMMA AdminApart == Cross(AdminUsers, AdminRest)
<1> DEFINE S == AdminUsers
           T == AdminRest
<1>1. /\ DOMAIN S = 1..15 /\ DOMAIN T = 1..12
      /\ 1..15 = {1, 2, 3, 4, 5, 6, 7, 8, 9, 10, 11, 12, 13, 14, 15}
      /\ 1..12 = {1, 2, 3, 4, 5, 6, 7, 8, 9, 10, 11, 12}
  BY DEF AdminUsers, AdminRest
<1>2. /\ S[3].verb = "GET" /\ S[4].verb = "POST" /\ S[5].verb = "POST" /\ S[6].verb = "GET"
      /\ S[7].verb = "PUT" /\ S[8].verb = "PUT" /\ S[9].verb = "DELETE" /\ S[10].verb = "POST"
      /\ S[3].path = <<"admin", "users">> /\ S[4].path = <<"admin", "users">>
      /\ S[5].path = <<"admin", "users", "bulk">> /\ S[6].path = <<"admin", "users", ":id">>
      /\ S[7].path = <<"admin", "users", ":id", "status">>
      /\ S[8].path = <<"admin", "users", ":id">> /\ S[9].path = <<"admin", "users", ":id">>
      /\ S[10].path = <<"admin", "users", "purge">>
  BY DEF AdminUsers, Route, Entry
<1>3. /\ T[7].verb = "GET" /\ T[8].verb = "POST"
      /\ T[7].path = <<"admin", "users", ":id", "billing">>
      /\ T[8].path = <<"admin", "users", ":id", "billing">>
  BY DEF AdminRest, Route, Entry
<1>4. ASSUME NEW i \in {3, 4, 5, 6, 7, 8, 9, 10}, NEW j \in {7, 8} PROVE Apart(S[i], T[j])
  <2>1. Len(T[j].path) = 4 /\ T[j].verb \in {"GET", "POST"}
    BY <1>3
  <2>2. Len(S[i].path) # 4 \/ S[i].verb = "PUT"
    BY <1>2
  <2>3. QED BY ONLY <2>1, <2>2 DEF Apart
<1>5. \A i \in 1..15 :
        \/ i \in {3, 4, 5, 6, 7, 8, 9, 10}
        \/ S[i].path[2] \in {"dashboard", "growth", "transactions", "logs", "subscriptions"}
  <2>1. /\ S[1].path[2] = "dashboard" /\ S[2].path[2] = "growth"
        /\ S[11].path[2] = "transactions" /\ S[12].path[2] = "logs" /\ S[13].path[2] = "logs"
        /\ S[14].path[2] = "subscriptions" /\ S[15].path[2] = "subscriptions"
    BY DEF AdminUsers, Route, Entry
  <2>2. QED BY ONLY <1>1, <2>1
<1>6. \A j \in 1..12 : j \in {7, 8} \/ T[j].path[2] \in {"ai", "billing", "cancellations"}
  <2>1. /\ T[1].path[2] = "ai" /\ T[2].path[2] = "ai" /\ T[3].path[2] = "ai"
        /\ T[4].path[2] = "ai" /\ T[5].path[2] = "ai" /\ T[6].path[2] = "ai"
        /\ T[9].path[2] = "billing" /\ T[10].path[2] = "billing"
        /\ T[11].path[2] = "cancellations" /\ T[12].path[2] = "cancellations"
    BY DEF AdminRest, Route, Entry
  <2>2. QED BY ONLY <1>1, <2>1
<1>7. \A i \in {3, 4, 5, 6, 7, 8, 9, 10} : S[i].path[2] = "users"
  BY <1>2
<1>8. \A j \in {7, 8} : T[j].path[2] = "users"
  BY <1>3
<1>9. /\ Seconds(S, {"dashboard", "growth", "users", "transactions", "logs", "subscriptions"})
      /\ \A i \in 1..15 : S[i].verb # "use"
  BY <1>1, AdminUsersKept DEF Administered
<1>10. ASSUME NEW i \in 1..15, NEW j \in 1..12, S[i].path[2] # T[j].path[2] PROVE Apart(S[i], T[j])
  <2>1. /\ WellFormed(S[i].path, 2)
        /\ S[i].path[2] \in {"dashboard", "growth", "users", "transactions", "logs",
                             "subscriptions"}
    BY <1>1, <1>9 DEF Seconds
  <2>2. QED BY ONLY <1>10, <2>1 DEF Apart, WellFormed, Taken, Params
<1>11. ASSUME NEW i \in 1..15, NEW j \in 1..12 PROVE Apart(S[i], T[j])
  <2>1. S[i].path[2] # T[j].path[2] \/ (i \in {3, 4, 5, 6, 7, 8, 9, 10} /\ j \in {7, 8})
    BY ONLY <1>5, <1>6, <1>7, <1>8
  <2>2. QED BY ONLY <1>4, <1>10, <2>1
<1>12. QED BY ONLY <1>1, <1>11 DEF Cross

\* The routes of admins, each table with those before it.
LEMMA AdminRoutesKept ==
  /\ AdminRoutes \in Seq(Entries) /\ Kept(AdminRoutes) /\ Starts(AdminRoutes, {"admin"})
<1> DEFINE U == {"dashboard", "growth", "users", "transactions", "logs", "subscriptions"}
           P == {"plans", "features", "refunds"}
           L == {"token-usage"}
           S1 == Gate \o AdminUsers
           S2 == S1 \o AdminPlans
           S3 == S2 \o AdminLimits
           S4 == S3 \o AdminRest
<1>1. /\ Gate \in Seq(Entries) /\ AdminUsers \in Seq(Entries) /\ AdminPlans \in Seq(Entries)
      /\ AdminLimits \in Seq(Entries) /\ AdminRest \in Seq(Entries)
  <2>1. Gate \in Seq(Entries)
    BY GateKept, InTable DEF Tables
  <2>2. AdminUsers \in Seq(Entries)
    BY AdminUsersKept, InTable DEF Tables
  <2>3. AdminPlans \in Seq(Entries)
    BY AdminPlansKept, InTable DEF Tables
  <2>4. AdminLimits \in Seq(Entries)
    BY AdminLimitsKept, InTable DEF Tables
  <2>5. AdminRest \in Seq(Entries)
    BY AdminRestKept, InTable DEF Tables
  <2>6. QED BY <2>1, <2>2, <2>3, <2>4, <2>5
<1>2. S1 \in Seq(Entries) /\ S2 \in Seq(Entries) /\ S3 \in Seq(Entries) /\ S4 \in Seq(Entries)
  BY <1>1
<1>3. Behind(Gate)
  BY GateKept DEF Behind
<1>4. Behind(S4)
  <2>1. Behind(S1)
    BY <1>1, <1>3, AdminUsersKept, JoinedBehind
  <2>2. Behind(S2)
    BY <1>1, <1>2, <2>1, AdminPlansKept, JoinedBehind
  <2>3. Behind(S3)
    BY <1>1, <1>2, <2>2, AdminLimitsKept, JoinedBehind
  <2>4. QED BY <1>1, <1>2, <2>3, AdminRestKept, JoinedBehind
<1> HIDE DEF S1, S2, S3, S4
<1>5. Shaped(S1) /\ Fair(S1) /\ Starts(S1, {"admin"}) /\ Seconds(S1, {"login"} \cup U) /\ Clear(S1)
  <2>1. Cross(Gate, AdminUsers)
    BY GateKept, AdminUsersKept, SecondsCross DEF Taken, Params
  <2>2. Clear(S1)
    BY <1>1, <2>1, GateKept, AdminUsersKept, JoinedClear DEF S1
  <2>3. Shaped(S1) /\ Fair(S1)
    BY <1>1, GateKept, AdminUsersKept, JoinedRest DEF S1
  <2>4. Starts(S1, {"admin"} \cup {"admin"}) /\ Seconds(S1, {"login"} \cup U)
    BY <1>1, GateKept, AdminUsersKept, JoinedRest DEF S1
  <2>5. QED BY <2>2, <2>3, <2>4
<1>6. /\ Shaped(S2) /\ Fair(S2) /\ Starts(S2, {"admin"}) /\ Seconds(S2, {"login"} \cup U \cup P)
      /\ Clear(S2)
  <2>1. Cross(S1, AdminPlans)
    BY <1>5, AdminPlansKept, SecondsCross DEF Taken, Params
  <2>2. Clear(S2)
    BY <1>1, <1>2, <1>5, <2>1, AdminPlansKept, JoinedClear DEF S2
  <2>3. Shaped(S2) /\ Fair(S2)
    BY <1>1, <1>2, <1>5, AdminPlansKept, JoinedRest DEF S2
  <2>4. Starts(S2, {"admin"} \cup {"admin"}) /\ Seconds(S2, {"login"} \cup U \cup P)
    BY <1>1, <1>2, <1>5, AdminPlansKept, JoinedRest DEF S2
  <2>5. QED BY <2>2, <2>3, <2>4
<1>7. /\ Shaped(S3) /\ Fair(S3) /\ Starts(S3, {"admin"})
      /\ Seconds(S3, {"login"} \cup U \cup P \cup L) /\ Clear(S3)
  <2>1. Cross(S2, AdminLimits)
    BY <1>6, AdminLimitsKept, SecondsCross DEF Taken, Params
  <2>2. Clear(S3)
    BY <1>1, <1>2, <1>6, <2>1, AdminLimitsKept, JoinedClear DEF S3
  <2>3. Shaped(S3) /\ Fair(S3)
    BY <1>1, <1>2, <1>6, AdminLimitsKept, JoinedRest DEF S3
  <2>4. Starts(S3, {"admin"} \cup {"admin"}) /\ Seconds(S3, {"login"} \cup U \cup P \cup L)
    BY <1>1, <1>2, <1>6, AdminLimitsKept, JoinedRest DEF S3
  <2>5. QED BY <2>2, <2>3, <2>4
<1>8. Cross(S3, AdminRest)
  <2>1. Cross(Gate, AdminRest)
    BY GateKept, AdminRestKept, SecondsCross DEF Taken, Params
  <2>2. Cross(S1, AdminRest)
    BY <1>1, <2>1, AdminApart, JoinedCross DEF S1
  <2>3. Cross(AdminPlans, AdminRest)
    BY AdminPlansKept, AdminRestKept, SecondsCross DEF Taken, Params
  <2>4. Cross(S2, AdminRest)
    BY <1>1, <1>2, <2>2, <2>3, JoinedCross DEF S2
  <2>5. Cross(AdminLimits, AdminRest)
    BY AdminLimitsKept, AdminRestKept, SecondsCross DEF Taken, Params
  <2>6. QED BY <1>1, <1>2, <2>4, <2>5, JoinedCross DEF S3
<1>9. Clear(S4)
  BY <1>1, <1>2, <1>7, <1>8, AdminRestKept, JoinedClear DEF S4
<1>10. Shaped(S4) /\ Fair(S4)
  BY <1>1, <1>2, <1>7, AdminRestKept, JoinedRest DEF S4
<1>11. Starts(S4, {"admin"} \cup {"admin"})
  BY <1>1, <1>2, <1>7, AdminRestKept, JoinedRest DEF S4
<1>12. Covered(S4)
  BY <1>4, BehindCovered
<1>13. AdminRoutes = S4
  BY DEF AdminRoutes, Gate, S1, S2, S3, S4
<1>14. QED BY <1>2, <1>9, <1>10, <1>11, <1>12, <1>13 DEF Kept

\* Two tables that are apart keep their properties when they are joined.
LEMMA JoinedKept ==
  ASSUME NEW S \in Seq(Entries), NEW T \in Seq(Entries), Kept(S), Kept(T), Cross(S, T)
  PROVE  S \o T \in Seq(Entries) /\ Kept(S \o T)
<1>1. S \o T \in Seq(Entries)
  OBVIOUS
<1>2. Clear(S \o T)
  BY JoinedClear DEF Kept
<1>3. Covered(S \o T)
  BY JoinedCovered DEF Kept
<1>4. Shaped(S \o T) /\ Fair(S \o T)
  BY JoinedRest DEF Kept
<1>5. QED BY <1>1, <1>2, <1>3, <1>4 DEF Kept

\* All tables of the router, with the words their paths begin with.
LEMMA TablesKept ==
  /\ AuthRoutes \in Seq(Entries) /\ UserRoutes \in Seq(Entries) /\ OAuthRoutes \in Seq(Entries)
  /\ NotebookRoutes \in Seq(Entries) /\ NoteRoutes \in Seq(Entries)
  /\ ChatbotRoutes \in Seq(Entries) /\ PaymentRoutes \in Seq(Entries)
  /\ AdminRoutes \in Seq(Entries) /\ LocationRoutes \in Seq(Entries)
  /\ PlanRoutes \in Seq(Entries) /\ NotificationRoutes \in Seq(Entries) /\ Kept(AuthRoutes)
  /\ Kept(UserRoutes) /\ Kept(OAuthRoutes) /\ Kept(NotebookRoutes) /\ Kept(NoteRoutes)
  /\ Kept(ChatbotRoutes) /\ Kept(PaymentRoutes) /\ Kept(AdminRoutes) /\ Kept(LocationRoutes)
  /\ Kept(PlanRoutes) /\ Kept(NotificationRoutes) /\ Starts(AuthRoutes, {"auth"})
  /\ Starts(UserRoutes, {"user"}) /\ Starts(OAuthRoutes, {"auth"})
  /\ Starts(NotebookRoutes, {"notebook"}) /\ Starts(NoteRoutes, {"note"})
  /\ Starts(ChatbotRoutes, {"chatbot"}) /\ Starts(PaymentRoutes, {"payment"})
  /\ Starts(AdminRoutes, {"admin"}) /\ Starts(LocationRoutes, {"location"})
  /\ Starts(PlanRoutes, {"plans", "user"})
  /\ Starts(NotificationRoutes, {"notifications", "debug", "ws"})
<1>1. AuthRoutes \in Seq(Entries) /\ Kept(AuthRoutes) /\ Starts(AuthRoutes, {"auth"})
  BY AuthRoutesKept, InTable DEF Tables, Kept
<1>2. UserRoutes \in Seq(Entries) /\ Kept(UserRoutes) /\ Starts(UserRoutes, {"user"})
  BY UserRoutesKept, InTable DEF Tables, Kept
<1>3. OAuthRoutes \in Seq(Entries) /\ Kept(OAuthRoutes) /\ Starts(OAuthRoutes, {"auth"})
  BY OAuthRoutesKept, InTable DEF Tables, Kept
<1>4. /\ NotebookRoutes \in Seq(Entries) /\ Kept(NotebookRoutes)
      /\ Starts(NotebookRoutes, {"notebook"})
  BY NotebookRoutesKept, InTable DEF Tables, Kept
<1>5. NoteRoutes \in Seq(Entries) /\ Kept(NoteRoutes) /\ Starts(NoteRoutes, {"note"})
  BY NoteRoutesKept, InTable DEF Tables, Kept
<1>6. ChatbotRoutes \in Seq(Entries) /\ Kept(ChatbotRoutes) /\ Starts(ChatbotRoutes, {"chatbot"})
  BY ChatbotRoutesKept, InTable DEF Tables, Kept
<1>7. PaymentRoutes \in Seq(Entries) /\ Kept(PaymentRoutes) /\ Starts(PaymentRoutes, {"payment"})
  BY PaymentRoutesKept, InTable DEF Tables, Kept
<1>8. AdminRoutes \in Seq(Entries) /\ Kept(AdminRoutes) /\ Starts(AdminRoutes, {"admin"})
  BY AdminRoutesKept
<1>9. /\ LocationRoutes \in Seq(Entries) /\ Kept(LocationRoutes)
      /\ Starts(LocationRoutes, {"location"})
  BY LocationRoutesKept, InTable DEF Tables, Kept
<1>10. PlanRoutes \in Seq(Entries) /\ Kept(PlanRoutes) /\ Starts(PlanRoutes, {"plans", "user"})
  BY PlanRoutesKept, InTable DEF Tables, Kept
<1>11. /\ NotificationRoutes \in Seq(Entries) /\ Kept(NotificationRoutes)
       /\ Starts(NotificationRoutes, {"notifications", "debug", "ws"})
  BY NotificationRoutesKept, InTable DEF Tables, Kept
<1>12. QED BY ONLY <1>1, <1>2, <1>3, <1>4, <1>5, <1>6, <1>7, <1>8, <1>9, <1>10, <1>11

\* What is sent to sign in is posted, and what is sent to the providers is not.
LEMMA OAuthApart == Cross(AuthRoutes, OAuthRoutes)
<1>1. /\ DOMAIN AuthRoutes = 1..6 /\ DOMAIN OAuthRoutes = 1..2 /\ 1..6 = {1, 2, 3, 4, 5, 6}
      /\ 1..2 = {1, 2}
  BY DEF AuthRoutes, OAuthRoutes
<1>2. \A i \in {1, 2, 3, 4, 5, 6} : AuthRoutes[i].verb = "POST"
  BY DEF AuthRoutes, Route, Entry
<1>3. \A j \in {1, 2} : OAuthRoutes[j].verb = "GET"
  BY DEF OAuthRoutes, Route, Entry
<1>4. QED BY ONLY <1>1, <1>2, <1>3 DEF Cross, Apart

\* The status of a user's limits is another controller's, under the same prefix.
LEMMA UsageApart == Cross(UserRoutes, PlanRoutes)
<1> DEFINE S == UserRoutes
           T == PlanRoutes
           N == {2, 3, 4, 5, 6, 7, 8, 9, 10, 11, 12, 13}
<1>1. DOMAIN S = 1..13 /\ DOMAIN T = 1..3 /\ 1..13 = N \cup {1} /\ 1..3 = {1, 2, 3}
  BY DEF UserRoutes, PlanRoutes
<1>2. /\ S[2].path = <<"user", "profile">> /\ S[3].path = <<"user", "profile">>
      /\ S[4].path = <<"user", "account">> /\ S[5].path = <<"user", "avatar">>
      /\ S[6].path = <<"user", "refund", "request">> /\ S[7].path = <<"user", "refunds">>
      /\ S[8].path = <<"user", "refunds", ":id">> /\ S[9].path = <<"user", "billing">>
      /\ S[10].path = <<"user", "billing">> /\ S[11].path = <<"user", "cancellation">>
      /\ S[12].path = <<"user", "cancellations">>
      /\ S[13].path = <<"user", "cancellations", ":id">>
  BY DEF UserRoutes, Route, Use, Entry
<1>3. /\ T[1].path = <<"plans">> /\ T[2].verb = "use" /\ T[3].path = <<"user", "usage-status">>
      /\ S[1].verb = "use"
  BY DEF PlanRoutes, UserRoutes, Route, Use, Entry
<1>4. \A i \in N :
        /\ S[i].path[1] = "user"
        /\ S[i].path[2] \in {"profile", "account", "avatar", "refund", "refunds", "billing",
                             "cancellation", "cancellations"}
  BY <1>2
<1>5. /\ WellFormed(S[2].path, 2) /\ WellFormed(S[3].path, 2) /\ WellFormed(S[4].path, 2)
      /\ WellFormed(S[5].path, 2) /\ WellFormed(S[6].path, 2) /\ WellFormed(S[7].path, 2)
      /\ WellFormed(S[8].path, 2) /\ WellFormed(S[9].path, 2) /\ WellFormed(S[10].path, 2)
      /\ WellFormed(S[11].path, 2) /\ WellFormed(S[12].path, 2) /\ WellFormed(S[13].path, 2)
  BY <1>2, PathLengths
<1>6. ASSUME NEW i \in N, NEW j \in {1, 2, 3}, S[i].verb # "use" PROVE Apart(S[i], T[j])
  <2>1. WellFormed(S[i].path, 2)
    BY ONLY <1>5
  <2>2. CASE j = 1
    <3>1. T[j].path[1] = "plans"
      BY <1>3, <2>2
    <3>2. S[i].path[1] = "user"
      BY ONLY <1>4
    <3>3. QED BY ONLY <2>1, <3>1, <3>2 DEF Apart, WellFormed, Taken, Params
  <2>3. CASE j = 2
    BY <1>3, <1>6, <2>3 DEF Apart
  <2>4. CASE j = 3
    <3>1. T[j].path[2] = "usage-status"
      BY <1>3, <2>4
    <3>2. S[i].path[2] \in {"profile", "account", "avatar", "refund", "refunds", "billing",
                            "cancellation", "cancellations"}
      BY ONLY <1>4
    <3>3. QED BY ONLY <2>1, <3>1, <3>2 DEF Apart, WellFormed, Taken, Params
  <2>5. QED BY <2>2, <2>3, <2>4
<1>7. QED BY ONLY <1>1, <1>3, <1>6 DEF Cross

\* The whole router, controller after controller.
LEMMA StackKept == Stack \in Seq(Entries) /\ Kept(Stack)
<1> DEFINE S2  == AuthRoutes \o UserRoutes
           S3  == S2 \o OAuthRoutes
           S4  == S3 \o NotebookRoutes
           S5  == S4 \o NoteRoutes
           S6  == S5 \o ChatbotRoutes
           S7  == S6 \o PaymentRoutes
           S8  == S7 \o AdminRoutes
           S9  == S8 \o LocationRoutes
           S10 == S9 \o PlanRoutes
           S11 == S10 \o NotificationRoutes
<1> HIDE DEF S2, S3, S4, S5, S6, S7, S8, S9, S10, S11
<1>1. S2 \in Seq(Entries) /\ Kept(S2) /\ Starts(S2, {"auth", "user"})
  <2>1. Cross(AuthRoutes, UserRoutes)
    BY TablesKept, StartsCross DEF Kept, Taken, Params
  <2>3. S2 \in Seq(Entries) /\ Kept(S2)
    BY TablesKept, <2>1, JoinedKept DEF S2
  <2>4. Starts(S2, {"auth"} \cup {"user"})
    BY TablesKept, JoinedRest DEF S2
  <2>5. {"auth"} \cup {"user"} = {"auth", "user"}
    OBVIOUS
  <2>6. QED BY ONLY <2>3, <2>4, <2>5
<1>2. S3 \in Seq(Entries) /\ Kept(S3) /\ Starts(S3, {"auth", "user"})
  <2>1. Cross(AuthRoutes, OAuthRoutes) /\ Cross(UserRoutes, OAuthRoutes)
    BY OAuthApart, TablesKept, StartsCross DEF Kept, Taken, Params
  <2>2. Cross(S2, OAuthRoutes)
    BY <2>1, TablesKept, JoinedCross DEF S2
  <2>3. S3 \in Seq(Entries) /\ Kept(S3)
    BY <1>1, TablesKept, <2>2, JoinedKept DEF S3
  <2>4. Starts(S3, {"auth", "user"} \cup {"auth"})
    BY <1>1, TablesKept, JoinedRest DEF S3
  <2>5. {"auth", "user"} \cup {"auth"} = {"auth", "user"}
    OBVIOUS
  <2>6. QED BY ONLY <2>3, <2>4, <2>5
<1>3. S4 \in Seq(Entries) /\ Kept(S4) /\ Starts(S4, {"auth", "user", "notebook"})
  <2>1. Cross(S3, NotebookRoutes)
    BY <1>2, TablesKept, StartsCross DEF Kept, Taken, Params
  <2>3. S4 \in Seq(Entries) /\ Kept(S4)
    BY <1>2, TablesKept, <2>1, JoinedKept DEF S4
  <2>4. Starts(S4, {"auth", "user"} \cup {"notebook"})
    BY <1>2, TablesKept, JoinedRest DEF S4
  <2>5. {"auth", "user"} \cup {"notebook"} = {"auth", "user", "notebook"}
    OBVIOUS
  <2>6. QED BY ONLY <2>3, <2>4, <2>5
<1>4. S5 \in Seq(Entries) /\ Kept(S5) /\ Starts(S5, {"auth", "user", "notebook", "note"})
  <2>1. Cross(S4, NoteRoutes)
    BY <1>3, TablesKept, StartsCross DEF Kept, Taken, Params
  <2>3. S5 \in Seq(Entries) /\ Kept(S5)
    BY <1>3, TablesKept, <2>1, JoinedKept DEF S5
  <2>4. Starts(S5, {"auth", "user", "notebook"} \cup {"note"})
    BY <1>3, TablesKept, JoinedRest DEF S5
  <2>5. {"auth", "user", "notebook"} \cup {"note"} = {"auth", "user", "notebook", "note"}
    OBVIOUS
  <2>6. QED BY ONLY <2>3, <2>4, <2>5
<1>5. S6 \in Seq(Entries) /\ Kept(S6) /\ Starts(S6, {"auth", "user", "notebook", "note", "chatbot"})
  <2>1. Cross(S5, ChatbotRoutes)
    BY <1>4, TablesKept, StartsCross DEF Kept, Taken, Params
  <2>3. S6 \in Seq(Entries) /\ Kept(S6)
    BY <1>4, TablesKept, <2>1, JoinedKept DEF S6
  <2>4. Starts(S6, {"auth", "user", "notebook", "note"} \cup {"chatbot"})
    BY <1>4, TablesKept, JoinedRest DEF S6
  <2>5. {"auth", "user", "notebook", "note"} \cup {"chatbot"} =
          {"auth", "user", "notebook", "note", "chatbot"}
    OBVIOUS
  <2>6. QED BY ONLY <2>3, <2>4, <2>5
<1>6. /\ S7 \in Seq(Entries) /\ Kept(S7)
      /\ Starts(S7, {"auth", "user", "notebook", "note", "chatbot", "payment"})
  <2>1. Cross(S6, PaymentRoutes)
    BY <1>5, TablesKept, StartsCross DEF Kept, Taken, Params
  <2>3. S7 \in Seq(Entries) /\ Kept(S7)
    BY <1>5, TablesKept, <2>1, JoinedKept DEF S7
  <2>4. Starts(S7, {"auth", "user", "notebook", "note", "chatbot"} \cup {"payment"})
    BY <1>5, TablesKept, JoinedRest DEF S7
  <2>5. {"auth", "user", "notebook", "note", "chatbot"} \cup {"payment"} =
          {"auth", "user", "notebook", "note", "chatbot", "payment"}
    OBVIOUS
  <2>6. QED BY ONLY <2>3, <2>4, <2>5
<1>7. /\ S8 \in Seq(Entries) /\ Kept(S8)
      /\ Starts(S8, {"auth", "user", "notebook", "note", "chatbot", "payment", "admin"})
  <2>1. Cross(S7, AdminRoutes)
    BY <1>6, TablesKept, StartsCross DEF Kept, Taken, Params
  <2>3. S8 \in Seq(Entries) /\ Kept(S8)
    BY <1>6, TablesKept, <2>1, JoinedKept DEF S8
  <2>4. Starts(S8, {"auth", "user", "notebook", "note", "chatbot", "payment"} \cup {"admin"})
    BY <1>6, TablesKept, JoinedRest DEF S8
  <2>5. {"auth", "user", "notebook", "note", "chatbot", "payment"} \cup {"admin"} =
          {"auth", "user", "notebook", "note", "chatbot", "payment", "admin"}
    OBVIOUS
  <2>6. QED BY ONLY <2>3, <2>4, <2>5
<1>8. /\ S9 \in Seq(Entries) /\ Kept(S9)
      /\ Starts(S9, {"auth", "user", "notebook", "note", "chatbot", "payment", "admin", "location"})
  <2>1. Cross(S8, LocationRoutes)
    BY <1>7, TablesKept, StartsCross DEF Kept, Taken, Params
  <2>3. S9 \in Seq(Entries) /\ Kept(S9)
    BY <1>7, TablesKept, <2>1, JoinedKept DEF S9
  <2>4. Starts(S9, {"auth", "user", "notebook", "note", "chatbot", "payment", "admin"}
                   \cup {"location"})
    BY <1>7, TablesKept, JoinedRest DEF S9
  <2>5. {"auth", "user", "notebook", "note", "chatbot", "payment", "admin"} \cup {"location"} =
          {"auth", "user", "notebook", "note", "chatbot", "payment", "admin", "location"}
    OBVIOUS
  <2>6. QED BY ONLY <2>3, <2>4, <2>5
<1>9. /\ S10 \in Seq(Entries) /\ Kept(S10)
      /\ Starts(S10, {"auth", "user", "notebook", "note", "chatbot", "payment", "admin", "location",
                      "plans"})
  <2>1. \A T \in {AuthRoutes, OAuthRoutes, NotebookRoutes, NoteRoutes, ChatbotRoutes, PaymentRoutes,
                 AdminRoutes, LocationRoutes} : Cross(T, PlanRoutes)
    <3>1. Cross(AuthRoutes, PlanRoutes)
      BY TablesKept, StartsCross DEF Kept, Taken, Params
    <3>2. Cross(OAuthRoutes, PlanRoutes)
      BY TablesKept, StartsCross DEF Kept, Taken, Params
    <3>3. Cross(NotebookRoutes, PlanRoutes)
      BY TablesKept, StartsCross DEF Kept, Taken, Params
    <3>4. Cross(NoteRoutes, PlanRoutes)
      BY TablesKept, StartsCross DEF Kept, Taken, Params
    <3>5. Cross(ChatbotRoutes, PlanRoutes)
      BY TablesKept, StartsCross DEF Kept, Taken, Params
    <3>6. Cross(PaymentRoutes, PlanRoutes)
      BY TablesKept, StartsCross DEF Kept, Taken, Params
    <3>7. Cross(AdminRoutes, PlanRoutes)
      BY TablesKept, StartsCross DEF Kept, Taken, Params
    <3>8. Cross(LocationRoutes, PlanRoutes)
      BY TablesKept, StartsCross DEF Kept, Taken, Params
    <3>9. QED BY ONLY <3>1, <3>2, <3>3, <3>4, <3>5, <3>6, <3>7, <3>8
  <2>2. Cross(S2, PlanRoutes)
    BY <2>1, UsageApart, TablesKept, JoinedCross DEF S2
  <2>3. Cross(S3, PlanRoutes)
    BY <1>1, <2>1, <2>2, TablesKept, JoinedCross DEF S3
  <2>4. Cross(S4, PlanRoutes)
    BY <1>2, <2>1, <2>3, TablesKept, JoinedCross DEF S4
  <2>5. Cross(S5, PlanRoutes)
    BY <1>3, <2>1, <2>4, TablesKept, JoinedCross DEF S5
  <2>6. Cross(S6, PlanRoutes)
    BY <1>4, <2>1, <2>5, TablesKept, JoinedCross DEF S6
  <2>7. Cross(S7, PlanRoutes)
    BY <1>5, <2>1, <2>6, TablesKept, JoinedCross DEF S7
  <2>8. Cross(S8, PlanRoutes)
    BY <1>6, <2>1, <2>7, TablesKept, JoinedCross DEF S8
  <2>9. Cross(S9, PlanRoutes)
    BY <1>7, <2>1, <2>8, TablesKept, JoinedCross DEF S9
  <2>10. S10 \in Seq(Entries) /\ Kept(S10)
    BY <1>8, TablesKept, <2>9, JoinedKept DEF S10
  <2>11. Starts(S10, {"auth", "user", "notebook", "note", "chatbot", "payment", "admin", "location"}
                     \cup {"plans", "user"})
    BY <1>8, TablesKept, JoinedRest DEF S10
  <2>12. {"auth", "user", "notebook", "note", "chatbot", "payment", "admin", "location"}
           \cup {"plans", "user"} =
           {"auth", "user", "notebook", "note", "chatbot", "payment", "admin", "location", "plans"}
    OBVIOUS
  <2>13. QED BY ONLY <2>10, <2>11, <2>12
<1>10. /\ S11 \in Seq(Entries) /\ Kept(S11)
       /\ Starts(S11, {"auth", "user", "notebook", "note", "chatbot", "payment", "admin",
                       "location", "plans", "notifications", "debug", "ws"})
  <2>1. Cross(S10, NotificationRoutes)
    BY <1>9, TablesKept, StartsCross DEF Kept, Taken, Params
  <2>3. S11 \in Seq(Entries) /\ Kept(S11)
    BY <1>9, TablesKept, <2>1, JoinedKept DEF S11
  <2>4. Starts(S11, {"auth", "user", "notebook", "note", "chatbot", "payment", "admin", "location",
                     "plans"} \cup {"notifications", "debug", "ws"})
    BY <1>9, TablesKept, JoinedRest DEF S11
  <2>5. {"auth", "user", "notebook", "note", "chatbot", "payment", "admin", "location", "plans"}
          \cup {"notifications", "debug", "ws"} =
          {"auth", "user", "notebook", "note", "chatbot", "payment", "admin", "location", "plans",
           "notifications", "debug", "ws"}
    OBVIOUS
  <2>6. QED BY ONLY <2>3, <2>4, <2>5
<1>11. Stack = S11
  BY DEF Stack, registerRoutes, S2, S3, S4, S5, S6, S7, S8, S9, S10, S11
<1>12. QED BY <1>10, <1>11

-----------------------------------------------------------------------------
(* A request on its way *)

\* The request under way is one for an entry of the router.
ReqInv ==
  pc # "idle" => req.route \in Handled /\ req.path = Concrete(Stack[req.route].path, req.defect)

\* A guard lets the request pass.
Lets(i)   == Verdict(Stack[i].guard) = 0
Guarding  == {i \in DOMAIN Stack : Stack[i].verb = "use"}
\* What matched before is a guard that let the request pass.
PassedInv ==
  pc # "idle" => \A i \in DOMAIN Stack : i < at /\ Matches(Stack[i]) => i \in Guarding /\ Lets(i)

\* Where the request is: at a guard it passed, or at the handler it came to.
CameTo(i) == i \in Handled /\ Matches(Stack[i]) /\ Lets(i)
Come      == CameTo(at)
AtInv ==
  /\ pc \in {"idle", "routing", "handling", "operating", "locating", "answered"}
  /\ at \in Nat
  /\ pc = "idle" => at = 0
  /\ pc = "routing" /\ at # 0 => at \in Guarding /\ Lets(at)
  /\ pc \in {"handling", "operating", "locating"} \/ Ran => Come
  /\ pc = "locating" => Reached \in Looked
  /\ pc = "answered" => at \in DOMAIN Stack
  /\ Ran => pc = "answered"

\* The invariant of Http.
HInv == ReqInv /\ PassedInv /\ AtInv /\ AnswersAreTrue

\* What the router's entries are like.
LEMMA StackFacts ==
  /\ DOMAIN Stack = 1..Len(Stack) /\ Len(Stack) \in Nat
  /\ \A i \in DOMAIN Stack :
       i \in Nat /\ WellFormed(Stack[i].path, 1) /\ Stack[i].guard \in GuardNames
  /\ Handled \subseteq DOMAIN Stack /\ \A i \in DOMAIN Stack : i \in Handled <=> i \notin Guarding
<1>1. DOMAIN Stack = 1..Len(Stack) /\ Len(Stack) \in Nat
  BY StackKept
<1>2. Shaped(Stack)
  BY StackKept DEF Kept
<1>3. QED BY ONLY <1>1, <1>2 DEF Shaped, Handled, Guarding

\* A guard lets a request pass, or refuses it as unknown or as forbidden.
LEMMA VerdictKinds == \A g \in GuardNames : Verdict(g) \in {0, 401, 403}
  BY DEF GuardNames, Verdict, JwtMiddleware, authMiddleware, Handshake, adminMiddleware

\* Whether an entry matches and lets pass is settled when the request is sent.
LEMMA Settled ==
  ASSUME UNCHANGED <<secret, req>>
  PROVE  \A i : (Lets(i)' <=> Lets(i)) /\ (Matches(Stack[i])' <=> Matches(Stack[i]))
<1>1. \A g : Verdict(g)' = Verdict(g)
  BY DEF Verdict, JwtMiddleware, authMiddleware, Handshake, adminMiddleware, Signed
<1>2. \A i : Lets(i)' <=> Lets(i)
  BY <1>1 DEF Lets
<1>3. \A i : Matches(Stack[i])' <=> Matches(Stack[i])
  BY DEF Matches
<1>4. QED BY <1>2, <1>3

\* A request has the words of its route, and something for its parameters.
LEMMA ConcreteParts ==
  ASSUME NEW p, NEW d, WellFormed(p, 1)
  PROVE  /\ WellFormed(Concrete(p, d), 1) /\ Len(Concrete(p, d)) = Len(p)
         /\ \A k \in 1..Len(p) :
              \/ Concrete(p, d)[k] = p[k]
              \/ p[k] \in Params /\ Concrete(p, d)[k] \in {"word", "uuid"}
         /\ Fits(p, Concrete(p, d))
<1>1. Len(Concrete(p, d)) = Len(p) /\ DOMAIN Concrete(p, d) = 1..Len(p)
  BY DEF Concrete, WellFormed
<1>2. \A k \in 1..Len(p) :
        \/ Concrete(p, d)[k] = p[k]
        \/ p[k] \in Params /\ Concrete(p, d)[k] \in {"word", "uuid"}
  BY DEF Concrete, WellFormed
<1>3. QED BY ONLY <1>1, <1>2, WellFormed(p, 1) DEF WellFormed, Fits

\* No request for one entry matches another that is apart from it.
LEMMA ApartTold ==
  ASSUME NEW e, NEW f, NEW d, WellFormed(f.path, 1), Apart(e, f), e.verb = f.verb
  PROVE  ~Fits(e.path, Concrete(f.path, d))
<1> DEFINE c == Concrete(f.path, d)
<1>1. /\ Len(c) = Len(f.path) /\ DOMAIN c = 1..Len(f.path)
      /\ \A k \in 1..Len(f.path) : c[k] = f.path[k] \/ c[k] \in {"word", "uuid"}
  BY ConcreteParts DEF WellFormed
<1> HIDE DEF c
<1>2. ~Fits(e.path, c)
  BY <1>1 DEF Apart, Fits, Taken
<1>3. QED BY <1>2 DEF c

\* The handler a request comes to is its own, or that of the route which hides the one exception.
LEMMA RouteFound ==
  ASSUME HInv, pc # "idle", Come
  PROVE  at = req.route \/ Stack[req.route].handler = BulkResetAiLimit
<1> DEFINE j == req.route
<1>1. /\ j \in Handled /\ req.path = Concrete(Stack[j].path, req.defect)
      /\ at \in Handled /\ Matches(Stack[at])
  BY DEF HInv, ReqInv, Come, CameTo
<1>2. /\ j \in DOMAIN Stack /\ at \in DOMAIN Stack /\ j \in Nat /\ at \in Nat
      /\ WellFormed(Stack[j].path, 1) /\ Stack[j].verb # "use" /\ Stack[at].verb # "use"
      /\ j \notin Guarding
  BY <1>1, StackFacts DEF Handled
<1>3. Matches(Stack[j])
  BY <1>1, <1>2, ConcreteParts DEF Matches
<1>4. ~(j < at)
  BY <1>2, <1>3 DEF HInv, PassedInv
<1>5. CASE at < j
  <2>1. Apart(Stack[at], Stack[j]) \/ Stack[j].handler = BulkResetAiLimit
    BY <1>2, <1>5, StackKept DEF Kept, Clear
  <2>2. Stack[at].verb = Stack[j].verb /\ Fits(Stack[at].path, Concrete(Stack[j].path, req.defect))
    BY <1>1, <1>2 DEF Matches
  <2>3. QED BY <1>2, <2>1, <2>2, ApartTold
<1>6. QED BY <1>2, <1>4, <1>5

\* A guard above the entry a request came to has let it pass.
LEMMA GuardPassed ==
  ASSUME HInv, pc # "idle", Come, NEW g, Under(Stack, at, g)
  PROVE  Verdict(g) = 0
<1>1. PICK i \in 1..(at - 1) : Above(Stack[i], Stack[at], g)
  BY DEF Under
<1>2. at \in DOMAIN Stack /\ at \in Nat /\ Matches(Stack[at]) /\ Stack[at].verb # "use"
  BY StackFacts DEF Come, CameTo, Handled
<1>3. i \in DOMAIN Stack /\ i < at
  BY <1>2, StackFacts
<1>4. /\ WellFormed(Stack[i].path, 1) /\ WellFormed(Stack[at].path, 1)
      /\ WellFormed(req.path, 1)
  <2>1. req.route \in DOMAIN Stack /\ req.path = Concrete(Stack[req.route].path, req.defect)
    BY StackFacts DEF HInv, ReqInv
  <2>2. QED BY <1>2, <1>3, <2>1, StackFacts, ConcreteParts
<1>5. /\ Len(Stack[at].path) = Len(req.path)
      /\ \A k \in DOMAIN req.path : Stack[at].path[k] = req.path[k] \/ Stack[at].path[k] \in Params
  BY <1>2 DEF Matches, Fits
<1>6. /\ Len(Stack[i].path) \in 1..Len(Stack[at].path)
      /\ \A k \in 1..Len(Stack[i].path) :
           Stack[i].path[k] = Stack[at].path[k] /\ Stack[i].path[k] \notin Params
      /\ Stack[i].verb = "use" /\ Stack[i].guard = g
  BY <1>1 DEF Above
<1>7. IsPrefix(Stack[i].path, req.path)
  <2>1. /\ Len(Stack[i].path) <= Len(req.path)
        /\ \A k \in 1..Len(Stack[i].path) : Stack[i].path[k] = req.path[k]
    BY ONLY <1>4, <1>5, <1>6 DEF WellFormed
  <2>2. QED BY ONLY <1>4, <2>1 DEF WellFormed, IsPrefix
<1>8. Matches(Stack[i])
  BY <1>6, <1>7 DEF Matches
<1>9. QED BY <1>3, <1>6, <1>8 DEF HInv, PassedInv, Lets

\* Who came to a handler passed every guard above it.
LEMMA GuardedHolds == HInv => Guarded
<1> SUFFICES ASSUME HInv, Ran
             PROVE  /\ Reached.svc = "admin" => Fresh(req.token) /\ req.token.role = "admin"
                    /\ (Reached.svc \in Personal \/ Reached \in Mine) => Fresh(req.token)
  BY DEF Guarded
<1>1. Come /\ pc # "idle"
  BY DEF HInv, AtInv
<1>2. at \in DOMAIN Stack /\ Stack[at].verb # "use"
  BY <1>1 DEF Come, CameTo, Handled
<1>3. Covered(Stack)
  BY StackKept DEF Kept
<1>4. ASSUME Reached.svc = "admin" PROVE Fresh(req.token) /\ req.token.role = "admin"
  <2>1. Under(Stack, at, "admin")
    BY <1>2, <1>3, <1>4 DEF Covered, Reached
  <2>2. Verdict("admin") = 0
    BY <1>1, <2>1, GuardPassed
  <2>3. adminMiddleware = 0
    BY <2>2 DEF Verdict
  <2> DEFINE key == IF secret = "" THEN "default_secret" ELSE secret
  <2>4. ASSUME ~Signed(key) PROVE FALSE
    <3>1. adminMiddleware = 401
      BY <2>4 DEF adminMiddleware
    <3>2. QED BY <2>3, <3>1
  <2>5. ASSUME Signed(key), req.token.role # "admin" PROVE FALSE
    <3>1. adminMiddleware = 403
      BY <2>5 DEF adminMiddleware
    <3>2. QED BY <2>3, <3>1
  <2>6. Signed(key) => Fresh(req.token)
    BY DEF Signed, Fresh
  <2>7. QED BY <2>4, <2>5, <2>6
<1>5. ASSUME Owned(Reached) PROVE Fresh(req.token)
  <2>1. Stack[at].guard \in {"payment", "ws"} \/ Under(Stack, at, "jwt")
    BY <1>2, <1>3, <1>5 DEF Covered, Reached
  <2>2. \E g \in {"payment", "ws", "jwt"} : Verdict(g) = 0
    BY <1>1, <2>1, GuardPassed DEF Come, CameTo, Lets
  <2>3. Signed(secret)
    BY <2>2 DEF Verdict, JwtMiddleware, authMiddleware, Handshake
  <2>4. QED BY <2>3 DEF Signed, Fresh
<1>6. QED BY <1>4, <1>5 DEF Owned

\* The handler that is reached answers honestly.
LEMMA ReachedHonest ==
  ASSUME at \in DOMAIN Stack, Reached \notin Quiet
  PROVE  Honest(Reached)
  BY StackKept DEF Kept, Fair, Reached

\* A step that leaves the server's variables alone, and one that only changes the client's token.
LEMMA StaysKeeps ==
  ASSUME HInv, UNCHANGED <<secret, req, pc, at, ran, status>>
  PROVE  HInv'
<1>1. \A i : (Lets(i)' <=> Lets(i)) /\ (Matches(Stack[i])' <=> Matches(Stack[i]))
  BY Settled
<1>2. ReqInv'
  BY DEF HInv, ReqInv
<1>3. PassedInv'
  BY <1>1 DEF HInv, PassedInv
<1>4. AtInv'
  BY <1>1 DEF HInv, AtInv, Come, CameTo, Ran, Reached
<1>5. AnswersAreTrue'
  <2>1. Reached' = Reached /\ Well(Reached)' = Well(Reached)
    BY DEF Reached, Well, Unsaid, Silent
  <2>2. QED BY <2>1 DEF HInv, AnswersAreTrue
<1>6. QED BY <1>2, <1>3, <1>4, <1>5 DEF HInv

-----------------------------------------------------------------------------
(* Http, step by step *)

\* A request that is sent has been nowhere yet.
LEMMA SendKeeps ==
  ASSUME HInv, NEW i \in Handled, NEW d, NEW t, Send(i, d, t)
  PROVE  HInv'
<1>1. /\ pc = "idle" /\ pc' = "routing" /\ UNCHANGED <<secret, at, ran, status>>
      /\ req' = [route |-> i, path |-> Concrete(Stack[i].path, d), defect |-> d, token |-> t]
  BY DEF Send
<1>2. at = 0 /\ ~Ran
  BY <1>1 DEF HInv, AtInv
<1>3. ReqInv'
  BY <1>1 DEF ReqInv
<1>4. PassedInv'
  BY <1>1, <1>2, StackFacts DEF PassedInv
<1>5. AtInv'
  BY <1>1, <1>2 DEF AtInv, Ran
<1>6. AnswersAreTrue'
  BY <1>1 DEF AnswersAreTrue
<1>7. QED BY <1>3, <1>4, <1>5, <1>6 DEF HInv

\* An operation that has not been run has not ended in any of the ways services keep to themselves.
LEMMA WellRan == \A h : "no" \notin Well(h) /\ "other" \notin Well(h) /\ "done" \in Well(h)
<1>1. DOMAIN Silent = {"missing", "failures", "incomplete", "nothing"}
  BY DEF Silent
<1>2. \A h : Unsaid(h) \subseteq {"missing", "failures", "incomplete", "nothing"}
  BY <1>1 DEF Unsaid
<1>3. QED BY <1>2 DEF Well

\* A request that advances has been let pass by what matched before.
LEMMA AdvanceKeeps ==
  ASSUME HInv, Advance
  PROVE  HInv'
<1> DEFINE v == Verdict(Stack[at'].guard)
<1>1. /\ pc = "routing" /\ Ahead # {} /\ at' = Least(Ahead) /\ UNCHANGED <<secret, req, ran>>
      /\ IF v # 0 THEN pc' = "answered" /\ status' = v
         ELSE pc' = (IF Stack[at'].verb = "use" THEN "routing" ELSE "handling") /\ UNCHANGED status
  BY DEF Advance, Answer
<1>2. at' \in Ahead /\ \A j \in Ahead : at' <= j
  <2>1. Ahead \in SUBSET Nat
    BY StackFacts DEF Ahead
  <2>2. \E i \in Ahead : \A j \in Ahead : i <= j
    BY <1>1, <2>1, LeastOne
  <2>3. QED BY <1>1, <2>2 DEF Least
<1>3. at' \in DOMAIN Stack /\ at' \in Nat /\ at < at' /\ Matches(Stack[at']) /\ at \in Nat
  BY <1>2, StackFacts DEF Ahead, HInv, AtInv
<1>4. \A i : (Lets(i)' <=> Lets(i)) /\ (Matches(Stack[i])' <=> Matches(Stack[i]))
  BY <1>1, Settled
<1>5. v \in {0, 401, 403}
  BY <1>3, StackFacts, VerdictKinds
<1>6. ~Ran /\ ~Ran' /\ pc # "idle" /\ pc' # "idle"
  BY <1>1 DEF HInv, AtInv, Ran
<1>7. ReqInv'
  BY <1>1, <1>6 DEF HInv, ReqInv
<1>8. ASSUME NEW i \in DOMAIN Stack, i < at', Matches(Stack[i]) PROVE i \in Guarding /\ Lets(i)
  <2>1. ~(i > at)
    BY <1>2, <1>3, <1>8, StackFacts DEF Ahead
  <2>2. CASE i < at
    BY <1>6, <1>8, <2>2 DEF HInv, PassedInv
  <2>3. CASE i = at
    BY <1>1, <2>3, StackFacts DEF HInv, AtInv
  <2>4. i \in Nat
    BY StackFacts
  <2>5. QED BY <1>3, <2>1, <2>2, <2>3, <2>4
<1>9. PassedInv'
  BY <1>4, <1>8 DEF PassedInv, Guarding
<1>10. PICK n \in DOMAIN Stack : n = at'
  BY <1>3
<1>11. v = 0 => Lets(n)' /\ Matches(Stack[n])'
  BY <1>3, <1>4, <1>10 DEF Lets
<1>12. v = 0 /\ Stack[n].verb # "use" => CameTo(n)'
  BY <1>10, <1>11 DEF CameTo, Handled
<1>13. v = 0 /\ Stack[n].verb = "use" => n \in Guarding /\ Lets(n)'
  BY <1>10, <1>11 DEF Guarding
<1>14. AtInv'
  <2>1. pc' \in {"routing", "handling", "answered"}
    BY <1>1
  <2>2. pc' = "handling" => Come'
    BY <1>1, <1>10, <1>12 DEF Come
  <2>3. pc' = "routing" => at' \in Guarding' /\ Lets(at)'
    BY <1>1, <1>10, <1>13 DEF Guarding, Lets
  <2>4. QED BY <1>3, <1>6, <2>1, <2>2, <2>3 DEF AtInv
<1>15. AnswersAreTrue'
  <2>1. ran' = "no"
    BY <1>6 DEF Ran
  <2>2. pc' = "answered" => status' \in {401, 403}
    BY <1>1, <1>5
  <2>3. ran' \notin Well(Reached)'
    BY <2>1, WellRan
  <2>4. QED BY <2>2, <2>3 DEF AnswersAreTrue
<1>16. QED BY <1>7, <1>9, <1>14, <1>15 DEF HInv

\* A step of the handler reached: what is answered is true, and nothing else has changed.
LEMMA HandlingKeeps ==
  ASSUME HInv, pc \in {"handling", "operating", "locating"}, UNCHANGED <<secret, req, at>>,
         pc' \in {"operating", "locating", "answered"}, ran' # "no" => pc' = "answered",
         pc' = "locating" => Reached \in Looked,
         pc' = "answered" /\ Reached \notin Quiet => (status' < 400 <=> ran' \in Well(Reached))
  PROVE  HInv'
<1>1. \A i : (Lets(i)' <=> Lets(i)) /\ (Matches(Stack[i])' <=> Matches(Stack[i]))
  BY Settled
<1>2. Come /\ at \in Nat /\ at \in DOMAIN Stack
  BY StackFacts DEF HInv, AtInv, Come, CameTo
<1>3. Come'
  BY <1>1, <1>2 DEF Come, CameTo
<1>4. ReqInv'
  BY DEF HInv, ReqInv
<1>5. PassedInv'
  BY <1>1 DEF HInv, PassedInv
<1>6. AtInv'
  BY <1>2, <1>3 DEF AtInv, Ran, Reached
<1>7. AnswersAreTrue'
  <2>1. Reached' = Reached
    BY DEF Reached
  <2>2. Well(Reached)' = Well(Reached)
    BY <2>1 DEF Well, Unsaid, Silent
  <2>3. QED BY <2>1, <2>2 DEF AnswersAreTrue
<1>8. QED BY <1>4, <1>5, <1>6, <1>7 DEF HInv

\* A request that fails a test is answered as an error, and nothing was done.
LEMMA TestKeeps ==
  ASSUME HInv, Test
  PROVE  HInv'
<1>1. /\ pc = "handling" /\ UNCHANGED <<secret, req, at, ran>>
      /\ IF Failed = {} THEN pc' = "operating"
         ELSE pc' = "answered" /\ status' = Reached.tests[Least(Failed)][2]
  BY DEF Test, Answer
<1>2. ran = "no" /\ ran' = "no" /\ at \in DOMAIN Stack
  BY <1>1, StackFacts DEF HInv, AtInv, Ran, Come, CameTo
<1>3. Failed # {} /\ Reached \notin Quiet => ~(status' < 400)
  <2> SUFFICES ASSUME Failed # {}, Reached \notin Quiet PROVE ~(status' < 400)
    OBVIOUS
  <2>1. Honest(Reached)
    BY <1>2, ReachedHonest
  <2>2. Failed \in SUBSET Nat /\ \A i \in Failed : Reached.tests[i][2] \in 400..599
    BY <2>1 DEF Honest, Refusing, Failed
  <2>3. Least(Failed) \in Failed
    <3>1. \E i \in Failed : \A j \in Failed : i <= j
      BY <2>2, LeastOne
    <3>2. QED BY <3>1 DEF Least
  <2>4. status' = Reached.tests[Least(Failed)][2]
    BY <1>1
  <2>5. status' \in 400..599
    BY <2>2, <2>3, <2>4
  <2>6. QED BY <2>5
<1>4. ran' \notin Well(Reached)
  BY <1>2, WellRan
<1>5. QED BY <1>1, <1>2, <1>3, <1>4, HandlingKeeps

\* An operation is run for who was let come to it, and the answer says how it ended.
LEMMA OperateKeeps ==
  ASSUME HInv, NEW o, Operate(o)
  PROVE  HInv'
<1>1. /\ pc = "operating" /\ UNCHANGED <<secret, req, at>> /\ ran' = o /\ pc' = "answered"
      /\ o \in Well(Reached) \cup DOMAIN Reached.errors
      /\ status' = IF o \in Well(Reached) THEN Reached.ok ELSE Reached.errors[o]
  BY DEF Operate, Answer
<1>2. at \in DOMAIN Stack
  BY <1>1, StackFacts DEF HInv, AtInv, Come, CameTo
<1>3. Reached \notin Quiet => (status' < 400 <=> ran' \in Well(Reached))
  <2> SUFFICES ASSUME Reached \notin Quiet PROVE status' < 400 <=> o \in Well(Reached)
    BY <1>1
  <2>1. Honest(Reached)
    BY <1>2, ReachedHonest
  <2>2. Reached.ok \in 100..399 /\ \A e \in DOMAIN Reached.errors : Reached.errors[e] \in 400..599
    BY <2>1 DEF Honest, Refuses
  <2>3. CASE o \in Well(Reached)
    BY <1>1, <2>2, <2>3
  <2>4. CASE o \notin Well(Reached)
    BY <1>1, <2>2, <2>4
  <2>5. QED BY <2>3, <2>4
<1>4. QED BY <1>1, <1>3, HandlingKeeps

\* A request for places goes on to the service from the handler it came to.
LEMMA LocateKeeps ==
  ASSUME HInv, NEW r, Locate(r)
  PROVE  HInv'
<1>1. /\ pc = "operating" /\ pc' = "locating" /\ UNCHANGED <<secret, req, at, ran>>
      /\ Reached \in Looked
  BY DEF Locate
<1>2. ran' = "no"
  BY <1>1 DEF HInv, AtInv, Ran
<1>3. QED BY <1>1, <1>2, HandlingKeeps

\* It comes back to the same handler.
LEMMA LocatedKeeps ==
  ASSUME HInv, Located
  PROVE  HInv'
<1>1. /\ pc = "locating" /\ pc' = "answered" /\ UNCHANGED <<secret, req, at>>
      /\ ran' = (IF ~answer.ok THEN "other" ELSE IF answer.whole THEN "done" ELSE "incomplete")
      /\ status' = IF answer.ok THEN Reached.ok ELSE Reached.errors["other"]
  BY DEF Located, Answer
<1>2. Reached \in Looked
  BY <1>1 DEF HInv, AtInv
<1>3. Reached.ok = 200 /\ Reached.errors["other"] = 500
  BY <1>2 DEF Looked, GetCountries, GetCities, GetStates, GetZipCodes, Location, Handler, Error,
              Else
<1>4. "incomplete" \in Well(Reached)
  BY <1>2 DEF Looked, Well, Unsaid, Silent, PartialPlaces
<1>5. status' < 400 <=> ran' \in Well(Reached)
  <2>1. CASE answer.ok
    BY <1>1, <1>3, <1>4, <2>1, WellRan
  <2>2. CASE ~answer.ok
    BY <1>1, <1>3, <2>2, WellRan
  <2>3. QED BY <2>1, <2>2
<1>6. QED BY <1>1, <1>5, HandlingKeeps

\* A client that has its answer is where it began.
LEMMA ReceiveKeeps ==
  ASSUME HInv, Receive
  PROVE  HInv'
<1>1. pc' = "idle" /\ at' = 0 /\ ran' = "no"
  BY DEF Receive
<1>2. QED BY <1>1 DEF HInv, ReqInv, PassedInv, AtInv, AnswersAreTrue, Ran

\* Every step of the server keeps HInv.
LEMMA ServerKeeps ==
  ASSUME HInv, [ServerNext]_vars2
  PROVE  HInv'
<1>1. CASE \E i \in Handled :
             \E d \in Defects(Stack[i].handler), t \in {token, NoToken} : Elsewhere(Send(i, d, t))
  BY <1>1, SendKeeps DEF Elsewhere
<1>2. CASE Work
  <2>1. CASE Elsewhere(Advance)
    BY <2>1, AdvanceKeeps DEF Elsewhere
  <2>2. CASE Elsewhere(Test)
    BY <2>2, TestKeeps DEF Elsewhere
  <2>3. CASE \E r \in Calls : Locate(r)
    BY <2>3, LocateKeeps
  <2>4. CASE Locating(Gather)
    BY <2>4, StaysKeeps DEF Locating, vars
  <2>5. CASE Located
    BY <2>5, LocatedKeeps
  <2>6. QED BY <1>2, <2>1, <2>2, <2>3, <2>4, <2>5 DEF Work
<1>3. CASE Elsewhere(Receive)
  BY <1>3, ReceiveKeeps DEF Elsewhere
<1>4. CASE Hour
  BY <1>4, StaysKeeps DEF Hour, vars
<1>5. CASE Day
  BY <1>5, StaysKeeps DEF Day, Expire
<1>6. CASE UNCHANGED vars2
  BY <1>6, StaysKeeps DEF vars2, vars
<1>7. CASE Operated
  BY <1>7, OperateKeeps DEF Operated, Elsewhere
<1>8. CASE Locating(Directory)
  BY <1>8, StaysKeeps DEF Locating, vars
<1>9. QED BY <1>1, <1>2, <1>3, <1>4, <1>5, <1>6, <1>7, <1>8 DEF ServerNext, Others

\* All parts of HInv hold at all times.
LEMMA ServerHttp == ServerSpec => []HInv
<1>1. ServerInit => HInv
  <2> SUFFICES ASSUME Init PROVE HInv
    BY DEF ServerInit
  <2>1. pc = "idle" /\ at = 0 /\ ran = "no"
    BY DEF Init
  <2>2. AtInv
    BY <2>1 DEF AtInv, Ran
  <2>3. QED BY <2>1, <2>2 DEF HInv, ReqInv, PassedInv, AnswersAreTrue
<1>2. HInv /\ [ServerNext]_vars2 => HInv'
  BY ServerKeeps
<1>3. QED BY <1>1, <1>2, PTL DEF ServerSpec

\* An operation of an admin, or on somebody's own things, is run only for the token of one: every
\* route of those services stands after the guard of its prefix (admin_controller.go:139-219,
\* server.go:70-88).
THEOREM RoutesGuarded == ServerSpec => []Guarded
  BY ServerHttp, GuardedHolds, PTL

\* Of two routes that one request matches the first is the one meant, but for the bulk reset
\* of limits (admin_controller.go:198-200).
THEOREM RoutesReached == ServerSpec => []EveryRouteReached
<1>1. HInv => EveryRouteReached
  <2> SUFFICES ASSUME HInv, pc \in {"handling", "operating"}
               PROVE  \/ Reached = Stack[req.route].handler
                      \/ Stack[req.route].handler = BulkResetAiLimit
    BY DEF EveryRouteReached
  <2>1. Come
    BY DEF HInv, AtInv
  <2>2. QED BY <2>1, RouteFound DEF Reached
<1>2. QED BY <1>1, ServerHttp, PTL

\* A request is answered with success just when its operation came to its end, in full or in one of
\* the ways its service keeps to itself (note_service.go:117, admin_service.go:348), and with an
\* error when a test or an error of the service ended it, but by the three that never say
\* (server.go:90-118, payment_controller.go:118-143).
THEOREM AnswersTrue == ServerSpec => []AnswersAreTrue
<1>1. HInv => AnswersAreTrue
  BY DEF HInv
<1>2. QED BY <1>1, ServerHttp, PTL
=============================================================================
