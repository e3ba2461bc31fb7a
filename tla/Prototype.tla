----------------------------- MODULE Prototype -----------------------------
(***************************************************************************)
(* Prototype: the stand-alone program that looked places up before the     *)
(* service did, one call after the other and without a cache.  What it     *)
(* answers to given replies of the two directories is what the service,    *)
(* which asks them in parallel, has to answer.                             *)
(***************************************************************************)
EXTENDS Naturals, Sequences, SequencesExt

CONSTANTS
  Provinces,    \* the provinces of Indonesia, in the order of the directory
  Towns         \* the names of the towns in each

ASSUME PlacesAssumption ==
  /\ Provinces \in Seq(STRING) /\ Provinces # <<>>
  /\ \A i, j \in DOMAIN Provinces : Provinces[i] = Provinces[j] => i = j
  /\ \A p \in ToSet(Provinces) : p \in DOMAIN Towns

\* A request for places: what the user typed, with a country and a state.  Each comes from the
\* query as it stands; it is a sequence of words, and may be empty.
Request(op, country, text, state) ==
  [op |-> op, country |-> country, text |-> text, state |-> state]

\* The one country that has a directory of its own.
Indonesia == <<"ID">>

\* A reply is not there, is no JSON (or its code cannot be read), tells of an error, has another
\* shape than the program expects, or is good.
Kinds      == {"down", "garbled", "refused", "odd", "ok"}
NoReply    == [kind |-> "none", towns |-> <<>>]
Failure    == [ok |-> FALSE, places |-> <<>>]
Found(s)   == [ok |-> TRUE, places |-> s]

Alike(name, text)     == text = <<>> \/ Contains(text, name)
Matching(names, text) == SelectSeq(names, LAMBDA n : Alike(n, text))

\* What is found in one province stands together in the list.
Block(p, names, text) == [of |-> p, towns |-> Matching(names, text)]

\* The names of a reply, without the empty ones and each once.
Unique(names) ==
  LET Add(seen, n) == IF n = "" \/ n \in ToSet(seen) THEN seen ELSE Append(seen, n)
  IN  FoldLeft(Add, <<>>, names)

\* A reply in which there is nothing to find, or which is no good, adds nothing; the prototype
\* passes over one that has an odd shape.
Gives(r, text, good) == r.kind \in good /\ Matching(r.towns, text) # <<>>

\* What is found after the first i provinces.
Visited(text, reply) ==
  LET found[i \in 0 .. Len(Provinces)] ==
        IF i = 0 THEN <<>>
        ELSE IF Gives(reply[Provinces[i]], text, {"ok"})
             THEN Append(found[i - 1], Block(Provinces[i], reply[Provinces[i]].towns, text))
             ELSE found[i - 1]
  IN  found

\* The first reply names the provinces.
getCitiesIndonesia(text, first, reply) ==
  IF first = "ok" THEN Found(Visited(text, reply)[Len(Provinces)]) ELSE Failure

getStatesIndonesia(first, names) == IF first = "ok" THEN Found(names) ELSE Failure

\* An error told in good JSON has no places in it, and is taken for an empty answer.
International(first, names) ==
  IF first \in {"ok", "refused"} THEN Found(Unique(names)) ELSE Failure

getCitiesInternational(first, names)   == International(first, names)
getStatesInternational(first, names)   == International(first, names)
getZipCodesInternational(first, names) == International(first, names)

\* What the handlers require of a request; Indonesian post codes were three fixed ones.
getCitiesHandler(r)   == r.op = "GetCities" /\ r.text # <<>> /\ r.state = <<>>
getStatesHandler(r)   == r.op = "GetStates" /\ r.text # <<>>
getZipCodesHandler(r) == r.op = "GetZipCodes" /\ r.text # <<>> /\ r.country # Indonesia

Covers(r) == getCitiesHandler(r) \/ getStatesHandler(r) \/ getZipCodesHandler(r)

\* The answer to a request it covers.
Answered(r, first, names, reply) ==
  CASE r.op = "GetCities" /\ r.country = Indonesia -> getCitiesIndonesia(r.text, first, reply)
    [] r.op = "GetCities" /\ r.country # Indonesia -> getCitiesInternational(first, names)
    [] r.op = "GetStates" /\ r.country = Indonesia -> getStatesIndonesia(first, names)
    [] r.op = "GetStates" /\ r.country # Indonesia -> getStatesInternational(first, names)
    [] r.op = "GetZipCodes"                        -> getZipCodesInternational(first, names)
=============================================================================
