----------------------------- MODULE Locations -----------------------------
(***************************************************************************)
(* Locations: a request for places, served from the cache or from two      *)
(* directories that may fail in any way.  The towns of all Indonesia are   *)
(* asked for province by province, by as many goroutines as there are      *)
(* provinces, of which a few at a time may call.                           *)
(***************************************************************************)
EXTENDS Prototype, FiniteSets

CONSTANTS
  Replies,        \* lists of names the international directory may reply with
  MaxConcurrent,  \* slots for calls
  Nobody, NoCall

ASSUME LocationsAssumption == MaxConcurrent \in Nat \ {0} /\ Nobody \notin ToSet(Provinces)

VARIABLES
  cache,        \* answers by key, with how long they live and whether they are too old
  call,         \* the request under way
  phase,        \* of it: idle, asked, spread over the provinces, or answered
  first,        \* the kind of the first reply, "none" before it, and what was read of it
  names,
  worker,       \* where the goroutine of each province is
  reply,        \* what each province replied, and what was read of it
  mu,           \* who holds the lock of the list
  allCities,    \* the list, in the order it was appended to, and what its holder has read
  copy,
  answer        \* what the call ends with, if all replies to it were good, and the request it
                \* was assembled for

locations == <<cache, call, phase, first, names, worker, reply, mu, allCities, copy, answer>>

Country   == ToSet(Provinces)
NoAnswer  == [ok |-> FALSE, places |-> <<>>, whole |-> FALSE, for |-> NoCall]
Item(life, a, for) ==
  [life |-> life, data |-> a.places, whole |-> a.whole, for |-> for, old |-> FALSE]

LocationsInit ==
  /\ cache = <<>> /\ call = NoCall /\ phase = "idle" /\ first = "none" /\ names = <<>>
  /\ worker = [p \in Country |-> "none"] /\ reply = [p \in Country |-> NoReply]
  /\ mu = Nobody /\ allCities = <<>> /\ copy = <<>> /\ answer = NoAnswer

Colon(x, y) == x \o <<":">> \o y

\* Fault: the key leaves out what comes last.
FaultKey(r) ==
  CASE r.op = "GetCountries" -> Colon(<<"countries">>, r.text)
    [] r.op = "GetCities"    -> Colon(<<"cities">>, Colon(r.country, Colon(r.text, <<>>)))
    [] r.op = "GetStates"    -> Colon(<<"states">>, Colon(r.country, r.text))
    [] r.op = "GetZipCodes"  -> Colon(<<"zip">>, Colon(r.country, Colon(r.text, <<>>)))

\* The key of a request is its parts with colons between them, whatever they hold.
Key(r) ==
  CASE r.op = "GetCountries" -> Colon(<<"countries">>, r.text)
    [] r.op = "GetCities"    -> Colon(<<"cities">>, Colon(r.country, Colon(r.text, r.state)))
    [] r.op = "GetStates"    -> Colon(<<"states">>, Colon(r.country, r.text))
    [] r.op = "GetZipCodes"  -> Colon(<<"zip">>, Colon(r.country, Colon(r.text, r.state)))

Life(r)         == IF r.op = "GetCountries" THEN "day" ELSE "hour"
Without(k)      == [x \in DOMAIN cache \ {k} |-> cache[x]]
getFromCache(k) == k \in DOMAIN cache /\ ~cache[k].old
setCache(r, a) == cache' = [x \in DOMAIN cache \cup {Key(r)} |->
                              IF x = Key(r) THEN Item(Life(r), a, r) ELSE cache[x]]

\* An answer in the cache is the end of it, and one that is too old is dropped.
Ask(r) ==
  /\ phase = "idle" /\ call' = r
  /\ LET k == Key(r) IN
       IF getFromCache(k)
       THEN /\ answer' = [ok |-> TRUE, places |-> cache[k].data, whole |-> cache[k].whole,
                          for |-> cache[k].for]
            /\ phase' = "answered" /\ UNCHANGED cache
       ELSE phase' = "asked" /\ cache' = Without(k) /\ UNCHANGED answer
  /\ UNCHANGED <<first, names, worker, reply, mu, allCities, copy>>

\* What the decoder reads of a list of names: of a reply with an odd shape the entries that fit,
\* with empty names where they do not, or nothing at all; and so of one whose code alone is odd.
Blanked(list) ==
  {s \in [DOMAIN list -> ToSet(list) \cup {""}] : \A i \in DOMAIN s : s[i] \in {list[i], ""}}
Legible(kind, list) ==
  CASE kind = "ok"                 -> {list}
    [] kind \in {"odd", "garbled"} -> Blanked(list) \cup {<<>>}
    [] OTHER                       -> {<<>>}

\* Errors are not kept; an answer made of what a bad reply left is.
Settle(a, whole) ==
  LET full == [ok |-> a.ok, places |-> a.places, whole |-> whole, for |-> call] IN
  /\ phase' = "answered" /\ answer' = full
  /\ IF a.ok THEN setCache(call, full) ELSE UNCHANGED cache

\* Countries: a reply that cannot be read is an error.
countries(kind, list) ==
  IF kind \in {"ok", "refused"} THEN Found(Unique(list)) ELSE Failure

\* Towns, states and post codes from abroad: only no reply at all is an error.
abroad(kind, list) == IF kind = "down" THEN Failure ELSE Found(Unique(list))

citiesAbroad(kind, list) == abroad(kind, list)
statesAbroad(kind, list) == abroad(kind, list)
zipCodes(kind, list)     == abroad(kind, list)

\* The towns of one province: a reply whose code is not 200 is an error, one of which only a part
\* can be read is not.
Read == {"ok", "odd"}
ofProvince(r, kind, list) == IF kind \in Read THEN Found(Matching(list, r.text)) ELSE Failure

\* The provinces as states: the code is not looked at.
states(kind, list) == IF kind = "down" THEN Failure ELSE Found(list)

Nationwide(r) == r.op = "GetCities" /\ r.country = Indonesia /\ r.state = <<>>
cities(r, kind, list)   ==
  IF r.country = Indonesia THEN ofProvince(r, kind, list) ELSE citiesAbroad(kind, list)
statesOf(r, kind, list) ==
  IF r.country = Indonesia THEN states(kind, list) ELSE statesAbroad(kind, list)
Direct(r, kind, list) ==
  CASE r.op = "GetCountries" -> countries(kind, list)
    [] r.op = "GetCities"    -> cities(r, kind, list)
    [] r.op = "GetStates"    -> statesOf(r, kind, list)
    [] r.op = "GetZipCodes"  -> zipCodes(kind, list)

\* What the directory has for a request.
Offers(r) ==
  IF r.country # Indonesia \/ r.op = "GetZipCodes" THEN Replies
  ELSE IF r.op = "GetStates" THEN {Provinces}
  ELSE {Towns[p] : p \in Country \cap ToSet(r.state)} \cup {<<>>}

\* The reply to the one call of a request that needs no more.
Reply(kind, list) ==
  /\ phase = "asked" /\ ~Nationwide(call)
  /\ first' = kind /\ names' = list
  /\ Settle(Direct(call, kind, list), kind = "ok")
  /\ UNCHANGED <<call, worker, reply, mu, allCities, copy>>

\* The reply to the call for the provinces: a goroutine for each entry of the list, be its name or
\* its id lost; if the list could not be read at all there is none.
Spread(kind, list) ==
  /\ phase = "asked" /\ Nationwide(call)
  /\ first' = kind /\ names' = <<>>
  /\ IF kind \in Read
     THEN /\ phase' = "spread" /\ UNCHANGED <<answer, cache>>
          /\ worker' = [p \in Country |-> IF list # <<>> THEN "waiting" ELSE "none"]
     ELSE Settle(Failure, FALSE) /\ UNCHANGED worker
  /\ allCities' = <<>> /\ UNCHANGED <<call, reply, mu, copy>>

\* Those that hold a slot.
Inside == {p \in Country : worker[p] \in {"asking", "locking", "merging"}}

TakeSlot(p) ==
  /\ worker[p] = "waiting" /\ Cardinality(Inside) < MaxConcurrent
  /\ worker' = [worker EXCEPT ![p] = "asking"]
  /\ UNCHANGED <<cache, call, phase, first, names, reply, mu, allCities, copy, answer>>

\* What a goroutine has of a reply: one that is not there, or whose code is not 200, is nothing.
Heard(kind, towns) == IF kind \in Read THEN [kind |-> kind, towns |-> towns] ELSE NoReply

\* Fault: a goroutine says that it is done at its end, and an early return leaves it out.
FaultTown(p, kind, towns) ==
  /\ worker[p] = "asking"
  /\ reply' = [reply EXCEPT ![p] = Heard(kind, towns)]
  /\ worker' = [worker EXCEPT ![p] =
       IF Gives(Heard(kind, towns), call.text, Read) THEN "locking" ELSE "gone"]
  /\ UNCHANGED <<cache, call, phase, first, names, mu, allCities, copy, answer>>

\* The reply for one province: one that is no good, and one with no match in what could be read
\* of it, ends the goroutine.
Town(p, kind, towns) ==
  /\ worker[p] = "asking"
  /\ reply' = [reply EXCEPT ![p] = Heard(kind, towns)]
  /\ worker' = [worker EXCEPT ![p] =
       IF Gives(Heard(kind, towns), call.text, Read) THEN "locking" ELSE "done"]
  /\ UNCHANGED <<cache, call, phase, first, names, mu, allCities, copy, answer>>

\* Fault: the list is not locked.
FaultLock(p) ==
  /\ worker[p] = "locking" /\ mu \in Country \cup {Nobody}
  /\ mu' = p /\ copy' = allCities /\ worker' = [worker EXCEPT ![p] = "merging"]
  /\ UNCHANGED <<cache, call, phase, first, names, reply, allCities, answer>>

\* To append is to read the list and to write it back.
Lock(p) ==
  /\ worker[p] = "locking" /\ mu = Nobody
  /\ mu' = p /\ copy' = allCities /\ worker' = [worker EXCEPT ![p] = "merging"]
  /\ UNCHANGED <<cache, call, phase, first, names, reply, allCities, answer>>

Merge(p) ==
  /\ worker[p] = "merging"
  /\ allCities' = Append(copy, Block(p, reply[p].towns, call.text))
  /\ mu' = Nobody /\ worker' = [worker EXCEPT ![p] = "done"]
  /\ UNCHANGED <<cache, call, phase, first, names, reply, copy, answer>>

\* All goroutines are done: the list as it is is the answer.
Wait ==
  /\ phase = "spread" /\ \A p \in Country : worker[p] \in {"none", "done"}
  /\ Settle(Found(allCities), first = "ok" /\ \A p \in Country : reply[p].kind = "ok")
  /\ UNCHANGED <<call, first, names, worker, reply, mu, allCities, copy>>

\* The caller has its answer.
Return ==
  /\ phase = "answered" /\ phase' = "idle" /\ call' = NoCall /\ answer' = NoAnswer
  /\ first' = "none" /\ names' = <<>> /\ allCities' = <<>> /\ copy' = <<>>
  /\ worker' = [p \in Country |-> "none"] /\ reply' = [p \in Country |-> NoReply]
  /\ UNCHANGED <<cache, mu>>

\* What lives for an hour, and after a day all, is too old.
Pass(lives) ==
  /\ cache' = [k \in DOMAIN cache |-> [cache[k] EXCEPT !.old = @ \/ cache[k].life \in lives]]
  /\ UNCHANGED <<call, phase, first, names, worker, reply, mu, allCities, copy, answer>>

\* What a directory replies, and what the service does by itself.
Directory ==
  \/ \E kind \in Kinds : \E list \in Legible(kind, Provinces) : Spread(kind, list)
  \/ phase = "asked" /\ \E kind \in Kinds, offer \in Offers(call) :
       \E list \in Legible(kind, offer) : Reply(kind, list)
  \/ \E p \in Country, kind \in Kinds :
       \E towns \in Legible(kind, Towns[p]) : Town(p, kind, towns)
Gather == Wait \/ \E p \in Country : TakeSlot(p) \/ Lock(p) \/ Merge(p)

-----------------------------------------------------------------------------
(* Properties. *)

\* What the service assembles, with eight goroutines at a time appending to one list, is what
\* the program that asked for one province after the other would have answered to the same
\* replies: the towns of each province stand together in the answer, once, but in the order in
\* which the goroutines came to the list.  It differs where that program gave up, and has what
\* could be read of replies with an odd shape, which that program left out
\* (location_service.go:264-324, api-location.go:302-319).
AgreesWithPrototype ==
  LET theirs == Answered(call, first, names, reply) IN
  phase = "answered" /\ first # "none" /\ Covers(call) /\ theirs.ok =>
    /\ answer.ok
    /\ IF Nationwide(call)
       THEN /\ {b \in ToSet(answer.places) : reply[b.of].kind # "odd"} = ToSet(theirs.places)
            /\ \A i, j \in DOMAIN answer.places :
                 answer.places[i].of = answer.places[j].of => i = j
       ELSE answer.places = theirs.places

\* A request without a colon in it is never answered with what was assembled for another: keys
\* are made with colons, and different requests may have the same (location_service.go:135).
ColonFree(r) == ":" \notin ToSet(r.country) \cup ToSet(r.text) \cup ToSet(r.state)
AnsweredAsAsked ==
  phase = "answered" /\ answer.ok /\ ColonFree(call) => answer.for = call
=============================================================================
