----------------------------- MODULE ChatProofs -----------------------------
(***************************************************************************)
(* Proofs about Chat, for any number of notes, requests in progress and    *)
(* messages.  Each update the grounder may make keeps candidates, focus    *)
(* and state in agreement; who waits to make one has the object to         *)
(* himself, or the two have crossed.  A mode set while no other request    *)
(* was in progress is the one every later request is routed by.  And what  *)
(* a deletion has seen is all there is, unless a message came meanwhile.   *)
(***************************************************************************)
EXTENDS Chat, Integers, FiniteSetTheorems, TLAPS

\* What an update assigns.
IsPatch(w) ==
  /\ DOMAIN w \subseteq {"cands", "focus", "state"}
  /\ "cands" \in DOMAIN w => w["cands"] \in Seq(Notes)
  /\ "focus" \in DOMAIN w => w["focus"] \in Focus
  /\ "state" \in DOMAIN w => w["state"] \in States
Value == Seq(Notes) \cup Focus \cup States
Patch == {w \in UNION {[D -> Value] : D \in SUBSET {"cands", "focus", "state"}} : IsPatch(w)}

Session == [mode : Modes \cup {NoMode}, cands : Seq(Notes), focus : Focus, state : States]
Local   == [p : Prompts, first : BOOLEAN, locked : Modes \cup {NoMode}, mode : Modes,
            obj : Objs \cup {None}, w : Patch, msgs : Int, raw : Int]

TypeOK ==
  /\ row \in [st : {"none", "live", "deleted"}, titled : BOOLEAN] /\ msgs \in Int /\ raw \in Int
  /\ heap \in [Objs -> Session] /\ cache \in Objs \cup {None}
  /\ pc \in [Handlers -> {"idle"} \cup Sending \cup Deleting]
  /\ loc \in [Handlers -> Local]
  /\ firm \in Sticky \cup {NoMode} /\ crossed \in BOOLEAN /\ raced \in BOOLEAN

\* A request has an object in hand from the time it fetches it until it has updated it.
ObjInv == \A h \in Handlers : pc[h] \in {"ground", "mutate"} <=> loc[h].obj # None

\* A session is focused exactly if it has a focus, which is among its candidates.
Sound(s) ==
  /\ s.state = "FOCUSED" <=> s.focus # Nil
  /\ s.focus \in Notes => \E i \in DOMAIN s.cands : s.cands[i] = s.focus
  /\ s.focus = All => s.cands # <<>>

\* Until two requests have updated one object at once, every update a request is about to
\* make leaves its object sound, whatever the others do before.
SoundInv ==
  ~crossed =>
    /\ \A o \in Objs : Sound(heap[o])
    /\ \A h \in Handlers : pc[h] = "mutate" => Sound(Updated(heap[loc[h].obj], loc[h].w))

\* Every request that was routed since the mode was set was routed by it, and has no other
\* object in hand than the cache has.
Routed  == {"explicit", "bypass", "fetch", "ground", "mutate", "persist"}
FirmInv ==
  firm # NoMode =>
    /\ cache # None /\ heap[cache].mode = firm
    /\ \A h \in Handlers : /\ pc[h] \in Routed => loc[h].locked = firm /\ loc[h].mode = firm
                           /\ loc[h].obj \in {None, cache}

\* Deletions commit one after the other; what one has seen is all there is if no message was
\* in progress meanwhile, and then none is in progress afterwards.
DeleteInv ==
  /\ \A h, k \in Handlers : pc[h] = "commit" /\ pc[k] = "commit" => h = k
  /\ row.st = "none" => \A h \in Handlers : pc[h] = "idle"
  /\ ~raced =>
       /\ \A h, k \in Handlers : ~(pc[h] \in Sending /\ pc[k] \in Deleting)
       /\ \A h \in Handlers :
            pc[h] = "commit" => loc[h].msgs = msgs /\ loc[h].raw = raw /\ cache = None
       /\ row.st = "deleted" => /\ \A h \in Handlers : pc[h] \notin Sending
                                /\ msgs = 0 /\ raw = 0 /\ cache = None

IInv == TypeOK /\ ObjInv /\ SoundInv /\ FirmInv /\ DeleteInv
-----------------------------------------------------------------------------
(* The updates the grounder may make *)

\* What is picked from the hits of a search is a sequence of notes.
LEMMA PickedSeq ==
  ASSUME GroundingAssumption, NEW r \in Hits, NEW ns \in Picks(r)
  PROVE  r \in Seq(Notes) /\ Picked(r, ns) \in Seq(Notes)
<1>1. PICK k \in Nat : r \in [1..k -> Notes]
  BY DEF Hits, UpTo
<1>2. r \in Seq(Notes) /\ Len(r) = k /\ DOMAIN r = 1..k
  BY <1>1
<1>3. CASE ns = [i \in DOMAIN r |-> i]
  <2>1. ns \in [1..k -> Nat]
    BY <1>2, <1>3
  <2>2. Len(ns) = Len(r)
    BY <1>2, <1>3, <2>1
  <2>3. QED BY <1>2, <2>2 DEF Picked
<1>4. CASE ns \in UpTo(MaxPicks, DOMAIN r)
  <2>1. PICK n \in Nat : ns \in [1..n -> DOMAIN r]
    BY <1>4 DEF UpTo
  <2>2. [i \in DOMAIN ns |-> r[ns[i]]] \in [1..n -> Notes]
    BY <1>1, <2>1
  <2>3. [i \in DOMAIN ns |-> r[ns[i]]] \in Seq(Notes)
    BY <2>2
  <2>4. QED BY <1>2, <2>3 DEF Picked
<1>5. QED BY <1>3, <1>4 DEF Picks

\* What an update may be, in a state whose candidates are cs.
IsUpdate(cs, w) ==
  \/ w = Unchanged
  \/ \E i \in DOMAIN cs : w = Selects(cs[i])
  \/ cs # <<>> /\ w = Selects(All)
  \/ \E c \in Seq(Notes) \ {<<>>} : w \in {SelectsOf(c[1], c), SelectsOf(All, c), Offers(c)}

\* What a search makes of the session names its new candidates, and a focus among them.
LEMMA SearchUpdates ==
  ASSUME GroundingAssumption, NEW high \in BOOLEAN, NEW w \in Search(high), NEW cs
  PROVE  IsUpdate(cs, w)
<1>1. PICK r \in Hits :
         w \in IF Len(r) <= 1
               THEN {IF r = <<>> THEN Unchanged ELSE SelectsOf(r[1], r)}
               ELSE {LET c == Picked(r, ns) IN
                     CASE c = <<>>    -> Unchanged
                       [] Len(c) = 1  -> SelectsOf(c[1], c)
                       [] Len(c) > 1  -> IF high THEN SelectsOf(All, c) ELSE Offers(c) :
                     ns \in Picks(r)}
  BY DEF Search
<1>2. CASE Len(r) <= 1
  <2>1. w = IF r = <<>> THEN Unchanged ELSE SelectsOf(r[1], r)
    BY <1>1, <1>2
  <2>2. [i \in DOMAIN r |-> i] \in Picks(r)
    BY DEF Picks
  <2>3. r \in Seq(Notes)
    BY <2>2, PickedSeq
  <2>4. QED BY <2>1, <2>3 DEF IsUpdate
<1>3. CASE ~(Len(r) <= 1)
  <2>1. PICK ns \in Picks(r) :
          w = LET c == Picked(r, ns) IN
                     CASE c = <<>>    -> Unchanged
                       [] Len(c) = 1  -> SelectsOf(c[1], c)
                       [] Len(c) > 1  -> IF high THEN SelectsOf(All, c) ELSE Offers(c)
    BY <1>1, <1>3
  <2>2. PICK c \in Seq(Notes) : c = Picked(r, ns)
    BY PickedSeq
  <2>3. w = CASE c = <<>>    -> Unchanged
              [] Len(c) = 1  -> SelectsOf(c[1], c)
              [] Len(c) > 1  -> IF high THEN SelectsOf(All, c) ELSE Offers(c)
    BY <2>1, <2>2
  <2>4. PICK n \in Nat : n = Len(c) /\ (n = 0 <=> c = <<>>)
    OBVIOUS
  <2>5. w = Unchanged \/ (c # <<>> /\ w \in {SelectsOf(c[1], c), SelectsOf(All, c), Offers(c)})
    <3>1. CASE c = <<>>
      <4>1. ~(Len(c) = 1) /\ ~(Len(c) > 1)
        BY <3>1
      <4>2. QED BY <2>3, <3>1, <4>1
    <3>2. CASE c # <<>> /\ Len(c) = 1
      BY <2>3, <3>2
    <3>3. CASE c # <<>> /\ Len(c) > 1
      <4>1. n > 1 /\ ~(n = 1)
        BY <2>4, <3>3
      <4>2. QED BY <2>3, <2>4, <3>3, <4>1
    <3>4. n = 0 \/ n = 1 \/ n > 1
      OBVIOUS
    <3>5. QED BY <2>4, <3>1, <3>2, <3>3, <3>4
  <2>6. QED BY <2>2, <2>5 DEF IsUpdate
<1>4. QED BY <1>2, <1>3

\* Whatever the intent, an update focuses on one of the candidates it leaves.
LEMMA AllUpdates ==
  ASSUME GroundingAssumption, NEW s \in Session, NEW i \in Intents, NEW w \in Updates(s, i)
  PROVE  IsUpdate(s.cands, w)
<1>1. CASE i \in [action : {"SEARCH"}, high : BOOLEAN]
  <2>1. w \in Search(i.high) /\ i.high \in BOOLEAN
    BY <1>1 DEF Updates
  <2>2. QED BY <2>1, SearchUpdates
<1>2. CASE i \in [action : {"FOCUS"}, target : 1..(MaxPicks + 1)]
  <2>1. w \in Select(s, i.target)
    BY <1>2 DEF Updates
  <2>2. QED BY <2>1 DEF Select, IsUpdate
<1>3. CASE i \in [action : {"AGGREGATE", "OTHER"}]
  <2>1. CASE i.action = "AGGREGATE"
    <3>1. w \in Aggregate(s)
      BY <2>1 DEF Updates
    <3>2. CASE s.cands # <<>>
      BY <3>1, <3>2 DEF Aggregate, IsUpdate
    <3>3. CASE s.cands = <<>>
      <4>1. PICK c \in UNION {{Picked(r, ns) : ns \in Picks(r)} : r \in Hits} :
              w = IF c = <<>> THEN Unchanged ELSE SelectsOf(All, c)
        BY <3>1, <3>3 DEF Aggregate
      <4>2. c \in Seq(Notes)
        BY <4>1, PickedSeq
      <4>3. QED BY <4>1, <4>2 DEF IsUpdate
    <3>4. QED BY <3>2, <3>3
  <2>2. CASE i.action = "OTHER"
    BY <2>2 DEF Updates, IsUpdate
  <2>3. QED BY <1>3, <2>1, <2>2
<1>4. QED BY <1>1, <1>2, <1>3 DEF Intents

\* An update is a choice of fields to write.
LEMMA UpdateIsPatch ==
  ASSUME GroundingAssumption, NEW cs \in Seq(Notes), NEW w, IsUpdate(cs, w)
  PROVE  w \in Patch
<1> USE DEF Patch, IsPatch, Value, Focus, States
<1>1. Unchanged \in Patch
  <2>1. Unchanged \in [{} -> Value]
    BY DEF Unchanged
  <2>2. QED BY <2>1 DEF Unchanged
<1>2. ASSUME NEW n \in Notes \cup {All} PROVE Selects(n) \in Patch
  <2>1. Selects(n) \in [{"focus", "state"} -> Value]
    BY DEF Selects
  <2>2. QED BY <2>1 DEF Selects
<1>3. ASSUME NEW c \in Seq(Notes) \ {<<>>}, NEW n \in Notes \cup {All}
      PROVE  SelectsOf(n, c) \in Patch
  <2>1. SelectsOf(n, c) \in [{"cands", "focus", "state"} -> Value]
    BY DEF SelectsOf
  <2>2. QED BY <2>1 DEF SelectsOf
<1>4. ASSUME NEW c \in Seq(Notes) PROVE Offers(c) \in Patch
  <2>1. Offers(c) \in [{"cands", "focus", "state"} -> Value]
    BY DEF Offers
  <2>2. QED BY <2>1 DEF Offers
<1>5. \A c \in Seq(Notes) \ {<<>>} : c[1] \in Notes
  OBVIOUS
<1>6. \A i \in DOMAIN cs : cs[i] \in Notes
  OBVIOUS
<1> HIDE DEF Patch, IsPatch
<1>7. QED BY <1>1, <1>2, <1>3, <1>4, <1>5, <1>6 DEF IsUpdate

\* A session that was updated is a session, in the mode it had.
LEMMA UpdatedSession ==
  ASSUME NEW s \in Session, NEW w \in Patch
  PROVE  Updated(s, w) \in Session /\ Updated(s, w).mode = s.mode
<1>1. IsPatch(w) /\ DOMAIN s = {"mode", "cands", "focus", "state"}
  BY DEF Patch, Session
<1>2. "mode" \notin DOMAIN w
  BY <1>1 DEF IsPatch
<1>3. QED BY <1>1, <1>2 DEF Updated, Session, IsPatch

\* Of a session's fields an update looks at all but its mode.
LEMMA UpdatedFields ==
  ASSUME NEW s \in Session, NEW w \in Patch
  PROVE  LET u == Updated(s, w) IN
         /\ u.cands = IF "cands" \in DOMAIN w THEN w["cands"] ELSE s.cands
         /\ u.focus = IF "focus" \in DOMAIN w THEN w["focus"] ELSE s.focus
         /\ u.state = IF "state" \in DOMAIN w THEN w["state"] ELSE s.state
BY DEF Updated, Session

\* An update the grounder may make leaves a sound session sound.
LEMMA UpdateIsSound ==
  ASSUME GroundingAssumption, NEW s \in Session, NEW w \in Patch, IsUpdate(s.cands, w), Sound(s)
  PROVE  Sound(Updated(s, w))
<1>1. PICK u : u = Updated(s, w)
  OBVIOUS
<1>2. /\ u.cands = IF "cands" \in DOMAIN w THEN w["cands"] ELSE s.cands
      /\ u.focus = IF "focus" \in DOMAIN w THEN w["focus"] ELSE s.focus
      /\ u.state = IF "state" \in DOMAIN w THEN w["state"] ELSE s.state
  BY <1>1, UpdatedFields
<1>3. CASE w = Unchanged
  BY <1>1, <1>2, <1>3 DEF Sound, Unchanged
<1>4. ASSUME NEW i \in DOMAIN s.cands, w = Selects(s.cands[i]) PROVE Sound(u)
  <2>1. u.cands = s.cands /\ u.focus = s.cands[i] /\ u.state = "FOCUSED"
    BY <1>2, <1>4 DEF Selects
  <2>2. s.cands[i] \in Notes
    BY DEF Session
  <2>3. QED BY <2>1, <2>2 DEF Sound, GroundingAssumption
<1>5. CASE s.cands # <<>> /\ w = Selects(All)
  <2>1. u.cands = s.cands /\ u.focus = All /\ u.state = "FOCUSED"
    BY <1>2, <1>5 DEF Selects
  <2>2. QED BY <1>1, <1>5, <2>1 DEF Sound, GroundingAssumption
<1>6. ASSUME NEW c \in Seq(Notes) \ {<<>>}, w \in {SelectsOf(c[1], c), SelectsOf(All, c), Offers(c)}
      PROVE  Sound(u)
  <2>1. c[1] \in Notes /\ 1 \in DOMAIN c
    OBVIOUS
  <2>2. CASE w = SelectsOf(c[1], c)
    <3>1. u.cands = c /\ u.focus = c[1] /\ u.state = "FOCUSED"
      BY <1>2, <2>2 DEF SelectsOf
    <3>2. QED BY <2>1, <3>1 DEF Sound, GroundingAssumption
  <2>3. CASE w = SelectsOf(All, c)
    <3>1. u.cands = c /\ u.focus = All /\ u.state = "FOCUSED"
      BY <1>2, <2>3 DEF SelectsOf
    <3>2. QED BY <3>1 DEF Sound, GroundingAssumption
  <2>4. CASE w = Offers(c)
    <3>1. u.cands = c /\ u.focus = Nil /\ u.state = "BROWSING"
      BY <1>2, <2>4 DEF Offers
    <3>2. QED BY <3>1 DEF Sound, GroundingAssumption
  <2>5. QED BY <1>6, <2>2, <2>3, <2>4
<1>7. QED BY <1>1, <1>3, <1>4, <1>5, <1>6 DEF IsUpdate
-----------------------------------------------------------------------------
(* What a step does to the requests *)

Places == {"idle"} \cup Sending \cup Deleting

\* What a request holds at first.
LEMMA BlankIsLocal == ASSUME ChatAssumption PROVE Blank \in Local /\ Blank.obj = None
<1>1. (CHOOSE p \in Prompts : TRUE) \in Prompts
  BY DEF ChatAssumption
<1>2. Unchanged \in Patch
  <2>1. Unchanged \in [{} -> Value] /\ DOMAIN Unchanged = {}
    BY DEF Unchanged
  <2>2. QED BY <2>1 DEF Patch, IsPatch
<1>3. "RAG" \in Modes /\ NoMode \in Modes \cup {NoMode}
  BY DEF Modes
<1>4. PICK p \in Prompts : p = CHOOSE q \in Prompts : TRUE
  BY <1>1
<1>5. Blank = [p |-> p, first |-> FALSE, locked |-> NoMode, mode |-> "RAG", obj |-> None,
               w |-> Unchanged, msgs |-> 0, raw |-> 0]
  BY <1>4 DEF Blank
<1>6. None \in Objs \cup {None} /\ 0 \in Int
  OBVIOUS
<1>7. QED BY <1>2, <1>3, <1>4, <1>5, <1>6 DEF Local

\* A session that has been loaded again has no focus and no candidates, which agree.
LEMMA FreshSession == Fresh \in Session /\ (GroundingAssumption => Sound(Fresh))
<1>1. <<>> \in Seq(Notes)
  OBVIOUS
<1>2. Fresh \in Session
  BY <1>1 DEF Fresh, Session, Focus, States
<1>3. ASSUME GroundingAssumption PROVE Sound(Fresh)
  BY <1>3 DEF Fresh, Sound, GroundingAssumption
<1>4. QED BY <1>2, <1>3

\* A request goes on to l with q in hand; the others stay where they are.
Steps(h, l, q) == pc' = [pc EXCEPT ![h] = l] /\ loc' = [loc EXCEPT ![h] = q]
Apart(h) == \A k \in Handlers : k # h => pc'[k] = pc[k] /\ loc'[k] = loc[k]

\* A request that moves on leaves the others where they are.
LEMMA StepsEffect ==
  ASSUME TypeOK, NEW h \in Handlers, NEW l \in Places, NEW q \in Local, Steps(h, l, q)
  PROVE  /\ pc' \in [Handlers -> Places] /\ loc' \in [Handlers -> Local]
         /\ pc'[h] = l /\ loc'[h] = q /\ Apart(h)
BY DEF TypeOK, Steps, Apart, Places

\* A request goes on with the same in hand.
LEMMA GotoEffect ==
  ASSUME TypeOK, NEW h \in Handlers, NEW l \in Places, Goto(h, l), loc' = loc
  PROVE  /\ pc' \in [Handlers -> Places] /\ loc' \in [Handlers -> Local]
         /\ pc'[h] = l /\ loc'[h] = loc[h] /\ Apart(h)
BY DEF TypeOK, Goto, Apart, Places

\* A request that ends holds no object.
LEMMA IdleEffect ==
  ASSUME ChatAssumption, TypeOK, NEW h \in Handlers, Idle(h)
  PROVE  /\ pc' \in [Handlers -> Places] /\ loc' \in [Handlers -> Local]
         /\ pc'[h] = "idle" /\ loc'[h].obj = None /\ Apart(h)
<1>1. Steps(h, "idle", Blank) /\ "idle" \in Places
  BY DEF Idle, Goto, Steps, Places
<1>2. QED BY <1>1, BlankIsLocal, StepsEffect

\* A message that arrives waits to be routed.
LEMMA ReceiveEffect ==
  ASSUME ChatAssumption, TypeOK, NEW h \in Handlers, NEW p \in Prompts, Receive(h, p)
  PROVE  /\ pc' \in [Handlers -> Places] /\ loc' \in [Handlers -> Local]
         /\ pc'[h] = "route" /\ loc'[h].obj = None /\ Apart(h)
<1>1. PICK b \in BOOLEAN : b = (raw = 2)
  OBVIOUS
<1> DEFINE q == [Blank EXCEPT !.p = p, !.first = b]
<1>2. Steps(h, "route", q) /\ "route" \in Places
  BY <1>1 DEF Receive, Goto, Steps, Places, Sending
<1>3. q \in Local /\ q.obj = None
  <2>1. Blank \in Local /\ Blank.obj = None
    BY BlankIsLocal
  <2> DEFINE k == Blank
  <2>2. k \in Local /\ k.obj = None
    BY <2>1
  <2> HIDE DEF k
  <2>3. [k EXCEPT !.p = p, !.first = b] \in Local /\ [k EXCEPT !.p = p, !.first = b].obj = None
    BY <2>2 DEF Local
  <2>4. QED BY <2>3 DEF k
<1> HIDE DEF q
<1>4. QED BY <1>2, <1>3, StepsEffect

\* The mode a message is routed by, and the one the session is kept in.
LEMMA EffectiveMode ==
  ASSUME ChatAssumption, TypeOK, NEW p \in Prompts
  PROVE  Effective(p) \in Modes /\ Locked \in Modes \cup {NoMode}
<1>1. Locked \in Modes \cup {NoMode}
  BY DEF Locked, TypeOK, Session
<1>2. p.mode \in Modes
  BY DEF ChatAssumption
<1>3. QED BY <1>1, <1>2 DEF Effective, Modes

\* Routing leaves the request with the mode of the session, or of the prefix.
LEMMA RouteEffect ==
  ASSUME ChatAssumption, TypeOK, NEW h \in Handlers, Route(h)
  PROVE  /\ pc' \in [Handlers -> Places] /\ loc' \in [Handlers -> Local]
         /\ pc[h] = "route" /\ pc'[h] \in {"explicit", "bypass", "fetch", "persist"} /\ Apart(h)
         /\ loc'[h].obj = loc[h].obj /\ loc'[h].locked = Locked
         /\ loc'[h].mode = Effective(loc[h].p)
<1>1. loc[h] \in Local /\ loc[h].p \in Prompts
  BY DEF TypeOK, Local
<1>2. PICK m \in Modes : m = Effective(loc[h].p)
  BY <1>1, EffectiveMode
<1>3. PICK k \in Modes \cup {NoMode} : k = Locked
  BY <1>1, EffectiveMode
<1>4. PICK b \in Prompts : b = Blank.p
  BY BlankIsLocal DEF Local
<1> DEFINE q == [loc[h] EXCEPT !.p = b, !.locked = k, !.mode = m]
           e == Empty(loc[h].p) /\ m # "RAG"
           l == CASE loc[h].p.refs -> "explicit"
                  [] ~loc[h].p.refs /\ e -> "persist"
                  [] ~loc[h].p.refs /\ ~e ->
                       IF m \in {"BYPASS", "BYPASS_NUANCE"} THEN "bypass" ELSE "fetch"
<1>5. Steps(h, l, q)
  BY <1>2, <1>3, <1>4 DEF Route, Goto, Steps
<1>6. l \in {"explicit", "bypass", "fetch", "persist"}
  <2>1. loc[h].p.refs \in BOOLEAN
    BY <1>1 DEF ChatAssumption
  <2>2. CASE loc[h].p.refs
    BY <2>2
  <2>3. CASE ~loc[h].p.refs /\ e
    BY <2>3
  <2>4. CASE ~loc[h].p.refs /\ ~e
    BY <2>4
  <2>5. QED BY <2>1, <2>2, <2>3, <2>4
<1>7. q \in Local /\ q.obj = loc[h].obj /\ q.locked = k /\ q.mode = m
  <2> DEFINE x == loc[h]
  <2>1. x \in Local
    BY <1>1
  <2> HIDE DEF x
  <2>2. /\ [x EXCEPT !.p = b, !.locked = k, !.mode = m] \in Local
        /\ [x EXCEPT !.p = b, !.locked = k, !.mode = m].obj = x.obj
        /\ [x EXCEPT !.p = b, !.locked = k, !.mode = m].locked = k
        /\ [x EXCEPT !.p = b, !.locked = k, !.mode = m].mode = m
    BY <2>1 DEF Local
  <2>3. QED BY <2>2 DEF x
<1>8. l \in Places
  BY <1>6 DEF Places, Sending
<1> HIDE DEF q, l
<1>9. QED BY <1>2, <1>3, <1>5, <1>6, <1>7, <1>8, StepsEffect DEF Route

\* There is an object for a session that has none in the cache: requests have one each.
LEMMA ObjectIsFree ==
  ASSUME ChatAssumption, TypeOK
  PROVE  /\ Object \in Objs
         /\ cache # None => Object = cache
         /\ cache = None => \A h \in Handlers : loc[h].obj # Object
<1>1. CASE cache # None
  BY <1>1 DEF Object, TypeOK
<1>2. CASE cache = None
  <2>1. Objs \ Held # {}
    <3> SUFFICES ASSUME \A o \in Objs : o \in Held PROVE FALSE
      OBVIOUS
    <3>1. \A o \in Objs : \E h \in Handlers : loc[h].obj = o
      BY <1>2 DEF Held, None, Objs
    <3> DEFINE f == [o \in Objs |-> CHOOSE h \in Handlers : loc[h].obj = o]
    <3>2. f \in [Objs -> Handlers] /\ \A o \in Objs : loc[f[o]].obj = o
      BY <3>1
    <3> HIDE DEF f
    <3>3. Cardinality(Handlers) \in Nat
      BY FS_CardinalityType DEF ChatAssumption
    <3>4. IsFiniteSet(Objs) /\ Cardinality(Objs) = Cardinality(Handlers) + 1
      <4>1. PICK n \in Nat : n = Cardinality(Handlers)
        BY <3>3
      <4>2. IsFiniteSet(1..(n + 1)) /\ Cardinality(1..(n + 1)) = n + 1
        BY FS_Interval
      <4>3. QED BY <4>1, <4>2 DEF Objs
    <3>5. \E a, b \in Objs : a # b /\ f[a] = f[b]
      BY <3>2, <3>3, <3>4, FS_PigeonHole DEF ChatAssumption
    <3>6. QED BY <3>2, <3>5
  <2>2. Object \in Objs \ Held
    BY <1>2, <2>1 DEF Object
  <2>3. QED BY <1>2, <2>2 DEF Held
<1>3. QED BY <1>1, <1>2

\* A request that fetches the session has the object of the store in hand.
LEMMA FetchEffect ==
  ASSUME ChatAssumption, TypeOK, NEW h \in Handlers, Fetch(h)
  PROVE  /\ pc' \in [Handlers -> Places] /\ loc' \in [Handlers -> Local]
         /\ pc[h] = "fetch" /\ pc'[h] = "ground" /\ Apart(h)
         /\ loc'[h].obj = Object /\ Object \in Objs
         /\ loc'[h].locked = loc[h].locked /\ loc'[h].mode = loc[h].mode
<1>1. PICK o \in Objs : o = Object
  BY ObjectIsFree
<1> DEFINE x == loc[h]
           q == [x EXCEPT !.obj = o]
<1>2. x \in Local
  BY DEF TypeOK
<1>3. Steps(h, "ground", q) /\ "ground" \in Places
  BY <1>1 DEF Fetch, Goto, Steps, Places, Sending
<1>4. pc[h] = "fetch"
  BY DEF Fetch
<1> SUFFICES /\ pc' \in [Handlers -> Places] /\ loc' \in [Handlers -> Local]
             /\ pc'[h] = "ground" /\ Apart(h)
             /\ loc'[h].obj = o /\ loc'[h].locked = x.locked /\ loc'[h].mode = x.mode
  BY <1>1, <1>4
<1> HIDE DEF x
<1>5. q \in Local /\ q.obj = o /\ q.locked = x.locked /\ q.mode = x.mode
  BY <1>2 DEF Local
<1> HIDE DEF q
<1>6. QED BY <1>3, <1>5, StepsEffect

\* A grounded message holds an update of the candidates of its object, as they were then.
LEMMA GroundEffect ==
  ASSUME GroundingAssumption, ChatAssumption, TypeOK, NEW h \in Handlers, Ground(h),
         loc[h].obj \in Objs
  PROVE  /\ pc' \in [Handlers -> Places] /\ loc' \in [Handlers -> Local]
         /\ pc[h] = "ground" /\ pc'[h] = "mutate" /\ Apart(h)
         /\ loc'[h].obj = loc[h].obj
         /\ loc'[h].locked = loc[h].locked /\ loc'[h].mode = loc[h].mode
         /\ IsUpdate(heap[loc[h].obj].cands, loc'[h].w)
<1>1. PICK s \in Session : s = heap[loc[h].obj]
  BY DEF TypeOK
<1>2. PICK i \in Intents : \E w \in Updates(s, i) : loc' = [loc EXCEPT ![h].w = w]
  BY <1>1 DEF Ground
<1> PICK w \in Updates(s, i) : loc' = [loc EXCEPT ![h].w = w]
  BY <1>2
<1>3. IsUpdate(s.cands, w)
  BY AllUpdates
<1>4. w \in Patch
  BY <1>3, UpdateIsPatch DEF Session
<1> DEFINE x == loc[h]
           q == [x EXCEPT !.w = w]
<1>5. x \in Local
  BY DEF TypeOK
<1>6. Steps(h, "mutate", q) /\ "mutate" \in Places /\ pc[h] = "ground"
  BY DEF Ground, Goto, Steps, Places, Sending
<1> SUFFICES /\ pc' \in [Handlers -> Places] /\ loc' \in [Handlers -> Local]
             /\ pc'[h] = "mutate" /\ Apart(h)
             /\ loc'[h].obj = x.obj /\ loc'[h].locked = x.locked /\ loc'[h].mode = x.mode
             /\ loc'[h].w = w
  BY <1>1, <1>3, <1>6
<1> HIDE DEF x
<1>7. q \in Local /\ q.obj = x.obj /\ q.locked = x.locked /\ q.mode = x.mode /\ q.w = w
  BY <1>4, <1>5 DEF Local
<1> HIDE DEF q
<1>8. QED BY <1>6, <1>7, StepsEffect

\* Sweeping keeps an object, or makes it as if it had not been.
LEMMA SweptEffect ==
  ASSUME NEW hp \in [Objs -> Session], NEW c, NEW l
  PROVE  LET sw == Swept(hp, c, l) IN
         /\ sw \in [Objs -> Session]
         /\ \A o \in Objs : sw[o] = hp[o] \/ sw[o] = Fresh
         /\ c \in Objs => sw[c] = hp[c]
         /\ \A h \in Handlers : l[h].obj \in Objs => sw[l[h].obj] = hp[l[h].obj]
BY FreshSession DEF Swept

\* A message that cannot be grounded lets go of its object.
LEMMA GroundFailsEffect ==
  ASSUME ChatAssumption, TypeOK, NEW h \in Handlers, GroundFails(h)
  PROVE  /\ pc' \in [Handlers -> Places] /\ loc' \in [Handlers -> Local]
         /\ pc[h] = "ground" /\ pc'[h] = "persist" /\ Apart(h)
         /\ loc'[h].obj = None
         /\ loc'[h].locked = loc[h].locked /\ loc'[h].mode = loc[h].mode
         /\ heap' = Swept(heap, cache, loc')
<1> DEFINE x == loc[h]
           q == [x EXCEPT !.obj = None]
<1>1. x \in Local
  BY DEF TypeOK
<1>2. Steps(h, "persist", q) /\ "persist" \in Places /\ pc[h] = "ground"
  BY DEF GroundFails, Goto, Steps, Places, Sending
<1>3. heap' = Swept(heap, cache, loc')
  BY DEF GroundFails
<1> SUFFICES /\ pc' \in [Handlers -> Places] /\ loc' \in [Handlers -> Local]
             /\ pc'[h] = "persist" /\ Apart(h)
             /\ loc'[h].obj = None /\ loc'[h].locked = x.locked /\ loc'[h].mode = x.mode
  BY <1>2, <1>3
<1> HIDE DEF x
<1>4. q \in Local /\ q.obj = None /\ q.locked = x.locked /\ q.mode = x.mode
  BY <1>1 DEF Local
<1> HIDE DEF q
<1>5. QED BY <1>2, <1>4, StepsEffect

\* An update that was applied leaves the request with no object.
LEMMA MutateEffect ==
  ASSUME ChatAssumption, TypeOK, NEW h \in Handlers, Mutate(h)
  PROVE  /\ pc' \in [Handlers -> Places] /\ loc' \in [Handlers -> Local]
         /\ pc[h] = "mutate" /\ pc'[h] = "persist" /\ Apart(h)
         /\ loc'[h].obj = None
         /\ loc'[h].locked = loc[h].locked /\ loc'[h].mode = loc[h].mode
<1> DEFINE x == loc[h]
           q == [x EXCEPT !.obj = None, !.w = Unchanged]
<1>1. x \in Local /\ Unchanged \in Patch
  BY BlankIsLocal DEF TypeOK, Blank, Local
<1>2. Steps(h, "persist", q) /\ "persist" \in Places /\ pc[h] = "mutate"
  BY DEF Mutate, Goto, Steps, Places, Sending
<1>3. q \in Local /\ q.obj = None /\ q.locked = loc[h].locked /\ q.mode = loc[h].mode
  <2> SUFFICES q \in Local /\ q.obj = None /\ q.locked = x.locked /\ q.mode = x.mode
    OBVIOUS
  <2> HIDE DEF x
  <2>1. QED BY <1>1 DEF Local
<1> HIDE DEF q
<1>4. QED BY <1>2, <1>3, StepsEffect

\* An update is applied to the object in hand, which becomes the one of the store.
LEMMA MutateMemory ==
  ASSUME ChatAssumption, TypeOK, NEW h \in Handlers, Mutate(h), NEW o \in Objs, o = loc[h].obj
  PROVE  \E hp \in [Objs -> Session] :
           /\ cache' = o /\ heap' = Swept(hp, o, loc')
           /\ hp[o] = Updated(heap[o], loc[h].w) /\ hp[o].mode = heap[o].mode
           /\ \A b \in Objs : b # o => hp[b] = heap[b]
<1>1. PICK s \in Session : s = heap[o]
  BY DEF TypeOK
<1>2. PICK w \in Patch : w = loc[h].w
  BY DEF TypeOK, Local
<1>3. Updated(s, w) \in Session /\ Updated(s, w).mode = s.mode
  BY UpdatedSession
<1> DEFINE hp == [heap EXCEPT ![o] = Updated(s, w)]
<1>4. /\ hp \in [Objs -> Session] /\ hp[o] = Updated(s, w)
      /\ \A b \in Objs : b # o => hp[b] = heap[b]
  BY <1>3 DEF TypeOK
<1>5. cache' = o /\ heap' = Swept(hp, o, loc')
  BY <1>1, <1>2 DEF Mutate
<1> HIDE DEF hp
<1>6. QED BY <1>1, <1>2, <1>3, <1>4, <1>5

\* A sticky mode is written into the object of the store, if it is not the mode there is.
LEMMA PersistEffect ==
  ASSUME ChatAssumption, TypeOK, NEW h \in Handlers, Persist(h)
  PROVE  LET m == loc[h].mode new == m \in Sticky /\ m # loc[h].locked IN
         /\ pc' \in [Handlers -> Places] /\ loc' \in [Handlers -> Local]
         /\ pc[h] = "persist" /\ pc'[h] = "save" /\ Apart(h)
         /\ loc'[h].obj = loc[h].obj
         /\ \/ /\ new /\ Object \in Objs /\ cache' = Object
               /\ heap' = [heap EXCEPT ![Object].mode = m]
               /\ firm' = IF Alone(h) THEN m ELSE firm
            \/ ~new /\ UNCHANGED <<heap, cache, firm>>
<1> DEFINE x == loc[h]
           q == [x EXCEPT !.locked = NoMode, !.mode = "RAG"]
<1>1. x \in Local /\ "RAG" \in Modes
  BY DEF TypeOK, Modes
<1>2. Steps(h, "save", q) /\ "save" \in Places /\ pc[h] = "persist"
  BY DEF Persist, Goto, Steps, Places, Sending
<1>3. q \in Local /\ q.obj = loc[h].obj
  <2> SUFFICES q \in Local /\ q.obj = x.obj
    OBVIOUS
  <2> HIDE DEF x
  <2>1. QED BY <1>1 DEF Local
<1> HIDE DEF q
<1>4. /\ pc' \in [Handlers -> Places] /\ loc' \in [Handlers -> Local]
      /\ pc'[h] = "save" /\ Apart(h) /\ loc'[h].obj = loc[h].obj
  BY <1>2, <1>3, StepsEffect
<1>5. Object \in Objs
  BY ObjectIsFree
<1>6. QED BY <1>2, <1>4, <1>5 DEF Persist, memory

\* A deletion that forgets the session has counted its rows.
LEMMA ForgetEffect ==
  ASSUME ChatAssumption, TypeOK, NEW h \in Handlers, Forget(h)
  PROVE  /\ pc' \in [Handlers -> Places] /\ loc' \in [Handlers -> Local]
         /\ pc[h] = "forget" /\ pc'[h] = "commit" /\ Apart(h)
         /\ loc'[h].obj = loc[h].obj /\ loc'[h].msgs = msgs /\ loc'[h].raw = raw
<1> DEFINE x == loc[h]
           q == [x EXCEPT !.msgs = msgs, !.raw = raw]
<1>1. x \in Local /\ msgs \in Int /\ raw \in Int
  BY DEF TypeOK
<1>2. Steps(h, "commit", q) /\ "commit" \in Places /\ pc[h] = "forget"
  BY DEF Forget, Goto, Steps, Places, Deleting
<1> SUFFICES /\ pc' \in [Handlers -> Places] /\ loc' \in [Handlers -> Local]
             /\ pc'[h] = "commit" /\ Apart(h)
             /\ loc'[h].obj = x.obj /\ loc'[h].msgs = msgs /\ loc'[h].raw = raw
  BY <1>2
<1> HIDE DEF x
<1>3. q \in Local /\ q.obj = x.obj /\ q.msgs = msgs /\ q.raw = raw
  BY <1>1 DEF Local
<1> HIDE DEF q
<1>4. QED BY <1>2, <1>3, StepsEffect
-----------------------------------------------------------------------------
(* Type correctness *)

\* Only the requests and the database are concerned.
Outside(h) == \/ \E p \in Prompts : Receive(h, p)
              \/ Route(h) \/ Explicit(h) \/ Bypass(h) \/ Fetch(h) \/ Ground(h)
              \/ Save(h) \/ Fail(h) \/ DeleteSession(h) \/ CommitDelete(h)

\* Statements on rows leave the memory alone.
LEMMA OutsideMemory ==
  ASSUME NEW h \in Handlers, Outside(h)
  PROVE  UNCHANGED <<heap, cache, firm, crossed>>
BY DEF Outside, Receive, Route, Explicit, Bypass, Fetch, Ground, Save, Fail, DeleteSession,
   CommitDelete, memory, history

\* Of the requests' places and objects, what each of these steps does.
LEMMA OutsideStep ==
  ASSUME GroundingAssumption, ChatAssumption, TypeOK, ObjInv, NEW h \in Handlers, Outside(h)
  PROVE  /\ pc' \in [Handlers -> Places] /\ loc' \in [Handlers -> Local] /\ Apart(h)
         /\ pc'[h] \in {"ground", "mutate"} <=> loc'[h].obj # None
         /\ \/ loc'[h].obj = loc[h].obj \/ loc'[h].obj = None
            \/ pc[h] = "fetch" /\ pc'[h] = "ground" /\ loc'[h].obj = Object
         /\ pc'[h] = "mutate" => Ground(h)
<1>1. ASSUME NEW p \in Prompts, Receive(h, p)
      PROVE  /\ pc' \in [Handlers -> Places] /\ loc' \in [Handlers -> Local] /\ Apart(h)
             /\ pc'[h] = "route" /\ loc'[h].obj = None
  BY <1>1, ReceiveEffect
<1>2. CASE Route(h)
  BY <1>2, RouteEffect DEF ObjInv
<1>3. CASE Explicit(h) \/ Bypass(h) \/ DeleteSession(h)
  <2>1. PICK l \in {"save", "persist", "forget"} : Goto(h, l) /\ loc' = loc
    BY <1>3 DEF Explicit, Bypass, DeleteSession
  <2>2. l \in Places /\ pc[h] \notin {"ground", "mutate"}
    BY <1>3 DEF Places, Sending, Deleting, Explicit, Bypass, DeleteSession
  <2>3. QED BY <2>1, <2>2, GotoEffect DEF ObjInv
<1>4. CASE Fetch(h)
  <2>1. Object # None
    BY ObjectIsFree DEF Objs, None
  <2>2. QED BY <1>4, <2>1, FetchEffect
<1>5. CASE Ground(h)
  <2>1. loc[h].obj \in Objs
    BY <1>5 DEF Ground, ObjInv, TypeOK, Local
  <2>2. QED BY <1>5, <2>1, GroundEffect DEF ObjInv
<1>6. CASE Save(h) \/ Fail(h) \/ CommitDelete(h)
  BY <1>6, IdleEffect DEF Save, Fail, CommitDelete
<1>7. QED BY <1>1, <1>2, <1>3, <1>4, <1>5, <1>6 DEF Outside

\* Statements on rows leave rows.
LEMMA OutsideRows ==
  ASSUME TypeOK, NEW h \in Handlers, Outside(h)
  PROVE  /\ row' \in [st : {"none", "live", "deleted"}, titled : BOOLEAN]
         /\ msgs' \in Int /\ raw' \in Int /\ raced' \in BOOLEAN
<1>1. CASE Save(h)
  <2>1. row' = IF loc[h].first THEN [st |-> "live", titled |-> TRUE] ELSE row
    BY <1>1 DEF Save
  <2>2. msgs' = msgs + 2 /\ raw' = raw + 2 /\ raced' = raced
    BY <1>1 DEF Save, history
  <2>3. QED BY <2>1, <2>2 DEF TypeOK
<1>2. CASE CommitDelete(h)
  <2>1. loc[h].msgs \in Int /\ loc[h].raw \in Int
    BY DEF TypeOK, Local
  <2>2. \/ /\ row' = [row EXCEPT !.st = "deleted"]
           /\ msgs' = msgs - loc[h].msgs /\ raw' = raw - loc[h].raw
        \/ UNCHANGED <<row, msgs, raw>>
    BY <1>2 DEF CommitDelete, rows
  <2>3. raced' = raced
    BY <1>2 DEF CommitDelete, history
  <2>4. QED BY <2>1, <2>2, <2>3 DEF TypeOK
<1>3. CASE ~Save(h) /\ ~CommitDelete(h)
  <2>1. UNCHANGED <<row, msgs, raw>>
    BY <1>3 DEF Outside, Receive, Route, Explicit, Bypass, Fetch, Ground, Fail, DeleteSession, rows
  <2>2. raced' = raced \/ raced' \in BOOLEAN
    BY <1>3 DEF Outside, Receive, Route, Explicit, Bypass, Fetch, Ground, Fail, DeleteSession,
       history, Busy
  <2>3. QED BY <2>1, <2>2 DEF TypeOK
<1>4. QED BY <1>1, <1>2, <1>3

\* Every step keeps the types.
LEMMA TypeStep ==
  ASSUME GroundingAssumption, ChatAssumption, TypeOK, ObjInv, [Next]_vars
  PROVE  TypeOK'
<1> USE DEF Places
<1>1. CASE CreateSession
  BY <1>1 DEF CreateSession, TypeOK, memory, history
<1>2. ASSUME NEW h \in Handlers, Outside(h) PROVE TypeOK'
  BY <1>2, OutsideMemory, OutsideStep, OutsideRows DEF TypeOK
<1>3. ASSUME NEW h \in Handlers, GroundFails(h) PROVE TypeOK'
  <2>1. heap' \in [Objs -> Session]
    BY <1>3, GroundFailsEffect, SweptEffect DEF TypeOK
  <2>2. UNCHANGED <<row, msgs, raw, cache, firm, crossed, raced>>
    BY <1>3 DEF GroundFails, rows, history
  <2>3. QED BY <1>3, <2>1, <2>2, GroundFailsEffect DEF TypeOK
<1>4. ASSUME NEW h \in Handlers, Mutate(h) PROVE TypeOK'
  <2>1. loc[h].obj \in Objs
    BY <1>4 DEF Mutate, ObjInv, TypeOK, Local
  <2>2. pc' \in [Handlers -> Places] /\ loc' \in [Handlers -> Local]
    BY <1>4, MutateEffect
  <2>3. cache' \in Objs /\ heap' \in [Objs -> Session]
    BY <1>4, <2>1, MutateMemory, SweptEffect
  <2>4. UNCHANGED <<row, msgs, raw, firm, raced>> /\ crossed' \in BOOLEAN
    BY <1>4 DEF Mutate, rows, TypeOK
  <2>5. QED BY <2>2, <2>3, <2>4 DEF TypeOK
<1>5. ASSUME NEW h \in Handlers, Persist(h) PROVE TypeOK'
  <2>1. UNCHANGED <<row, msgs, raw, crossed, raced>>
    BY <1>5 DEF Persist, rows
  <2>2. pc' \in [Handlers -> Places] /\ loc' \in [Handlers -> Local]
    BY <1>5, PersistEffect
  <2>3. heap' \in [Objs -> Session] /\ cache' \in Objs \cup {None} /\ firm' \in Sticky \cup {NoMode}
    <3>1. CASE UNCHANGED <<heap, cache, firm>>
      BY <3>1 DEF TypeOK
    <3>2. CASE /\ loc[h].mode \in Sticky /\ Object \in Objs /\ cache' = Object
               /\ heap' = [heap EXCEPT ![Object].mode = loc[h].mode]
               /\ firm' = IF Alone(h) THEN loc[h].mode ELSE firm
      <4>1. PICK m \in Sticky : m = loc[h].mode
        BY <3>2
      <4>2. m \in Modes
        BY DEF Modes
      <4>3. [heap[Object] EXCEPT !.mode = m] \in Session
        BY <3>2, <4>2 DEF TypeOK, Session
      <4>4. heap' = [heap EXCEPT ![Object] = [heap[Object] EXCEPT !.mode = m]]
        BY <3>2, <4>1
      <4>5. heap' \in [Objs -> Session]
        BY <3>2, <4>3, <4>4 DEF TypeOK
      <4>6. QED BY <3>2, <4>1, <4>5 DEF TypeOK
    <3>3. QED BY <1>5, <3>1, <3>2, PersistEffect
  <2>4. QED BY <2>1, <2>2, <2>3 DEF TypeOK
<1>6. ASSUME NEW h \in Handlers, Forget(h) PROVE TypeOK'
  <2>1. heap' \in [Objs -> Session] /\ cache' = None /\ firm' = NoMode
    BY <1>6, SweptEffect DEF TypeOK, Forget
  <2>2. UNCHANGED <<row, msgs, raw, crossed, raced>>
    BY <1>6 DEF Forget, rows
  <2>3. QED BY <1>6, <2>1, <2>2, ForgetEffect DEF TypeOK
<1>7. CASE Expire
  <2>1. heap' \in [Objs -> Session] /\ cache' = None /\ firm' = NoMode
    BY <1>7, SweptEffect DEF TypeOK, Expire
  <2>2. QED BY <1>7, <2>1 DEF Expire, TypeOK, rows
<1>8. CASE Restart
  <2>1. heap' \in [Objs -> Session] /\ loc' \in [Handlers -> Local]
    BY <1>8, FreshSession, BlankIsLocal DEF Restart
  <2>2. QED BY <1>8, <2>1 DEF Restart, TypeOK, rows
<1>9. CASE UNCHANGED vars
  BY <1>9 DEF vars, rows, memory, history, TypeOK
<1>10. QED BY <1>1, <1>2, <1>3, <1>4, <1>5, <1>6, <1>7, <1>8, <1>9 DEF Next, Outside

\* Every step keeps ObjInv: a message has an object in hand from Fetch until its update is
\* applied.
LEMMA ObjStep ==
  ASSUME GroundingAssumption, ChatAssumption, TypeOK, ObjInv, [Next]_vars
  PROVE  ObjInv'
<1>1. CASE CreateSession \/ Expire \/ UNCHANGED vars
  BY <1>1 DEF CreateSession, Expire, vars, ObjInv
<1>2. ASSUME NEW h \in Handlers, Outside(h) PROVE ObjInv'
  BY <1>2, OutsideStep DEF ObjInv, Apart
<1>3. ASSUME NEW h \in Handlers, GroundFails(h) PROVE ObjInv'
  BY <1>3, GroundFailsEffect DEF ObjInv, Apart
<1>4. ASSUME NEW h \in Handlers, Mutate(h) PROVE ObjInv'
  BY <1>4, MutateEffect DEF ObjInv, Apart
<1>5. ASSUME NEW h \in Handlers, Persist(h) PROVE ObjInv'
  <2>1. pc[h] = "persist" /\ pc'[h] = "save" /\ Apart(h) /\ loc'[h].obj = loc[h].obj
    BY <1>5, PersistEffect
  <2>2. QED BY <2>1 DEF ObjInv, Apart
<1>6. ASSUME NEW h \in Handlers, Forget(h) PROVE ObjInv'
  <2>1. pc[h] = "forget" /\ pc'[h] = "commit" /\ Apart(h) /\ loc'[h].obj = loc[h].obj
    BY <1>6, ForgetEffect
  <2>2. QED BY <2>1 DEF ObjInv, Apart
<1>7. CASE Restart
  BY <1>7, BlankIsLocal DEF Restart, ObjInv
<1>8. QED BY <1>1, <1>2, <1>3, <1>4, <1>5, <1>6, <1>7 DEF Next, Outside
-----------------------------------------------------------------------------
(* Candidates, focus and state agree *)

\* Objects nobody can reach are cleared, which leaves those that are reached as sound as they
\* were.
LEMMA SweptSound ==
  ASSUME GroundingAssumption, TypeOK', ObjInv', NEW hp \in [Objs -> Session], NEW c,
         heap' = Swept(hp, c, loc'), \A o \in Objs : Sound(hp[o]),
         \A k \in Handlers : pc'[k] = "mutate" => Sound(Updated(hp[loc'[k].obj], loc'[k].w))
  PROVE  /\ \A o \in Objs : Sound(heap'[o])
         /\ \A k \in Handlers : pc'[k] = "mutate" => Sound(Updated(heap'[loc'[k].obj], loc'[k].w))
<1>1. \A o \in Objs : heap'[o] = hp[o] \/ heap'[o] = Fresh
  BY SweptEffect
<1>2. \A k \in Handlers : loc'[k].obj \in Objs => heap'[loc'[k].obj] = hp[loc'[k].obj]
  BY SweptEffect
<1>3. \A k \in Handlers : pc'[k] = "mutate" => loc'[k].obj \in Objs
  BY DEF ObjInv, TypeOK, Local
<1>4. QED BY <1>1, <1>2, <1>3, FreshSession

\* The mode is nothing to it.
LEMMA ModeAside ==
  ASSUME NEW s \in Session, NEW t \in Session,
         t.cands = s.cands, t.focus = s.focus, t.state = s.state
  PROVE  /\ Sound(s) => Sound(t)
         /\ \A w \in Patch : Sound(Updated(s, w)) => Sound(Updated(t, w))
<1>1. Sound(s) => Sound(t)
  BY DEF Sound
<1>2. ASSUME NEW w \in Patch, Sound(Updated(s, w)) PROVE Sound(Updated(t, w))
  <2>1. PICK u : u = Updated(s, w)
    OBVIOUS
  <2>2. PICK v : v = Updated(t, w)
    OBVIOUS
  <2>3. u.cands = v.cands /\ u.focus = v.focus /\ u.state = v.state
    BY <2>1, <2>2, UpdatedFields
  <2>4. Sound(u)
    BY <1>2, <2>1
  <2>5. Sound(v)
    BY <2>3, <2>4 DEF Sound
  <2>6. QED BY <2>2, <2>5
<1>3. QED BY <1>1, <1>2

\* Every step keeps SoundInv.
LEMMA SoundStep ==
  ASSUME GroundingAssumption, ChatAssumption, TypeOK, ObjInv, TypeOK', ObjInv', SoundInv,
         [Next]_vars
  PROVE  SoundInv'
<1> SUFFICES ASSUME ~crossed'
             PROVE  /\ \A o \in Objs : Sound(heap'[o])
                    /\ \A k \in Handlers : pc'[k] = "mutate" =>
                                             Sound(Updated(heap'[loc'[k].obj], loc'[k].w))
  BY DEF SoundInv
<1>1. ASSUME ~crossed
      PROVE  /\ \A o \in Objs : Sound(heap[o])
             /\ \A k \in Handlers : pc[k] = "mutate" => Sound(Updated(heap[loc[k].obj], loc[k].w))
  BY <1>1 DEF SoundInv
<1>2. CASE CreateSession \/ UNCHANGED vars
  <2>1. UNCHANGED <<heap, crossed, pc, loc>>
    BY <1>2 DEF CreateSession, vars, memory, history
  <2>2. QED BY <1>1, <2>1
<1>3. ASSUME NEW h \in Handlers, Outside(h)
      PROVE  /\ \A o \in Objs : Sound(heap'[o])
             /\ \A k \in Handlers :
                  pc'[k] = "mutate" => Sound(Updated(heap'[loc'[k].obj], loc'[k].w))
  <2>1. heap' = heap /\ ~crossed
    BY <1>3, OutsideMemory
  <2>2. Apart(h) /\ (pc'[h] = "mutate" => Ground(h))
    BY <1>3, OutsideStep
  <2>3. ASSUME pc'[h] = "mutate" PROVE Sound(Updated(heap'[loc'[h].obj], loc'[h].w))
    <3>1. Ground(h)
      BY <2>2, <2>3
    <3>2. loc[h].obj \in Objs
      BY <3>1 DEF Ground, ObjInv, TypeOK, Local
    <3>3. loc'[h].obj = loc[h].obj /\ IsUpdate(heap[loc[h].obj].cands, loc'[h].w)
      BY <3>1, <3>2, GroundEffect
    <3>4. loc'[h].w \in Patch
      BY DEF TypeOK, Local
    <3>5. heap[loc[h].obj] \in Session /\ Sound(heap[loc[h].obj])
      BY <1>1, <2>1, <3>2 DEF TypeOK
    <3>6. Sound(Updated(heap[loc[h].obj], loc'[h].w))
      BY <3>3, <3>4, <3>5, UpdateIsSound
    <3>7. QED BY <2>1, <3>3, <3>6
  <2>4. QED BY <1>1, <2>1, <2>2, <2>3 DEF Apart
<1>4. ASSUME NEW h \in Handlers, GroundFails(h)
      PROVE  /\ \A o \in Objs : Sound(heap'[o])
             /\ \A k \in Handlers :
                  pc'[k] = "mutate" => Sound(Updated(heap'[loc'[k].obj], loc'[k].w))
  <2>1. Apart(h) /\ pc'[h] = "persist" /\ heap' = Swept(heap, cache, loc')
    BY <1>4, GroundFailsEffect
  <2>2. ~crossed
    BY <1>4 DEF GroundFails, history
  <2>3. \A k \in Handlers : pc'[k] = "mutate" => Sound(Updated(heap[loc'[k].obj], loc'[k].w))
    BY <1>1, <2>1, <2>2 DEF Apart
  <2>4. QED BY <1>1, <2>1, <2>2, <2>3, SweptSound DEF TypeOK
<1>5. ASSUME NEW h \in Handlers, Mutate(h)
      PROVE  /\ \A o \in Objs : Sound(heap'[o])
             /\ \A k \in Handlers :
                  pc'[k] = "mutate" => Sound(Updated(heap'[loc'[k].obj], loc'[k].w))
  <2>1. pc[h] = "mutate" /\ pc'[h] = "persist" /\ Apart(h)
    BY <1>5, MutateEffect
  <2>2. PICK o \in Objs : o = loc[h].obj
    BY <2>1 DEF ObjInv, TypeOK, Local
  <2>3. PICK hp \in [Objs -> Session] :
          /\ heap' = Swept(hp, o, loc')
          /\ hp[o] = Updated(heap[o], loc[h].w)
          /\ \A b \in Objs : b # o => hp[b] = heap[b]
    BY <1>5, <2>2, MutateMemory
  <2>4. ~crossed /\ \A k \in Handlers : k # h /\ pc[k] = "mutate" => loc[k].obj # o
    BY <1>5, <2>2 DEF Mutate
  <2>5. \A b \in Objs : Sound(hp[b])
    BY <1>1, <2>1, <2>2, <2>3, <2>4
  <2>6. ASSUME NEW k \in Handlers, pc'[k] = "mutate"
        PROVE  Sound(Updated(hp[loc'[k].obj], loc'[k].w))
    <3>1. k # h /\ pc[k] = "mutate" /\ loc'[k] = loc[k]
      BY <2>1, <2>6 DEF Apart
    <3>2. loc[k].obj \in Objs /\ loc[k].obj # o
      BY <2>4, <3>1 DEF ObjInv, TypeOK, Local
    <3>3. QED BY <1>1, <2>3, <2>4, <3>1, <3>2
  <2>7. QED BY <2>3, <2>5, <2>6, SweptSound
<1>6. ASSUME NEW h \in Handlers, Persist(h)
      PROVE  /\ \A o \in Objs : Sound(heap'[o])
             /\ \A k \in Handlers :
                  pc'[k] = "mutate" => Sound(Updated(heap'[loc'[k].obj], loc'[k].w))
  <2>1. pc'[h] = "save" /\ Apart(h) /\ ~crossed
    BY <1>6, PersistEffect DEF Persist
  <2>2. heap' = heap \/ \E m : Object \in Objs /\ heap' = [heap EXCEPT ![Object].mode = m]
    BY <1>6, PersistEffect
  <2>3. \A o \in Objs : /\ heap[o] \in Session /\ heap'[o] \in Session
                        /\ heap'[o].cands = heap[o].cands /\ heap'[o].focus = heap[o].focus
                        /\ heap'[o].state = heap[o].state
    <3>1. CASE heap' = heap
      BY <3>1 DEF TypeOK
    <3>2. ASSUME NEW m, Object \in Objs, heap' = [heap EXCEPT ![Object].mode = m]
          PROVE  \A o \in Objs : /\ heap[o] \in Session /\ heap'[o] \in Session
                        /\ heap'[o].cands = heap[o].cands /\ heap'[o].focus = heap[o].focus
                        /\ heap'[o].state = heap[o].state
      <4>1. \A o \in Objs : heap[o] \in Session /\ heap'[o] \in Session
        BY DEF TypeOK
      <4>2. \A o \in Objs : heap'[o] = IF o = Object THEN [heap[o] EXCEPT !.mode = m] ELSE heap[o]
        BY <3>2 DEF TypeOK
      <4>3. QED BY <4>1, <4>2 DEF Session
    <3>3. QED BY <2>2, <3>1, <3>2
  <2>4. \A k \in Handlers : pc'[k] = "mutate" =>
           /\ pc[k] = "mutate" /\ loc'[k] = loc[k] /\ loc[k].obj \in Objs /\ loc[k].w \in Patch
    BY <2>1 DEF Apart, ObjInv, TypeOK, Local
  <2>5. QED BY <1>1, <2>1, <2>3, <2>4, ModeAside
<1>7. CASE Expire \/ \E h \in Handlers : Forget(h)
  <2>1. /\ heap' = Swept(heap, None, loc) /\ ~crossed
        /\ \A k \in Handlers : loc'[k].obj = loc[k].obj
        /\ \A k \in Handlers : pc'[k] = "mutate" => pc[k] = "mutate" /\ loc'[k] = loc[k]
    <3>1. CASE Expire
      BY <3>1 DEF Expire
    <3>2. ASSUME NEW h \in Handlers, Forget(h)
          PROVE  /\ heap' = Swept(heap, None, loc) /\ ~crossed
                 /\ \A k \in Handlers : loc'[k].obj = loc[k].obj
                 /\ \A k \in Handlers : pc'[k] = "mutate" => pc[k] = "mutate" /\ loc'[k] = loc[k]
      <4>1. heap' = Swept(heap, None, loc) /\ ~crossed
        BY <3>2 DEF Forget
      <4>2. QED BY <3>2, <4>1, ForgetEffect DEF Apart
    <3>3. QED BY <1>7, <3>1, <3>2
  <2>2. heap' = Swept(heap, None, loc')
    BY <2>1 DEF Swept
  <2>3. QED BY <1>1, <2>1, <2>2, SweptSound DEF TypeOK
<1>8. CASE Restart
  BY <1>8, FreshSession DEF Restart
<1>9. QED BY <1>2, <1>3, <1>4, <1>5, <1>6, <1>7, <1>8 DEF Next, Outside
-----------------------------------------------------------------------------
(* The mode of a session *)

\* Every step keeps FirmInv.
LEMMA FirmStep ==
  ASSUME GroundingAssumption, ChatAssumption, TypeOK, ObjInv, FirmInv, TypeOK', ObjInv', [Next]_vars
  PROVE  FirmInv'
<1> SUFFICES ASSUME firm' # NoMode
             PROVE  /\ cache' # None /\ heap'[cache'].mode = firm'
                    /\ \A k \in Handlers :
                         /\ pc'[k] \in Routed => loc'[k].locked = firm' /\ loc'[k].mode = firm'
                         /\ loc'[k].obj \in {None, cache'}
  BY DEF FirmInv
<1>1. ASSUME firm # NoMode
      PROVE  /\ cache \in Objs /\ cache # None /\ heap[cache].mode = firm /\ firm \in Sticky
             /\ Locked = firm
             /\ \A k \in Handlers :
                  /\ pc[k] \in Routed => loc[k].locked = firm /\ loc[k].mode = firm
                  /\ loc[k].obj \in {None, cache}
  BY <1>1 DEF FirmInv, TypeOK, Locked
<1>2. CASE CreateSession \/ UNCHANGED vars
  <2>1. UNCHANGED <<heap, cache, firm, pc, loc>>
    BY <1>2 DEF CreateSession, vars, memory, history
  <2>2. QED BY <1>1, <2>1
<1>3. ASSUME NEW h \in Handlers, Outside(h)
      PROVE  /\ cache' # None /\ heap'[cache'].mode = firm'
             /\ \A k \in Handlers :
                  /\ pc'[k] \in Routed => loc'[k].locked = firm' /\ loc'[k].mode = firm'
                  /\ loc'[k].obj \in {None, cache'}
  <2>1. UNCHANGED <<heap, cache, firm>> /\ firm # NoMode
    BY <1>3, OutsideMemory
  <2>2. Apart(h) /\ (loc'[h].obj \in {loc[h].obj, None, Object})
    BY <1>3, OutsideStep
  <2>3. Object = cache
    BY <1>1, <2>1, ObjectIsFree
  <2>4. pc'[h] \in Routed => loc'[h].locked = firm /\ loc'[h].mode = firm
    <3>1. ASSUME NEW p \in Prompts, Receive(h, p) PROVE pc'[h] \notin Routed
      BY <3>1, ReceiveEffect DEF Routed
    <3>2. CASE Route(h)
      <4>1. loc'[h].locked = Locked /\ loc'[h].mode = Effective(loc[h].p)
        BY <3>2, RouteEffect
      <4>2. Effective(loc[h].p) = firm
        BY <1>1, <2>1 DEF Effective
      <4>3. QED BY <1>1, <2>1, <4>1, <4>2
    <3>3. CASE Explicit(h) \/ Bypass(h) \/ DeleteSession(h)
      <4>1. PICK l \in {"save", "persist", "forget"} :
              /\ Goto(h, l) /\ loc' = loc /\ (l = "persist" => pc[h] \in Routed)
        BY <3>3 DEF Explicit, Bypass, DeleteSession, Routed
      <4>2. pc'[h] = l
        BY <4>1 DEF Goto, TypeOK
      <4>3. QED BY <1>1, <2>1, <4>1, <4>2 DEF Routed
    <3>4. CASE Fetch(h)
      BY <1>1, <2>1, <3>4, FetchEffect DEF Routed
    <3>5. CASE Ground(h)
      <4>1. loc[h].obj \in Objs
        BY <3>5 DEF Ground, ObjInv, TypeOK, Local
      <4>2. QED BY <1>1, <2>1, <3>5, <4>1, GroundEffect DEF Routed
    <3>6. CASE Save(h) \/ Fail(h) \/ CommitDelete(h)
      <4>1. pc'[h] = "idle"
        BY <3>6, IdleEffect DEF Save, Fail, CommitDelete
      <4>2. QED BY <4>1 DEF Routed
    <3>7. QED BY <1>3, <3>1, <3>2, <3>3, <3>4, <3>5, <3>6 DEF Outside
  <2>5. QED BY <1>1, <2>1, <2>2, <2>3, <2>4 DEF Apart
<1>4. ASSUME NEW h \in Handlers, GroundFails(h)
      PROVE  /\ cache' # None /\ heap'[cache'].mode = firm'
             /\ \A k \in Handlers :
                  /\ pc'[k] \in Routed => loc'[k].locked = firm' /\ loc'[k].mode = firm'
                  /\ loc'[k].obj \in {None, cache'}
  <2>1. UNCHANGED <<cache, firm>> /\ firm # NoMode
    BY <1>4 DEF GroundFails, history
  <2>2. /\ pc[h] = "ground" /\ Apart(h) /\ loc'[h].obj = None
        /\ loc'[h].locked = loc[h].locked /\ loc'[h].mode = loc[h].mode
        /\ heap' = Swept(heap, cache, loc')
    BY <1>4, GroundFailsEffect
  <2>3. heap'[cache] = heap[cache]
    BY <1>1, <2>1, <2>2, SweptEffect DEF TypeOK
  <2>4. QED BY <1>1, <2>1, <2>2, <2>3 DEF Apart, Routed
<1>5. ASSUME NEW h \in Handlers, Mutate(h)
      PROVE  /\ cache' # None /\ heap'[cache'].mode = firm'
             /\ \A k \in Handlers :
                  /\ pc'[k] \in Routed => loc'[k].locked = firm' /\ loc'[k].mode = firm'
                  /\ loc'[k].obj \in {None, cache'}
  <2>1. firm' = firm /\ firm # NoMode
    BY <1>5 DEF Mutate
  <2>2. /\ pc[h] = "mutate" /\ Apart(h) /\ loc'[h].obj = None
        /\ loc'[h].locked = loc[h].locked /\ loc'[h].mode = loc[h].mode
    BY <1>5, MutateEffect
  <2>3. loc[h].obj = cache
    BY <1>1, <2>1, <2>2 DEF ObjInv
  <2>4. PICK hp \in [Objs -> Session] :
          /\ cache' = cache /\ heap' = Swept(hp, cache, loc') /\ hp[cache].mode = heap[cache].mode
    BY <1>1, <1>5, <2>1, <2>3, MutateMemory
  <2>5. heap'[cache] = hp[cache]
    BY <1>1, <2>1, <2>4, SweptEffect
  <2>6. QED BY <1>1, <2>1, <2>2, <2>4, <2>5 DEF Apart, Routed
<1>6. ASSUME NEW h \in Handlers, Persist(h)
      PROVE  /\ cache' # None /\ heap'[cache'].mode = firm'
             /\ \A k \in Handlers :
                  /\ pc'[k] \in Routed => loc'[k].locked = firm' /\ loc'[k].mode = firm'
                  /\ loc'[k].obj \in {None, cache'}
  <2>1. pc[h] = "persist" /\ pc'[h] = "save" /\ Apart(h) /\ loc'[h].obj = loc[h].obj
    BY <1>6, PersistEffect
  <2>2. loc[h].obj = None
    BY <2>1 DEF ObjInv
  <2>3. CASE UNCHANGED <<heap, cache, firm>>
    BY <1>1, <2>1, <2>3 DEF Apart, Routed
  <2>4. CASE /\ loc[h].mode \in Sticky /\ loc[h].mode # loc[h].locked
             /\ Object \in Objs /\ cache' = Object
             /\ heap' = [heap EXCEPT ![Object].mode = loc[h].mode]
             /\ firm' = IF Alone(h) THEN loc[h].mode ELSE firm
    <3>1. firm = NoMode
      <4>1. SUFFICES ASSUME firm # NoMode PROVE FALSE
        OBVIOUS
      <4>2. loc[h].locked = firm /\ loc[h].mode = firm
        BY <1>1, <2>1, <4>1 DEF Routed
      <4>3. QED BY <2>4, <4>2
    <3>2. Alone(h) /\ firm' = loc[h].mode
      BY <2>4, <3>1
    <3>3. cache' # None
      BY <2>4 DEF Objs, None
    <3>4. heap'[cache'].mode = loc[h].mode
      <4>1. PICK o \in Objs : o = Object
        BY <2>4
      <4>2. PICK m : m = loc[h].mode
        OBVIOUS
      <4>3. heap'[o] = [heap[o] EXCEPT !.mode = m] /\ heap[o] \in Session
        BY <2>4, <4>1, <4>2 DEF TypeOK
      <4>4. heap'[o].mode = m
        BY <4>3 DEF Session
      <4>5. QED BY <2>4, <4>1, <4>2, <4>4
    <3>5. \A k \in Handlers : pc'[k] \notin Routed /\ loc'[k].obj = None
      <4>1. ASSUME NEW k \in Handlers, k # h PROVE pc'[k] = "idle" /\ loc'[k].obj = None
        BY <2>1, <3>2, <4>1 DEF Alone, Apart, ObjInv
      <4>2. QED BY <2>1, <2>2, <4>1 DEF Routed
    <3>6. QED BY <3>2, <3>3, <3>4, <3>5
  <2>5. QED BY <1>6, <2>3, <2>4, PersistEffect
<1>7. CASE Expire \/ Restart \/ \E h \in Handlers : Forget(h)
  BY <1>7 DEF Expire, Restart, Forget
<1>8. QED BY <1>2, <1>3, <1>4, <1>5, <1>6, <1>7 DEF Next, Outside
-----------------------------------------------------------------------------
(* What a deletion leaves *)

\* A message being handled goes on, and leaves the rows alone.
LEMMA SendingOn ==
  ASSUME GroundingAssumption, ChatAssumption, TypeOK, ObjInv, NEW h \in Handlers,
         \/ Route(h) \/ Explicit(h) \/ Bypass(h) \/ Fetch(h) \/ Ground(h) \/ GroundFails(h)
         \/ Mutate(h) \/ Persist(h)
  PROVE  /\ pc[h] \in Sending /\ pc'[h] \in Sending /\ Apart(h)
         /\ UNCHANGED <<row, msgs, raw, raced>>
<1> USE DEF Sending
<1>1. UNCHANGED <<row, msgs, raw, raced>>
  BY DEF Route, Explicit, Bypass, Fetch, Ground, GroundFails, Mutate, Persist, rows, history
<1>2. CASE Route(h)
  BY <1>1, <1>2, RouteEffect
<1>3. CASE Explicit(h) \/ Bypass(h)
  <2>1. PICK l \in {"save", "persist"} : Goto(h, l) /\ loc' = loc /\ pc[h] \in Sending
    BY <1>3 DEF Explicit, Bypass
  <2>2. l \in Places
    BY DEF Places
  <2>3. QED BY <1>1, <2>1, <2>2, GotoEffect
<1>4. CASE Fetch(h)
  BY <1>1, <1>4, FetchEffect
<1>5. CASE Ground(h)
  <2>1. loc[h].obj \in Objs
    BY <1>5 DEF Ground, ObjInv, TypeOK, Local
  <2>2. QED BY <1>1, <1>5, <2>1, GroundEffect
<1>6. CASE GroundFails(h)
  BY <1>1, <1>6, GroundFailsEffect
<1>7. CASE Mutate(h)
  BY <1>1, <1>7, MutateEffect
<1>8. CASE Persist(h)
  <2>1. pc[h] = "persist" /\ pc'[h] = "save" /\ Apart(h)
    BY <1>8, PersistEffect
  <2>2. QED BY <1>1, <2>1
<1>9. QED BY <1>2, <1>3, <1>4, <1>5, <1>6, <1>7, <1>8

\* Every step keeps DeleteInv.
LEMMA DeleteStep ==
  ASSUME GroundingAssumption, ChatAssumption, TypeOK, ObjInv, DeleteInv, [Next]_vars
  PROVE  DeleteInv'
<1> USE DEF Sending, Deleting
<1>1. CASE CreateSession
  <2>1. row.st = "none" /\ row'.st = "live" /\ UNCHANGED <<pc, loc, cache, raced>>
    BY <1>1 DEF CreateSession, memory, history
  <2>2. QED BY <2>1 DEF DeleteInv
<1>2. ASSUME NEW h \in Handlers, NEW p \in Prompts, Receive(h, p) PROVE DeleteInv'
  <2>1. /\ pc[h] = "idle" /\ row.st = "live" /\ raced' = (raced \/ Busy(Deleting))
        /\ UNCHANGED <<row, msgs, raw, cache>>
    BY <1>2 DEF Receive, rows, memory
  <2>2. pc'[h] = "route" /\ Apart(h)
    BY <1>2, ReceiveEffect
  <2>3. ~raced' => ~raced /\ \A k \in Handlers : pc[k] \notin Deleting
    BY <2>1 DEF Busy
  <2>4. QED BY <2>1, <2>2, <2>3 DEF DeleteInv, Apart
<1>3. ASSUME NEW h \in Handlers,
             \/ Route(h) \/ Explicit(h) \/ Bypass(h) \/ Fetch(h) \/ Ground(h) \/ GroundFails(h)
             \/ Mutate(h) \/ Persist(h)
      PROVE  DeleteInv'
  <2>1. /\ pc[h] \in Sending /\ pc'[h] \in Sending /\ Apart(h)
        /\ UNCHANGED <<row, msgs, raw, raced>>
    BY <1>3, SendingOn
  <2>2. pc'[h] # "commit" /\ pc[h] # "idle"
    BY <2>1
  <2>3. /\ \A k, l \in Handlers : pc'[k] = "commit" /\ pc'[l] = "commit" => k = l
        /\ row'.st # "none"
    BY <2>1, <2>2 DEF DeleteInv, Apart
  <2>4. ASSUME ~raced
        PROVE  /\ \A k \in Handlers : pc'[k] \notin Deleting
               /\ row'.st # "deleted"
    BY <2>1, <2>4 DEF DeleteInv, Apart
  <2>5. QED BY <2>1, <2>3, <2>4 DEF DeleteInv
<1>4. ASSUME NEW h \in Handlers, Save(h) PROVE DeleteInv'
  <2>1. /\ pc[h] = "save" /\ raced' = raced
        /\ row' = [st |-> "live", titled |-> TRUE] \/ row' = row
    BY <1>4 DEF Save, history
  <2>2. pc'[h] = "idle" /\ Apart(h)
    BY <1>4, IdleEffect DEF Save
  <2>3. row.st # "none" /\ row'.st # "none"
    BY <2>1 DEF DeleteInv
  <2>4. ASSUME ~raced PROVE row'.st # "deleted" /\ \A k \in Handlers : pc'[k] \notin Deleting
    BY <2>1, <2>2, <2>4 DEF DeleteInv, Apart
  <2>5. QED BY <2>1, <2>2, <2>3, <2>4 DEF DeleteInv, Apart
<1>5. ASSUME NEW h \in Handlers, Fail(h) PROVE DeleteInv'
  <2>1. pc[h] \in Sending /\ UNCHANGED <<row, msgs, raw, cache, raced>>
    BY <1>5 DEF Fail, rows, memory, history
  <2>2. pc'[h] = "idle" /\ Apart(h)
    BY <1>5, IdleEffect DEF Fail
  <2>3. QED BY <2>1, <2>2 DEF DeleteInv, Apart
<1>6. ASSUME NEW h \in Handlers, DeleteSession(h) PROVE DeleteInv'
  <2>1. /\ pc[h] = "idle" /\ row.st = "live" /\ raced' = (raced \/ Busy(Sending))
        /\ UNCHANGED <<row, msgs, raw, cache, loc>>
    BY <1>6 DEF DeleteSession, rows, memory
  <2>2. pc'[h] = "forget" /\ Apart(h)
    BY <1>6, GotoEffect DEF DeleteSession, Places
  <2>3. ~raced' => ~raced /\ \A k \in Handlers : pc[k] \notin Sending
    BY <2>1 DEF Busy
  <2>4. QED BY <2>1, <2>2, <2>3 DEF DeleteInv, Apart
<1>7. ASSUME NEW h \in Handlers, Forget(h) PROVE DeleteInv'
  <2>1. cache' = None /\ UNCHANGED <<row, msgs, raw, raced>> /\ \A k \in Handlers : pc[k] # "commit"
    BY <1>7 DEF Forget, rows, Busy
  <2>2. /\ pc[h] = "forget" /\ pc'[h] = "commit" /\ Apart(h)
        /\ loc'[h].msgs = msgs /\ loc'[h].raw = raw
    BY <1>7, ForgetEffect
  <2>3. QED BY <2>1, <2>2 DEF DeleteInv, Apart
<1>8. ASSUME NEW h \in Handlers, CommitDelete(h) PROVE DeleteInv'
  <2>1. /\ pc[h] = "commit" /\ UNCHANGED <<cache, raced>>
        /\ \/ /\ row' = [row EXCEPT !.st = "deleted"]
              /\ msgs' = msgs - loc[h].msgs /\ raw' = raw - loc[h].raw
           \/ UNCHANGED <<row, msgs, raw>>
    BY <1>8 DEF CommitDelete, rows, memory, history
  <2>2. pc'[h] = "idle" /\ Apart(h)
    BY <1>8, IdleEffect DEF CommitDelete
  <2>3. \A k \in Handlers : pc'[k] # "commit"
    BY <2>1, <2>2 DEF DeleteInv, Apart
  <2>4. row'.st # "none"
    <3>1. row.st # "none"
      BY <2>1 DEF DeleteInv
    <3>2. QED BY <2>1, <3>1 DEF TypeOK
  <2>5. ASSUME ~raced
        PROVE  /\ \A k \in Handlers : pc'[k] \notin Sending
               /\ row'.st = "deleted" => msgs' = 0 /\ raw' = 0 /\ cache' = None
    <3>1. loc[h].msgs = msgs /\ loc[h].raw = raw /\ cache = None /\ msgs \in Int /\ raw \in Int
      BY <2>1, <2>5 DEF DeleteInv, TypeOK
    <3>2. \A k \in Handlers : pc'[k] \notin Sending
      BY <2>1, <2>2, <2>5 DEF DeleteInv, Apart
    <3>3. CASE msgs' = msgs - loc[h].msgs /\ raw' = raw - loc[h].raw
      BY <2>1, <3>1, <3>2, <3>3
    <3>4. CASE UNCHANGED <<row, msgs, raw>>
      BY <2>1, <2>5, <3>1, <3>2, <3>4 DEF DeleteInv
    <3>5. QED BY <2>1, <3>3, <3>4
  <2>6. QED BY <2>1, <2>3, <2>4, <2>5 DEF DeleteInv
<1>9. CASE Expire
  BY <1>9 DEF Expire, DeleteInv, rows
<1>10. CASE Restart
  BY <1>10 DEF Restart, DeleteInv, rows
<1>11. CASE UNCHANGED vars
  BY <1>11 DEF vars, rows, memory, history, DeleteInv
<1>12. QED
  BY <1>1, <1>2, <1>3, <1>4, <1>5, <1>6, <1>7, <1>8, <1>9, <1>10, <1>11 DEF Next
-----------------------------------------------------------------------------
(* The theorems *)

\* A session begins with all parts of IInv.
LEMMA InitIInv == ASSUME GroundingAssumption, ChatAssumption, Init PROVE IInv
<1>1. heap \in [Objs -> Session] /\ \A o \in Objs : Sound(heap[o])
  BY FreshSession DEF Init
<1>2. loc \in [Handlers -> Local] /\ \A h \in Handlers : loc[h].obj = None
  BY BlankIsLocal DEF Init
<1>3. pc \in [Handlers -> Places] /\ \A h \in Handlers : pc[h] = "idle"
  BY DEF Init, Places
<1>4. TypeOK
  <2>1. row \in [st : {"none", "live", "deleted"}, titled : BOOLEAN] /\ msgs \in Int /\ raw \in Int
    BY DEF Init
  <2>2. cache = None /\ firm = NoMode /\ crossed = FALSE /\ raced = FALSE
    BY DEF Init
  <2>3. QED BY <1>1, <1>2, <1>3, <2>1, <2>2 DEF TypeOK, Places
<1>5. ObjInv
  BY <1>2, <1>3 DEF ObjInv
<1>6. SoundInv /\ FirmInv
  BY <1>1, <1>3 DEF SoundInv, FirmInv, Init
<1>7. DeleteInv
  BY <1>3 DEF DeleteInv, Init, Sending, Deleting
<1>8. QED BY <1>4, <1>5, <1>6, <1>7 DEF IInv

\* Every step keeps all parts of IInv together.
LEMMA NextIInv == ASSUME GroundingAssumption, ChatAssumption, IInv, [Next]_vars PROVE IInv'
<1>1. TypeOK' /\ ObjInv'
  BY TypeStep, ObjStep DEF IInv
<1>2. SoundInv' /\ FirmInv' /\ DeleteInv'
  BY <1>1, SoundStep, FirmStep, DeleteStep DEF IInv
<1>3. QED BY <1>1, <1>2 DEF IInv

\* All parts of IInv hold at all times.
LEMMA Invariant == ASSUME GroundingAssumption, ChatAssumption PROVE Spec => []IInv
<1>1. Init => IInv
  BY InitIInv
<1>2. IInv /\ [Next]_vars => IInv'
  BY NextIInv
<1>3. QED BY <1>1, <1>2, PTL DEF Spec

\* However requests overlap, as long as no two have updated one object at once, each object
\* is focused exactly if it has a focus, and its focus is one of the candidates it offers or
\* all of them (grounder.go:151-154, :300-302, :361-362, :476-481).
THEOREM FocusIsSound == ASSUME GroundingAssumption, ChatAssumption PROVE Spec => []FocusSound
<1>1. IInv => FocusSound
  BY DEF IInv, SoundInv, Sound, FocusSound
<1>2. QED BY <1>1, Invariant, PTL

\* A mode that a request has set while it was alone stays the mode of the session until the
\* object is lost: every later request is routed by it, so that none sets another
\* (chatbot_service.go:555).
THEOREM ModeIsSticky == ASSUME GroundingAssumption, ChatAssumption PROVE Spec => []ModeSticky
<1>1. IInv => ModeSticky
  BY DEF IInv, FirmInv, ModeSticky, Locked
<1>2. QED BY <1>1, Invariant, PTL

\* When a session is deleted, its rows and its object are all gone, if no message was being
\* handled while the deletion was (chatbot_service.go:404-421).
THEOREM DeletionIsComplete == ASSUME GroundingAssumption, ChatAssumption PROVE Spec => []NothingLeft
<1>1. IInv => NothingLeft
  BY DEF IInv, DeleteInv, NothingLeft
<1>2. QED BY <1>1, Invariant, PTL
=============================================================================
