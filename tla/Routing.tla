------------------------------ MODULE Routing ------------------------------
(***************************************************************************)
(* What becomes of the words of a chat message: references are taken out   *)
(* and looked up among the user's notes, a prefix asks for a mode and a    *)
(* nuance, the mode of the session comes before it, and what is left goes  *)
(* to one of three pipelines with the rows of the conversation before it.  *)
(* One message is handled at a time (module Chat has several); a message   *)
(* is a sequence of words, each with the kind of white space before it,    *)
(* and a title in double brackets or quotes is one word.                   *)
(***************************************************************************)
EXTENDS SequencesExt

CONSTANTS
  Notes, Mine,      \* notes, and those of the user
  Texts,            \* what a reference may look for
  Inner,            \* which texts are themselves links, and to what
  InTitle, InText,  \* the notes with a text in their title, or in either of title and content
  Keys, Active,     \* keys of nuances, and those of active ones
  NoKey,            \* nothing where a key or a mode should be
  Junk,             \* a key with a line break in it, which no nuance has
  Messages,         \* what users send: words, and a list of notes picked by hand
  Limit,            \* rows of the conversation that are loaded: 10
  MaxSends, MaxDeletes, MaxLosses

Sticky   == {"BYPASS", "BYPASS_NUANCE", "RAG_NUANCE"}
Commands == {"/bypass", "/bypass/nuance:", "/nuance:"}
Links    == {"quoted", "plain", "wiki"}      \* @notes:"text", @notes:text, [[text]]
\* The white space before a word begins with a space, or with a line break or a tab and has a
\* space later, or has no space at all.  A slash right after /bypass does for a space.
Gaps     == {"space", "mixed", "break"}
Word     == [kind : {"word"}, gap : Gaps] \cup [kind : Links, arg : Texts \cup Notes, gap : Gaps]
            \cup [kind : Commands, arg : Keys \cup {NoKey}, gap : Gaps]

ASSUME RoutingAssumption ==
  /\ Mine \subseteq Notes /\ Active \subseteq Keys /\ NoKey \notin Keys
  /\ Junk \notin Keys /\ Junk # NoKey
  /\ InTitle \in [Texts -> SUBSET Notes] /\ InText \in [Texts -> SUBSET Notes]
  /\ \A t \in Texts : InTitle[t] \subseteq InText[t]
  /\ DOMAIN Inner \subseteq Texts /\ Range(Inner) \subseteq Texts
  /\ \A m \in Messages : m.words \in Seq(Word) /\ m.words # <<>> /\ m.picked \in Seq(Notes)
  /\ Limit \in Nat /\ MaxSends \in Nat /\ MaxDeletes \in Nat /\ MaxLosses \in Nat

VARIABLES
  live,      \* notes that are not deleted
  mode,      \* the mode of the session in memory, if it has one
  raw,       \* rows of chat_messages_raw; the first two prime the language model
  last,      \* the last message stored, and what it was answered from
  sends, deletes, losses

routing == <<live, mode, raw, last, sends, deletes, losses>>

Nothing == [words |-> <<>>, picked |-> <<>>]
RoutingInit ==
  /\ live = Notes /\ mode = NoKey /\ raw = 2
  /\ last = [msg |-> Nothing, locked |-> NoKey, by |-> "nobody", mode |-> NoKey, text |-> <<>>,
             nuance |-> NoKey, primed |-> FALSE, refs |-> <<>>]
  /\ sends = 0 /\ deletes = 0 /\ losses = 0

-----------------------------------------------------------------------------
(* The words of a message *)

\* What a sequence has at some positions, in order.
Only(s, at) ==
  LET taken[i \in 0 .. Len(s)] ==
        IF i = 0 THEN <<>>
        ELSE IF i \in at THEN Append(taken[i - 1], s[i]) ELSE taken[i - 1]
  IN  taken[Len(s)]

\* The words of some kinds, and the kinds that are no references.
Those(words, kinds) == Only(words, {i \in DOMAIN words : words[i].kind \in kinds})
Said                == {"word"} \cup Commands

Asks(w) == CASE w.kind = "/bypass"         -> "BYPASS"
             [] w.kind = "/bypass/nuance:" -> "BYPASS_NUANCE"
             [] w.kind = "/nuance:"        -> "RAG_NUANCE"

\* Whether the first word ends at a space, or at the end.
Apart(words) == Len(words) = 1 \/ words[2].gap = "space"

\* Words that only line breaks separate from the first, itself among them.
Glued(words) == {i \in DOMAIN words : \A j \in 2..i : words[j].gap = "break"}
After(words) == SubSeq(words, Cardinality(Glued(words)) + 1, Len(words))

\* A key ends at the first space.  A line break is part of it, and so is what stands between
\* the line break and the next space; the prompt is what follows.
KeyAndPrompt(words) ==
  IF Apart(words) THEN <<Head(words).arg, Tail(words)>> ELSE <<Junk, After(words)>>

\* A prefix is one at the very front, with a key if it needs one, and a plain bypass ends at a
\* space; all else is the default mode, with the prompt as it is.
Obeyed(words) ==
  /\ words # <<>> /\ Head(words).kind \in Commands
  /\ IF Head(words).kind = "/bypass" THEN Apart(words) ELSE KeyAndPrompt(words)[1] # NoKey

Parse(words) ==
  IF ~Obeyed(words) THEN [mode |-> "RAG", key |-> NoKey, clean |-> words]
  ELSE IF Head(words).kind = "/bypass"
  THEN [mode |-> "BYPASS", key |-> NoKey, clean |-> Tail(words)]
  ELSE LET kp == KeyAndPrompt(words) IN [mode |-> Asks(Head(words)), key |-> kp[1], clean |-> kp[2]]

TypeOf(value) == IF value \in Notes THEN "uuid" ELSE "partial"

Titles(words) == [i \in DOMAIN words |-> [type |-> "title", value |-> words[i].arg]]

\* Links of the text, also those within quotes or after @notes:.
Wiki(words) ==
  LET Linked(w) == w.kind = "wiki" \/ (w.kind \in Links /\ w.arg \in DOMAIN Inner)
      links     == Only(words, {i \in DOMAIN words : Linked(words[i])})
  IN  [i \in DOMAIN links |->
         [type  |-> "title",
          value |-> IF links[i].kind = "wiki" THEN links[i].arg ELSE Inner[links[i].arg]]]

\* All white space is made one space.
Spaced(words) == [i \in DOMAIN words |-> [words[i] EXCEPT !.gap = "space"]]

\* Quoted titles first, then what is not quoted, then links; the prompt keeps the rest.
ParseReferences(words) ==
  LET plain == Those(words, {"plain"}) IN
  [refs  |-> Titles(Those(words, {"quoted"}))
             \o [i \in DOMAIN plain |-> [type |-> TypeOf(plain[i].arg), value |-> plain[i].arg]]
             \o Wiki(words),
   clean |-> Spaced(Those(words, Said))]

-----------------------------------------------------------------------------
(* References to notes *)

Visible == live \cap Mine

ByUUID(id) == {id} \cap Visible

\* The title or the content has the text; the database may return the rows in any order.
ByPartial(t) == InText[t] \cap Visible

ByNoteTitle(t) == InTitle[t] \cap Visible

ByTitle(t) == IF ByNoteTitle(t) # {} THEN ByNoteTitle(t) ELSE ByPartial(t)

FindsOf(ref) == CASE ref.type = "uuid"    -> ByUUID(ref.value)
                  [] ref.type = "title"   -> ByTitle(ref.value)
                  [] ref.type = "partial" -> ByPartial(ref.value)

\* What each reference finds: any one of the notes, or nothing.
Lookups(refs) ==
  {f \in [DOMAIN refs -> Notes \cup {NoKey}] :
     \A i \in DOMAIN refs : f[i] \in IF FindsOf(refs[i]) = {} THEN {NoKey} ELSE FindsOf(refs[i])}

\* Fault: a note found twice is reported twice.
FaultResolve(refs) == Lookups(refs)

\* In the order of the references; one that finds a note found before is left out.
Resolve(refs) ==
  LET New(f) == {i \in DOMAIN f : f[i] = NoKey \/ \A j \in 1..(i - 1) : f[j] # f[i]}
  IN  {Only(f, New(f)) : f \in Lookups(refs)}

\* Notes picked by hand are looked up one by one, and reported as often as they were picked.
Picked(ids) == [i \in DOMAIN ids |-> IF ids[i] \in Visible THEN ids[i] ELSE NoKey]

Resolved(refs) == Only(refs, {i \in DOMAIN refs : refs[i] # NoKey})

-----------------------------------------------------------------------------
(* The pipelines *)

\* Fault: a prefix with a nuance is taken for one for notes.
FaultFiltered(words) == (IF mode = "BYPASS" THEN mode ELSE Parse(words).mode) = "BYPASS"

\* The last rows of the conversation, without the two that prime the language model for
\* notes if the prompt, or the session, asks for a bypass.
Filtered(words) ==
  (IF mode = "BYPASS" THEN mode ELSE Parse(words).mode) \in {"BYPASS", "BYPASS_NUANCE"}

Primed(words) == ~Filtered(words) /\ raw - Limit < 2

\* Fault: whatever the session's mode, the prefix is cut off.
FaultRouted(words) ==
  LET p == Parse(words) m == IF mode # NoKey THEN mode ELSE p.mode
  IN  [mode |-> m, key |-> p.key, text |-> p.clean]

\* The session's mode comes first.  A prefix that asks for another is part of the prompt,
\* though its key still counts; a bypass session cuts off one with a nuance as well.
Routed(words) ==
  LET p   == Parse(words)
      m   == IF mode # NoKey THEN mode ELSE p.mode
      cut == p.mode = m \/ (m = "BYPASS" /\ p.mode = "BYPASS_NUANCE")
  IN  [mode |-> m, key |-> p.key, text |-> IF cut THEN p.clean ELSE words]

\* Only an active nuance is found; without one the mode goes on as it is.
NuanceOf(key) == IF key \in Active THEN key ELSE NoKey

Help(r)   == [by |-> "help", nuance |-> NoKey]
Bypass(r) ==
  [by |-> "bypass", nuance |-> IF r.mode = "BYPASS_NUANCE" THEN NuanceOf(r.key) ELSE NoKey]
\* The nuance has been looked up, but this pipeline does not take it.
Rag(r)    == [by |-> "rag", nuance |-> NoKey]

Execute(r) == CASE r.text = <<>> /\ r.mode # "RAG" -> Help(r)
                [] r.text # <<>> /\ r.mode \in {"BYPASS", "BYPASS_NUANCE"} -> Bypass(r)
                [] r.mode = "RAG" \/ (r.text # <<>> /\ r.mode = "RAG_NUANCE") -> Rag(r)

\* An answer: to what, in which session, by which pipeline, in which mode, from what.
Answer(m, by, in, text, nuance, refs) ==
  [msg |-> m, locked |-> mode, primed |-> Primed(m.words),
   by |-> by, mode |-> in, text |-> text, nuance |-> nuance, refs |-> refs]

\* Notes that were found are the context themselves, in any mode; else the router decides,
\* on a prompt from which the references are gone.
Answers(m) ==
  LET inline == ParseReferences(m.words)
      words  == IF m.picked = <<>> /\ inline.refs # <<>> THEN inline.clean ELSE m.words
      found  == IF m.picked # <<>> THEN {Picked(m.picked)} ELSE Resolve(inline.refs)
      r      == Routed(words)
  IN  {IF Resolved(f) # <<>> THEN Answer(m, "explicit", NoKey, words, NoKey, f)
       ELSE Answer(m, Execute(r).by, r.mode, r.text, Execute(r).nuance, <<>>) : f \in found}

\* The mode is in memory once the pipeline has answered; the rows only if the transaction
\* is committed after that.
Send(m) ==
  /\ sends < MaxSends /\ sends' = sends + 1
  /\ \E a \in Answers(m) :
       /\ mode' = IF a.mode \in Sticky THEN a.mode ELSE mode
       /\ \/ last' = a /\ raw' = raw + 2
          \/ UNCHANGED <<last, raw>>
  /\ UNCHANGED <<live, deletes, losses>>

DeleteNote(n) ==
  /\ n \in live /\ deletes < MaxDeletes /\ deletes' = deletes + 1
  /\ live' = live \ {n}
  /\ UNCHANGED <<mode, raw, last, sends, losses>>

\* After an hour, or when the server is restarted, the session has no mode in memory.
Lose ==
  /\ mode # NoKey /\ losses < MaxLosses /\ losses' = losses + 1
  /\ mode' = NoKey
  /\ UNCHANGED <<live, raw, last, sends, deletes>>

\* The history shows the references stored with a message, where the note is not deleted.
Shown == Only(last.refs, {i \in DOMAIN last.refs : last.refs[i] # NoKey /\ last.refs[i] \in live})

RoutingNext == Lose \/ (\E m \in Messages : Send(m)) \/ (\E n \in Mine : DeleteNote(n))

RoutingSpec == RoutingInit /\ [][RoutingNext]_routing

-----------------------------------------------------------------------------
(* Properties *)

\* What the router is given: all words, or those that are no references if there are any and no
\* notes were picked by hand.
Given(m) ==
  IF m.picked = <<>> /\ (\E i \in DOMAIN m.words : m.words[i].kind \in Links)
  THEN Spaced(Those(m.words, Said)) ELSE m.words

\* The mode a prefix asks for is the one in force; or any bypass, in a bypass session.
InForce(w) ==
  /\ w.kind \in Commands
  /\ Asks(w) = last.mode \/ (last.mode = "BYPASS" /\ Asks(w) = "BYPASS_NUANCE")

\* Of what the user wrote nothing is lost on the way (chatbot_service.go:491-509,
\* router.go:69-93): the pipeline gets every word that is not a reference, in order, except
\* a prefix in front that is obeyed, and references stay when notes were picked by hand.
\* Except, as the code has it (parser.go:95), when a line break or a tab follows a prefix for a
\* nuance: the words up to the next space are then lost, and no other.
NothingIsLost ==
  LET rest == Given(last.msg)
  IN  \/ last.text = rest
      \/ rest # <<>> /\ InForce(Head(rest)) /\ last.text = Tail(rest)
      \/ /\ rest # <<>> /\ InForce(Head(rest)) /\ Head(rest).kind # "/bypass"
         /\ ~Apart(rest) /\ last.text = After(rest)

\* The history shows with a message the user's own live notes only, and each of them once
\* unless it was picked by hand twice, however many of its references find it
\* (reference_resolver.go:33-34); and shows none unless the reply was written from notes
\* referred to.
ShownOnce ==
  /\ \A i \in DOMAIN Shown : Shown[i] \in live \cap Mine
  /\ last.msg.picked = <<>> => IsInjective(Shown)
  /\ Shown # <<>> => last.by = "explicit"

\* "BYPASS mode: RAG system prompts are filtered out" (chatbot_service.go:452): the language
\* model, when it answers alone, has not seen the rows that prime it for notes.  The mode is
\* told twice, before and after references are taken out, and by two rules, so that this
\* fails for a session in BYPASS_NUANCE, which the first does not know, for a prefix that comes
\* after references, and for a plain bypass with a line break after it, which is none before the
\* references are taken out and is one afterwards.
BypassIsClean ==
  last.by = "bypass" /\ last.primed =>
    \/ last.locked = "BYPASS_NUANCE"
    \/ Head(last.msg.words).kind \in Links
    \/ Head(last.msg.words).kind = "/bypass" /\ ~Apart(last.msg.words)
=============================================================================
