-------------------------------- MODULE Chat --------------------------------
(***************************************************************************)
(* One chat session.  Its row and its messages are in the database; its    *)
(* mode and what has been found and focused (module Grounding) are in an   *)
(* object in memory, for an hour and until the next restart.  A message is *)
(* handled in one transaction, which lasts as long as the calls of the     *)
(* language model in it; the object is shared by pointer with any other    *)
(* message handled meanwhile, and is not rolled back with the transaction. *)
(***************************************************************************)
EXTENDS Grounding, FiniteSets

CONSTANTS
  Handlers,     \* requests that may be in progress at once
  Prompts,      \* what users write: the mode its prefix asks for, whether nothing follows
                \* it, and whether it refers to notes that are found
  MaxSends, MaxDeletes, MaxLosses \* bounds: messages, deletions, expiries and restarts

Sticky == {"BYPASS", "BYPASS_NUANCE", "RAG_NUANCE"}
Modes  == Sticky \cup {"RAG"}
NoMode == ""
None   == 0     \* no object
Objs   == 1..(Cardinality(Handlers) + 1)

ASSUME ChatAssumption ==
  /\ Handlers # {} /\ IsFiniteSet(Handlers)
  /\ Prompts # {} /\ Prompts \subseteq [mode : Modes, empty : BOOLEAN, refs : BOOLEAN]
  /\ MaxSends \in Nat /\ MaxDeletes \in Nat /\ MaxLosses \in Nat

VARIABLES
  row,          \* the session's row, and whether it has its title
  msgs, raw,    \* how many live rows of chat_messages, and of chat_messages_raw
  heap, cache,  \* objects in memory; the one the cache has for this session
  pc, loc,      \* the requests
  sends, deletes, losses,
  firm,         \* history: the mode set while no other request was in progress
  crossed,      \* history: two requests have updated one object at once
  raced         \* history: a deletion and a message were in progress at once

rows    == <<row, msgs, raw>>
memory  == <<heap, cache>>
bounds  == <<sends, deletes, losses>>
history == <<firm, crossed, raced>>
vars    == <<rows, memory, pc, loc, bounds, history>>

Fresh   == [mode |-> NoMode, cands |-> <<>>, focus |-> Nil, state |-> "BROWSING"]
Blank   == [p |-> CHOOSE p \in Prompts : TRUE, first |-> FALSE, locked |-> NoMode,
            mode |-> "RAG", obj |-> None, w |-> Unchanged, msgs |-> 0, raw |-> 0]
Sending  == {"route", "explicit", "bypass", "fetch", "ground", "mutate", "persist", "save"}
Deleting == {"forget", "commit"}

Init ==
  /\ row = [st |-> "none", titled |-> FALSE] /\ msgs = 0 /\ raw = 0
  /\ heap = [o \in Objs |-> Fresh] /\ cache = None
  /\ pc = [h \in Handlers |-> "idle"] /\ loc = [h \in Handlers |-> Blank]
  /\ sends = 0 /\ deletes = 0 /\ losses = 0
  /\ firm = NoMode /\ crossed = FALSE /\ raced = FALSE

Goto(h, l)   == pc' = [pc EXCEPT ![h] = l]
Idle(h)      == Goto(h, "idle") /\ loc' = [loc EXCEPT ![h] = Blank]
Alone(h)     == \A k \in Handlers \ {h} : pc[k] = "idle"
Busy(ls)      == \E h \in Handlers : pc[h] \in ls

\* The cache's object, or one made for this session that is not in the cache yet.
Held         == {cache} \cup {loc[h].obj : h \in Handlers}
Object       == IF cache # None THEN cache ELSE CHOOSE o \in Objs \ Held : TRUE
\* Objects nobody holds are no more.
Swept(hp, c, l) ==
  [o \in Objs |-> IF o \in {c} \cup {l[h].obj : h \in Handlers} THEN hp[o] ELSE Fresh]

-----------------------------------------------------------------------------
\* The session, a greeting, and the two prompts that prime the language model.
CreateSession ==
  /\ row.st = "none"
  /\ row' = [st |-> "live", titled |-> FALSE] /\ msgs' = 1 /\ raw' = 2
  /\ UNCHANGED <<memory, pc, loc, bounds, history>>

\* Access is granted (module Usage), the session is there, and the user's message is
\* added; nobody sees it until the transaction is committed.
Receive(h, p) ==
  /\ pc[h] = "idle" /\ row.st = "live" /\ sends < MaxSends
  /\ sends' = sends + 1 /\ Goto(h, "route")
  /\ loc' = [loc EXCEPT ![h] = [Blank EXCEPT !.p = p, !.first = (raw = 2)]]
  /\ raced' = (raced \/ Busy(Deleting))
  /\ UNCHANGED <<rows, memory, deletes, losses, firm, crossed>>

Locked == IF cache = None THEN NoMode ELSE heap[cache].mode

\* The mode of the session, once it has one, comes before that of the prompt.
Effective(p) == IF Locked \in Sticky THEN Locked ELSE p.mode

\* A prefix is cut off only if it asks for the mode the session is in anyway; a bypass
\* session also cuts off one with a nuance.
Empty(p) ==
  /\ p.empty
  /\ p.mode # "RAG" => \/ Locked \in {NoMode, p.mode}
                       \/ Locked = "BYPASS" /\ p.mode = "BYPASS_NUANCE"

\* Fault: the prompt's prefix comes first.
FaultRoute(h) ==
  LET p == loc[h].p mode == IF p.mode # "RAG" THEN p.mode ELSE Effective(p) IN
  /\ pc[h] = "route"
  /\ loc' = [loc EXCEPT ![h].p = Blank.p, ![h].locked = Locked, ![h].mode = mode]
  /\ Goto(h, IF mode \in {"BYPASS", "BYPASS_NUANCE"} THEN "bypass" ELSE "fetch")
  /\ UNCHANGED <<rows, memory, bounds, history>>

\* Notes referred to are the context themselves, whatever the mode; an empty prompt is
\* answered with help on the mode; bypass asks the language model alone.
Route(h) ==
  LET p == loc[h].p mode == Effective(p) IN
  /\ pc[h] = "route"
  /\ loc' = [loc EXCEPT ![h].p = Blank.p, ![h].locked = Locked, ![h].mode = mode]
  /\ Goto(h, CASE p.refs                               -> "explicit"
               [] ~p.refs /\ Empty(p) /\ mode # "RAG"  -> "persist"
               [] ~p.refs /\ ~(Empty(p) /\ mode # "RAG") ->
                    IF mode \in {"BYPASS", "BYPASS_NUANCE"} THEN "bypass" ELSE "fetch")
  /\ UNCHANGED <<rows, memory, bounds, history>>

\* An answer from the notes referred to; what has been found and focused does not count.
Explicit(h) ==
  /\ pc[h] = "explicit" /\ Goto(h, "save")
  /\ UNCHANGED <<rows, memory, loc, bounds, history>>

Bypass(h) ==
  /\ pc[h] = "bypass" /\ Goto(h, "persist")
  /\ UNCHANGED <<rows, memory, loc, bounds, history>>

\* The pipeline takes the object, or makes one, and asks the language model for the intent.
Fetch(h) ==
  /\ pc[h] = "fetch" /\ Goto(h, "ground")
  /\ loc' = [loc EXCEPT ![h].obj = Object]
  /\ UNCHANGED <<rows, memory, bounds, history>>

\* Candidates are read, then notes searched and loaded; the object is updated after that.
Ground(h) ==
  /\ pc[h] = "ground" /\ Goto(h, "mutate")
  /\ \E i \in Intents : \E w \in Updates(heap[loc[h].obj], i) : loc' = [loc EXCEPT ![h].w = w]
  /\ UNCHANGED <<rows, memory, bounds, history>>

\* A search without a query, or one that fails, is excused in the reply; nothing is saved.
GroundFails(h) ==
  LET l == [loc EXCEPT ![h].obj = None] IN
  /\ pc[h] = "ground" /\ Goto(h, "persist")
  /\ loc' = l /\ heap' = Swept(heap, cache, l)
  /\ UNCHANGED <<rows, cache, bounds, history>>

\* The object gets its new fields and goes into the cache, in place of any other; then the
\* answer is written from the notes loaded.
Mutate(h) ==
  LET o == loc[h].obj
      l == [loc EXCEPT ![h].obj = None, ![h].w = Unchanged] IN
  /\ pc[h] = "mutate" /\ Goto(h, "persist")
  /\ loc' = l /\ cache' = o
  /\ heap' = Swept([heap EXCEPT ![o] = Updated(@, loc[h].w)], o, l)
  /\ crossed' = (crossed \/ \E k \in Handlers \ {h} : pc[k] = "mutate" /\ loc[k].obj = o)
  /\ UNCHANGED <<rows, bounds, firm, raced>>

\* A mode other than the one found at the start is put into the object the cache has now.
Persist(h) ==
  LET m == loc[h].mode new == m \in Sticky /\ m # loc[h].locked IN
  /\ pc[h] = "persist" /\ Goto(h, "save")
  /\ IF new THEN /\ heap' = [heap EXCEPT ![Object].mode = m] /\ cache' = Object
            ELSE UNCHANGED memory
  /\ loc' = [loc EXCEPT ![h].locked = NoMode, ![h].mode = "RAG"]
  /\ firm' = IF new /\ Alone(h) THEN m ELSE firm
  /\ UNCHANGED <<rows, bounds, crossed, raced>>

\* The reply is added; the first exchange gives the session its title, which saves the row
\* that was read at the start; the usage is counted, and all of it committed.  A deletion
\* not yet committed has the row locked.
Save(h) ==
  /\ pc[h] = "save" /\ (loc[h].first => ~Busy({"commit"}))
  /\ msgs' = msgs + 2 /\ raw' = raw + 2
  /\ row' = IF loc[h].first THEN [st |-> "live", titled |-> TRUE] ELSE row
  /\ Idle(h)
  /\ UNCHANGED <<memory, bounds, history>>

\* The language model of a bypass, or a statement, fails: the transaction is rolled back.
Fail(h) ==
  /\ pc[h] \in {"bypass", "save"} /\ Idle(h)
  /\ UNCHANGED <<rows, memory, bounds, history>>

-----------------------------------------------------------------------------
DeleteSession(h) ==
  /\ pc[h] = "idle" /\ row.st = "live" /\ deletes < MaxDeletes
  /\ deletes' = deletes + 1 /\ Goto(h, "forget")
  /\ raced' = (raced \/ Busy(Sending))
  /\ UNCHANGED <<rows, memory, loc, sends, losses, firm, crossed>>

\* Fault: the session's state stays in memory.
FaultForget(h) ==
  /\ pc[h] = "forget" /\ ~Busy({"commit"}) /\ Goto(h, "commit")
  /\ loc' = [loc EXCEPT ![h].msgs = msgs, ![h].raw = raw]
  /\ UNCHANGED <<rows, memory, bounds, history>>

\* The rows seen now are deleted, once a deletion before this one is through; the object
\* leaves the cache before the commit.
Forget(h) ==
  /\ pc[h] = "forget" /\ ~Busy({"commit"}) /\ Goto(h, "commit")
  /\ loc' = [loc EXCEPT ![h].msgs = msgs, ![h].raw = raw]
  /\ cache' = None /\ heap' = Swept(heap, None, loc) /\ firm' = NoMode
  /\ UNCHANGED <<rows, bounds, crossed, raced>>

CommitDelete(h) ==
  /\ pc[h] = "commit" /\ Idle(h)
  /\ \/ /\ row' = [row EXCEPT !.st = "deleted"]
        /\ msgs' = msgs - loc[h].msgs /\ raw' = raw - loc[h].raw
     \/ UNCHANGED rows
  /\ UNCHANGED <<memory, bounds, history>>

\* An hour after it was last saved, the object leaves the cache.
Expire ==
  /\ cache # None /\ losses < MaxLosses /\ losses' = losses + 1
  /\ cache' = None /\ heap' = Swept(heap, None, loc) /\ firm' = NoMode
  /\ UNCHANGED <<rows, pc, loc, sends, deletes, crossed, raced>>

Restart ==
  /\ losses < MaxLosses /\ losses' = losses + 1
  /\ cache' = None /\ heap' = [o \in Objs |-> Fresh] /\ firm' = NoMode
  /\ pc' = [h \in Handlers |-> "idle"] /\ loc' = [h \in Handlers |-> Blank]
  /\ UNCHANGED <<rows, sends, deletes, crossed, raced>>

Next ==
  \/ CreateSession \/ Expire \/ Restart
  \/ \E h \in Handlers :
       \/ \E p \in Prompts : Receive(h, p)
       \/ Route(h) \/ Explicit(h) \/ Bypass(h) \/ Fetch(h) \/ Ground(h) \/ GroundFails(h)
       \/ Mutate(h)
       \/ Persist(h) \/ Save(h) \/ Fail(h)
       \/ DeleteSession(h) \/ Forget(h) \/ CommitDelete(h)

Spec == Init /\ [][Next]_vars

-----------------------------------------------------------------------------
(* Properties *)

\* A session is focused exactly if it has a focus, and the focus is one of the candidates
\* the user may number, or all of them; unless two requests have updated one object at once
\* (grounder.go:151-154, :300-302, :361-362, :476-481).
FocusSound ==
  ~crossed => \A o \in Objs :
    LET s == heap[o] IN
    /\ s.state = "FOCUSED" <=> s.focus # Nil
    /\ s.focus \in Notes => \E i \in DOMAIN s.cands : s.cands[i] = s.focus
    /\ s.focus = All => s.cands # <<>>

\* "This makes bypass/nuance mode sticky for the entire session" (chatbot_service.go:555):
\* a mode set while no other request was in progress is the session's mode until its object
\* is lost, however later requests overlap and whatever prefixes they have.
ModeSticky == firm # NoMode => Locked = firm

\* Of a deleted session no message and no state in memory is left, unless a message was
\* being handled meanwhile.
NothingLeft == row.st = "deleted" /\ ~raced => msgs = 0 /\ raw = 0 /\ cache = None
=============================================================================
