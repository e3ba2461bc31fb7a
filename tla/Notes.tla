------------------------------- MODULE Notes -------------------------------
(***************************************************************************)
(* Notes, the tree of notebooks they are kept in, and the search index.    *)
(* A request that writes a note puts a message with the note's id on an    *)
(* in-memory channel; one consumer takes the messages one by one, reads    *)
(* the note and its notebook, has an embedding made and replaces the       *)
(* note's rows in the index.  A request reads a row, then saves the whole  *)
(* row (GORM's Save, which puts a row deleted meanwhile back), then        *)
(* publishes; a transaction is one step.                                   *)
(*                                                                         *)
(* A text (title and content of a note, name of a notebook) is the number  *)
(* of the request that wrote it.  The state is that of one user: every     *)
(* query is restricted to the user's rows.                                 *)
(***************************************************************************)
EXTENDS Naturals

CONSTANTS
  Handlers,     \* requests that may be in progress at once
  NoteIds, Books, \* ids of notes and notebooks
  Root,         \* the notebook the user starts with
  None,         \* no parent
  MaxRequests   \* bound: requests and crashes

ASSUME NotesAssumption ==
  NoteIds # {} /\ Root \in Books /\ None \notin Books /\ MaxRequests \in Nat

VARIABLES
  note, book,   \* the tables notes and notebooks
  emb,          \* the rows of note_embeddings: the texts they were made from
  queue,        \* how many messages for a note wait in the channel
  con,          \* the consumer
  pc, loc,      \* where each request is, and what it holds
  clock,        \* requests so far
  lost,         \* history: notes whose message a crash or an error has swallowed
  tidy          \* history: requests came one at a time and named live notebooks

tables  == <<note, book, emb>>
history == <<lost, tidy>>
vars    == <<tables, queue, con, pc, loc, clock, history>>

States  == {"absent", "live", "deleted"}
NoteRow == [st : States, ver : Nat, book : Books]
BookRow == [st : States, name : Nat, parent : Books \cup {None}]
Unknown == 0    \* as a name: the consumer found no notebook; as a text: no rows
Index   == [ver : Nat, name : Nat]
PC      == {"idle", "note", "publish", "delete note", "rename", "list", "parent", "move",
            "delete book"}
Local   == [n : NoteIds, b : Books, note : NoteRow, book : BookRow, todo : SUBSET NoteIds]
ConPC   == {"idle", "note", "notebook", "embed"}
Job     == [pc : ConPC, n : NoteIds, ver : Nat, book : Books, name : Nat]

NoNote  == [st |-> "absent", ver |-> 0, book |-> Root]
NoBook  == [st |-> "absent", name |-> 0, parent |-> None]
NoRows  == [ver |-> 0, name |-> Unknown]
NoLocal == [n |-> CHOOSE n \in NoteIds : TRUE, b |-> Root, note |-> NoNote, book |-> NoBook,
            todo |-> {}]
NoJob   == [pc |-> "idle", n |-> CHOOSE n \in NoteIds : TRUE, ver |-> 0, book |-> Root,
            name |-> Unknown]

Init ==
  /\ note = [n \in NoteIds |-> NoNote]
  /\ book = [b \in Books |-> IF b = Root THEN [st |-> "live", name |-> 1, parent |-> None]
                                         ELSE NoBook]
  /\ emb = [n \in NoteIds |-> NoRows]
  /\ queue = [n \in NoteIds |-> 0] /\ con = NoJob
  /\ pc = [h \in Handlers |-> "idle"] /\ loc = [h \in Handlers |-> NoLocal]
  /\ clock = 1 /\ lost = {} /\ tidy = TRUE

LiveNote(n) == note[n].st = "live"
LiveBook(b) == book[b].st = "live"
Within(b)   == {n \in NoteIds : LiveNote(n) /\ note[n].book = b}

Goto(h, c, l) == pc' = [pc EXCEPT ![h] = c] /\ loc' = [loc EXCEPT ![h] = l]
Finish(h)     == Goto(h, "idle", NoLocal)

\* Request number clock' begins; named: the notebook it names is a live one.
Request(h, c, l, named) ==
  /\ pc[h] = "idle" /\ clock < MaxRequests
  /\ clock' = clock + 1
  /\ tidy' = (tidy /\ named /\ \A g \in Handlers : pc[g] = "idle")
  /\ Goto(h, c, l)
  /\ UNCHANGED <<queue, con, lost>>

-----------------------------------------------------------------------------
(* Requests on notes.  The notebook a request names is not looked up.      *)

CreateNote(h, n, b) ==
  /\ note[n].st = "absent" /\ book[b].st # "absent"
  /\ note' = [note EXCEPT ![n] = [st |-> "live", ver |-> clock + 1, book |-> b]]
  /\ Request(h, "publish", [NoLocal EXCEPT !.todo = {n}], LiveBook(b))
  /\ UNCHANGED <<book, emb>>

\* Fault: the note is looked for among the deleted ones too.
FaultUpdateNote(h, n) ==
  /\ note[n].st # "absent"
  /\ Request(h, "note", [NoLocal EXCEPT !.n = n,
                           !.note = [note[n] EXCEPT !.st = "live", !.ver = clock + 1]], TRUE)
  /\ UNCHANGED tables

UpdateNote(h, n) ==
  /\ LiveNote(n)
  /\ Request(h, "note", [NoLocal EXCEPT !.n = n, !.note = [note[n] EXCEPT !.ver = clock + 1]],
             TRUE)
  /\ UNCHANGED tables

MoveNote(h, n, b) ==
  /\ LiveNote(n) /\ book[b].st # "absent"
  /\ Request(h, "note", [NoLocal EXCEPT !.n = n, !.note = [note[n] EXCEPT !.book = b]],
             LiveBook(b))
  /\ UNCHANGED tables

SaveNote(h) ==
  /\ pc[h] = "note"
  /\ note' = [note EXCEPT ![loc[h].n] = loc[h].note]
  /\ Goto(h, "publish", [NoLocal EXCEPT !.todo = {loc[h].n}])
  /\ UNCHANGED <<book, emb, queue, con, clock, history>>

DeleteNote(h, n) ==
  /\ LiveNote(n)
  /\ Request(h, "delete note", [NoLocal EXCEPT !.n = n], TRUE)
  /\ UNCHANGED tables

\* One transaction: the note and its rows in the index.
CommitDeleteNote(h) ==
  /\ pc[h] = "delete note"
  /\ note' = [note EXCEPT ![loc[h].n].st = "deleted"]
  /\ emb' = [emb EXCEPT ![loc[h].n] = NoRows]
  /\ Finish(h)
  /\ UNCHANGED <<book, queue, con, clock, history>>

\* One message for each note on the list; each clears an earlier loss.
Publish(h) ==
  /\ pc[h] = "publish"
  /\ \E n \in loc[h].todo :
       /\ queue' = [queue EXCEPT ![n] = @ + 1]
       /\ lost' = lost \ {n}
       /\ IF loc[h].todo = {n} THEN Finish(h)
          ELSE Goto(h, "publish", [loc[h] EXCEPT !.todo = @ \ {n}])
  /\ UNCHANGED <<tables, con, clock, tidy>>

-----------------------------------------------------------------------------
(* Requests on notebooks *)

\* The parent is not looked up.
CreateNotebook(h, b, p) ==
  /\ book[b].st = "absent"
  /\ p # None => book[p].st # "absent"
  /\ book' = [book EXCEPT ![b] = [st |-> "live", name |-> clock + 1, parent |-> p]]
  /\ Request(h, "idle", NoLocal, p # None => LiveBook(p))
  /\ UNCHANGED <<note, emb>>

RenameNotebook(h, b) ==
  /\ LiveBook(b)
  /\ Request(h, "rename", [NoLocal EXCEPT !.b = b, !.book = [book[b] EXCEPT !.name = clock + 1]],
             TRUE)
  /\ UNCHANGED tables

SaveBook(h, c) ==
  /\ book' = [book EXCEPT ![loc[h].b] = loc[h].book]
  /\ Goto(h, c, IF c = "idle" THEN NoLocal ELSE loc[h])
  /\ UNCHANGED <<note, emb, queue, con, clock, history>>

\* Fault: the notes of the notebook are not indexed again.
FaultSaveName(h) == pc[h] = "rename" /\ SaveBook(h, "idle")
SaveName(h)      == pc[h] = "rename" /\ SaveBook(h, "list")

\* Each note of the renamed notebook is to be indexed again.
ListNotes(h) ==
  LET ns == Within(loc[h].b) IN
  /\ pc[h] = "list"
  /\ IF ns = {} THEN Finish(h) ELSE Goto(h, "publish", [NoLocal EXCEPT !.todo = ns])
  /\ UNCHANGED <<tables, queue, con, clock, history>>

\* The new parent is looked up; that it is not below the notebook is not asked.
MoveNotebook(h, b, p) ==
  /\ LiveBook(b)
  /\ p # None => book[p].st # "absent"
  /\ Request(h, IF p = None THEN "move" ELSE "parent",
             [NoLocal EXCEPT !.b = b, !.book = [book[b] EXCEPT !.parent = p]],
             p # None => LiveBook(p))
  /\ UNCHANGED tables

FindParent(h) ==
  /\ pc[h] = "parent"
  /\ IF LiveBook(loc[h].book.parent) THEN Goto(h, "move", loc[h]) ELSE Finish(h)
  /\ UNCHANGED <<tables, queue, con, clock, history>>

SaveMove(h) == pc[h] = "move" /\ SaveBook(h, "idle")

DeleteNotebook(h, b) ==
  /\ LiveBook(b)
  /\ Request(h, "delete book", [NoLocal EXCEPT !.b = b], TRUE)
  /\ UNCHANGED tables

\* Fault: the children keep the deleted notebook as their parent.
FaultCommitDeleteNotebook(h) ==
  LET d == loc[h].b IN
  /\ pc[h] = "delete book"
  /\ book' = [book EXCEPT ![d].st = "deleted"]
  /\ emb' = [n \in NoteIds |-> IF note[n].book = d THEN NoRows ELSE emb[n]]
  /\ note' = [n \in NoteIds |-> IF n \in Within(d) THEN [note[n] EXCEPT !.st = "deleted"]
                                ELSE note[n]]
  /\ Finish(h)
  /\ UNCHANGED <<queue, con, clock, history>>

\* One transaction: the notebook, the index of all notes that name it, the parent
\* of its children, and its notes.
CommitDeleteNotebook(h) ==
  LET d == loc[h].b IN
  /\ pc[h] = "delete book"
  /\ book' = [b \in Books |->
       IF b = d THEN [book[b] EXCEPT !.st = "deleted"]
       ELSE IF LiveBook(b) /\ book[b].parent = d THEN [book[b] EXCEPT !.parent = None]
       ELSE book[b]]
  /\ emb' = [n \in NoteIds |-> IF note[n].book = d THEN NoRows ELSE emb[n]]
  /\ note' = [n \in NoteIds |-> IF n \in Within(d) THEN [note[n] EXCEPT !.st = "deleted"]
                                ELSE note[n]]
  /\ Finish(h)
  /\ UNCHANGED <<queue, con, clock, history>>

-----------------------------------------------------------------------------
(* The consumer *)

\* The channel delivers the next message when the last one has been acknowledged.
Take(n) ==
  /\ con.pc = "idle" /\ queue[n] > 0
  /\ queue' = [queue EXCEPT ![n] = @ - 1]
  /\ con' = [NoJob EXCEPT !.pc = "note", !.n = n]
  /\ UNCHANGED <<tables, pc, loc, clock, history>>

ConStep == UNCHANGED <<queue, pc, loc, clock, history>>

\* Fault: a note that is not found is asked for again.
FaultFindNote ==
  /\ con.pc = "note" /\ LiveNote(con.n)
  /\ con' = [con EXCEPT !.pc = "notebook", !.ver = note[con.n].ver, !.book = note[con.n].book]
  /\ ConStep /\ UNCHANGED tables

\* A message for a note deleted meanwhile is acknowledged and dropped.
FindNote ==
  /\ con.pc = "note"
  /\ con' = IF LiveNote(con.n)
            THEN [con EXCEPT !.pc = "notebook", !.ver = note[con.n].ver,
                             !.book = note[con.n].book]
            ELSE NoJob
  /\ ConStep /\ UNCHANGED tables

Label(b) == IF LiveBook(b) THEN book[b].name ELSE Unknown

FindNotebook ==
  /\ con.pc = "notebook"
  /\ con' = [con EXCEPT !.pc = "embed", !.name = Label(con.book)]
  /\ ConStep /\ UNCHANGED tables

\* The embeddings are made; one transaction replaces the note's rows.
Commit ==
  /\ con.pc = "embed"
  /\ emb' = [emb EXCEPT ![con.n] = [ver |-> con.ver, name |-> con.name]]
  /\ con' = NoJob
  /\ ConStep /\ UNCHANGED <<note, book>>

\* Fault: an error acknowledges the message.
FaultNack ==
  /\ con.pc \in {"notebook", "embed"}
  /\ con' = NoJob
  /\ ConStep /\ UNCHANGED tables

\* After any error the channel delivers the same message again, before all others.
Nack ==
  /\ con.pc \in {"notebook", "embed"}
  /\ con' = [NoJob EXCEPT !.pc = "note", !.n = con.n]
  /\ ConStep /\ UNCHANGED tables

-----------------------------------------------------------------------------
(* Errors and crashes *)

\* Some message for note n is on its way, or a request is about to send one.
Owed(n) ==
  \/ queue[n] > 0
  \/ (con.pc # "idle" /\ con.n = n)
  \/ \E h \in Handlers : n \in loc[h].todo \/ (pc[h] = "list" /\ n \in Within(loc[h].b))

\* A query fails and the request returns the error; publishing never fails.
Fail(h) ==
  /\ pc[h] \notin {"idle", "publish"}
  /\ lost' = IF pc[h] = "list" THEN lost \cup Within(loc[h].b) ELSE lost
  /\ Finish(h)
  /\ UNCHANGED <<tables, queue, con, clock, tidy>>

\* The server restarts: the channel is in memory.
Crash ==
  /\ clock < MaxRequests
  /\ clock' = clock + 1
  /\ lost' = lost \cup {n \in NoteIds : Owed(n)}
  /\ queue' = [n \in NoteIds |-> 0] /\ con' = NoJob
  /\ pc' = [h \in Handlers |-> "idle"] /\ loc' = [h \in Handlers |-> NoLocal]
  /\ UNCHANGED <<tables, tidy>>

-----------------------------------------------------------------------------
NoteRequest(h) ==
  \E n \in NoteIds :
    \/ UpdateNote(h, n) \/ DeleteNote(h, n)
    \/ \E b \in Books : CreateNote(h, n, b) \/ MoveNote(h, n, b)
BookRequest(h) ==
  \E b \in Books :
    \/ RenameNotebook(h, b) \/ DeleteNotebook(h, b)
    \/ \E p \in Books \cup {None} : CreateNotebook(h, b, p) \/ MoveNotebook(h, b, p)
Continue(h) ==
  \/ SaveNote(h) \/ CommitDeleteNote(h) \/ Publish(h)
  \/ SaveName(h) \/ ListNotes(h) \/ FindParent(h) \/ SaveMove(h) \/ CommitDeleteNotebook(h)

Next ==
  \/ \E h \in Handlers : NoteRequest(h) \/ BookRequest(h) \/ Continue(h) \/ Fail(h)
  \/ \E n \in NoteIds : Take(n)
  \/ FindNote \/ FindNotebook \/ Commit \/ Nack
  \/ Crash

Spec == Init /\ [][Next]_vars

\* A request that was begun goes on, the consumer's loop runs, and a message that
\* is tried again and again is some time embedded.  The channel hands out its
\* lock in turn, so that each message is delivered.
Fairness ==
  /\ \A h \in Handlers : WF_vars(Continue(h))
  /\ \A n \in NoteIds : SF_vars(Take(n))
  /\ WF_vars(FindNote) /\ SF_vars(FindNotebook) /\ SF_vars(Commit)

FairSpec == Spec /\ Fairness

-----------------------------------------------------------------------------
(* Properties *)

TypeOK ==
  /\ note \in [NoteIds -> NoteRow] /\ book \in [Books -> BookRow]
  /\ emb \in [NoteIds -> Index]
  /\ queue \in [NoteIds -> Nat] /\ con \in Job
  /\ pc \in [Handlers -> PC] /\ loc \in [Handlers -> Local]
  /\ clock \in Nat /\ lost \subseteq NoteIds /\ tidy \in BOOLEAN

Quiet(n) == LiveNote(n) /\ n \notin lost /\ ~Owed(n)

\* When no message for a note is on its way its index was made from the note's
\* text as it stands: whatever requests did to the note while the consumer had
\* it, whatever stale row was saved, and however often the consumer failed.
ContentFresh == \A n \in NoteIds : Quiet(n) => emb[n].ver = note[n].ver

\* And from the name its notebook has, while requests come one at a time: a
\* rename that overtakes the consumer is caught up with.
NameFresh == tidy => \A n \in NoteIds : Quiet(n) => emb[n].name = Label(note[n].book)

\* While requests come one at a time the tree stays whole: live notes are in live
\* notebooks, whose parents are live.
TreeSound ==
  tidy => /\ \A n \in NoteIds : LiveNote(n) => LiveBook(note[n].book)
          /\ \A b \in Books : LiveBook(b) /\ book[b].parent # None => LiveBook(book[b].parent)

\* While requests come one at a time nothing deleted comes back, whatever the
\* consumer is doing and however requests fail.
DeletedStaysDeleted ==
  [][tidy' => /\ \A n \in NoteIds : note[n].st = "deleted" => note'[n].st = "deleted"
              /\ \A b \in Books : book[b].st = "deleted" => book'[b].st = "deleted"]_vars

\* The index of every note is up to date again and again: no message waits behind
\* another for ever, not behind one whose note was deleted either.
EventuallyFresh ==
  \A n \in NoteIds : []<>(LiveNote(n) /\ n \notin lost => emb[n].ver = note[n].ver)

\* The way up from a notebook comes to a root: no set of live notebooks has all
\* its parents inside (the comment on buildBreadcrumb, note_service.go).
RootIsReached ==
  \A S \in SUBSET {b \in Books : LiveBook(b)} :
    S # {} => \E b \in S : book[b].parent \notin S
=============================================================================
