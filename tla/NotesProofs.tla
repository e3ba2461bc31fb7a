---------------------------- MODULE NotesProofs ----------------------------
(***************************************************************************)
(* Type correctness of Notes, and that the index catches up with every     *)
(* note.  The property speaks of quiet notes only; what makes it inductive *)
(* is that at every moment a live note whose message was not lost is       *)
(* covered: by a message, by a request about to send one, by the consumer  *)
(* holding its present text, or by an index made from that text.           *)
(***************************************************************************)
EXTENDS Notes, TLAPS

Holds(n) == con.pc # "idle" /\ con.n = n

Covered(n) ==
  \/ queue[n] > 0
  \/ \E h \in Handlers : n \in loc[h].todo
  \/ Holds(n) /\ con.pc = "note"
  \/ Holds(n) /\ con.ver = note[n].ver
  \/ ~Holds(n) /\ emb[n].ver = note[n].ver

CoverAt(n) == LiveNote(n) /\ n \notin lost => Covered(n)
CoverInv   == \A n \in NoteIds : CoverAt(n)

\* Only a request that is publishing has a list of notes.
TodoInv == \A h \in Handlers : loc[h].todo # {} => pc[h] = "publish"

IInv == TypeOK /\ TodoInv /\ CoverInv

-----------------------------------------------------------------------------
(* Types *)

\* The constants a request and the consumer start from are of their types.
LEMMA Constants ==
  NoLocal \in Local /\ NoJob \in Job /\ NoRows \in Index /\ NoNote \in NoteRow
  /\ NoLocal.todo = {} /\ NoJob.pc = "idle"
<1>1. (CHOOSE n \in NoteIds : TRUE) \in NoteIds
  BY NotesAssumption
<1> QED
  BY <1>1, NotesAssumption
  DEF NoLocal, NoJob, NoRows, NoNote, NoBook, Local, Job, Index, NoteRow, BookRow, States, ConPC,
      Unknown

\* A request goes on to a step of the program with locals of their type.
LEMMA GotoType ==
  ASSUME TypeOK, NEW h \in Handlers, NEW c \in PC, NEW l \in Local, Goto(h, c, l)
  PROVE  pc' \in [Handlers -> PC] /\ loc' \in [Handlers -> Local]
  BY DEF TypeOK, Goto

\* The end of a request.
LEMMA FinishType ==
  ASSUME TypeOK, NEW h \in Handlers, Finish(h)
  PROVE  pc' \in [Handlers -> PC] /\ loc' \in [Handlers -> Local]
  BY GotoType, Constants DEF Finish, PC

\* The beginning of a request.
LEMMA RequestType ==
  ASSUME TypeOK, NEW h \in Handlers, NEW c \in PC, NEW l \in Local, NEW x \in BOOLEAN,
         Request(h, c, l, x)
  PROVE  /\ pc' \in [Handlers -> PC] /\ loc' \in [Handlers -> Local]
         /\ clock' \in Nat /\ clock' = clock + 1 /\ tidy' \in BOOLEAN
         /\ queue' \in [NoteIds -> Nat] /\ con' \in Job /\ lost' \subseteq NoteIds
<1>1. Goto(h, c, l)
  BY DEF Request
<1>2. pc' \in [Handlers -> PC] /\ loc' \in [Handlers -> Local]
  BY <1>1, GotoType
<1>3. tidy' \in BOOLEAN
  BY DEF Request, TypeOK
<1>4. clock' \in Nat /\ clock' = clock + 1
  BY DEF Request, TypeOK
<1>5. queue' \in [NoteIds -> Nat] /\ con' \in Job /\ lost' \subseteq NoteIds
  BY DEF Request, TypeOK
<1> QED
  BY <1>2, <1>3, <1>4, <1>5

\* A request on a note leaves every table and copy of its type.
LEMMA NoteRequestType ==
  ASSUME TypeOK, NEW h \in Handlers, NoteRequest(h)
  PROVE  TypeOK'
<1> USE Constants
<1>1. PICK n \in NoteIds : \/ UpdateNote(h, n) \/ DeleteNote(h, n)
                           \/ \E b \in Books : CreateNote(h, n, b) \/ MoveNote(h, n, b)
  BY DEF NoteRequest
<1>2. note[n] \in NoteRow /\ clock + 1 \in Nat
  BY DEF TypeOK
<1>3. CASE UpdateNote(h, n)
  <2> DEFINE l == [NoLocal EXCEPT !.n = n, !.note = [note[n] EXCEPT !.ver = clock + 1]]
  <2>1. l \in Local
    BY <1>2 DEF Local, NoteRow
  <2>2. Request(h, "note", l, TRUE) /\ UNCHANGED tables
    BY <1>3 DEF UpdateNote
  <2> QED
    BY <2>1, <2>2, RequestType DEF TypeOK, tables, PC
<1>4. CASE DeleteNote(h, n)
  <2> DEFINE l == [NoLocal EXCEPT !.n = n]
  <2>1. l \in Local
    BY DEF Local
  <2>2. Request(h, "delete note", l, TRUE) /\ UNCHANGED tables
    BY <1>4 DEF DeleteNote
  <2> QED
    BY <2>1, <2>2, RequestType DEF TypeOK, tables, PC
<1>5. ASSUME NEW b \in Books, CreateNote(h, n, b) PROVE TypeOK'
  <2> DEFINE l == [NoLocal EXCEPT !.todo = {n}]
  <2>1. l \in Local
    BY DEF Local
  <2>2. Request(h, "publish", l, LiveBook(b)) /\ UNCHANGED <<book, emb>>
    BY <1>5 DEF CreateNote
  <2>3. LiveBook(b) \in BOOLEAN
    BY DEF LiveBook
  <2>4. [st |-> "live", ver |-> clock + 1, book |-> b] \in NoteRow
    BY <1>2 DEF NoteRow, States
  <2>5. note' \in [NoteIds -> NoteRow]
    BY <1>5, <2>4 DEF CreateNote, TypeOK
  <2>6. book' \in [Books -> BookRow] /\ emb' \in [NoteIds -> Index]
    BY <2>2 DEF TypeOK
  <2>7. "publish" \in PC
    BY DEF PC
  <2>8. /\ pc' \in [Handlers -> PC] /\ loc' \in [Handlers -> Local]
        /\ clock' \in Nat /\ tidy' \in BOOLEAN
        /\ queue' \in [NoteIds -> Nat] /\ con' \in Job /\ lost' \subseteq NoteIds
    <3> HIDE DEF l
    <3> QED
      BY <2>1, <2>2, <2>3, <2>7, RequestType
  <2> QED
    BY <2>5, <2>6, <2>8 DEF TypeOK
<1>6. ASSUME NEW b \in Books, MoveNote(h, n, b) PROVE TypeOK'
  <2> DEFINE l == [NoLocal EXCEPT !.n = n, !.note = [note[n] EXCEPT !.book = b]]
  <2>1. l \in Local
    BY <1>2 DEF Local, NoteRow
  <2>2. Request(h, "note", l, LiveBook(b)) /\ UNCHANGED tables
    BY <1>6 DEF MoveNote
  <2>3. LiveBook(b) \in BOOLEAN
    BY DEF LiveBook
  <2> QED
    BY <2>1, <2>2, <2>3, RequestType DEF TypeOK, tables, PC
<1> QED
  BY <1>1, <1>3, <1>4, <1>5, <1>6

\* A request on a notebook leaves every table and copy of its type.
LEMMA BookRequestType ==
  ASSUME TypeOK, NEW h \in Handlers, BookRequest(h)
  PROVE  TypeOK'
<1> USE Constants
<1>1. PICK b \in Books : \/ RenameNotebook(h, b) \/ DeleteNotebook(h, b)
                         \/ \E p \in Books \cup {None} :
                              CreateNotebook(h, b, p) \/ MoveNotebook(h, b, p)
  BY DEF BookRequest
<1>2. book[b] \in BookRow /\ clock + 1 \in Nat
  BY DEF TypeOK
<1>3. CASE RenameNotebook(h, b)
  <2> DEFINE l == [NoLocal EXCEPT !.b = b, !.book = [book[b] EXCEPT !.name = clock + 1]]
  <2>1. l \in Local
    BY <1>2 DEF Local, BookRow
  <2>2. Request(h, "rename", l, TRUE) /\ UNCHANGED tables
    BY <1>3 DEF RenameNotebook
  <2> QED
    BY <2>1, <2>2, RequestType DEF TypeOK, tables, PC
<1>4. CASE DeleteNotebook(h, b)
  <2> DEFINE l == [NoLocal EXCEPT !.b = b]
  <2>1. l \in Local
    BY DEF Local
  <2>2. Request(h, "delete book", l, TRUE) /\ UNCHANGED tables
    BY <1>4 DEF DeleteNotebook
  <2> QED
    BY <2>1, <2>2, RequestType DEF TypeOK, tables, PC
<1>5. ASSUME NEW p \in Books \cup {None}, CreateNotebook(h, b, p) PROVE TypeOK'
  <2> DEFINE x == p # None => LiveBook(p)
  <2>1. Request(h, "idle", NoLocal, x) /\ UNCHANGED <<note, emb>>
    BY <1>5 DEF CreateNotebook
  <2>2. x \in BOOLEAN
    OBVIOUS
  <2>3. [st |-> "live", name |-> clock + 1, parent |-> p] \in BookRow
    BY <1>2 DEF BookRow, States
  <2>4. book' \in [Books -> BookRow]
    BY <1>5, <2>3 DEF CreateNotebook, TypeOK
  <2> QED
    BY <2>1, <2>2, <2>4, RequestType DEF TypeOK, PC
<1>6. ASSUME NEW p \in Books \cup {None}, MoveNotebook(h, b, p) PROVE TypeOK'
  <2> DEFINE l == [NoLocal EXCEPT !.b = b, !.book = [book[b] EXCEPT !.parent = p]]
             c == IF p = None THEN "move" ELSE "parent"
             x == p # None => LiveBook(p)
  <2>1. l \in Local
    BY <1>2 DEF Local, BookRow
  <2>2. Request(h, c, l, x) /\ UNCHANGED tables
    BY <1>6 DEF MoveNotebook
  <2>3. x \in BOOLEAN /\ c \in PC
    BY DEF PC
  <2> QED
    BY <2>1, <2>2, <2>3, RequestType DEF TypeOK, tables
<1> QED
  BY <1>1, <1>3, <1>4, <1>5, <1>6

\* A request that goes on leaves every table and copy of its type.
LEMMA ContinueType ==
  ASSUME TypeOK, NEW h \in Handlers, Continue(h)
  PROVE  TypeOK'
<1> USE Constants, GotoType, FinishType
<1>1. loc[h] \in Local
  BY DEF TypeOK
<1>2. CASE SaveNote(h)
  <2>1. [NoLocal EXCEPT !.todo = {loc[h].n}] \in Local
    BY <1>1 DEF Local
  <2>2. note' \in [NoteIds -> NoteRow]
    BY <1>1, <1>2 DEF SaveNote, TypeOK, Local
  <2> QED
    BY <1>2, <2>1, <2>2 DEF SaveNote, TypeOK, PC, history
<1>3. CASE CommitDeleteNote(h)
  <2>1. note' \in [NoteIds -> NoteRow]
    BY <1>3 DEF CommitDeleteNote, TypeOK, NoteRow, States
  <2>2. emb' \in [NoteIds -> Index]
    BY <1>3 DEF CommitDeleteNote, TypeOK
  <2> QED
    BY <1>3, <2>1, <2>2 DEF CommitDeleteNote, TypeOK, history
<1>4. CASE Publish(h)
  <2>1. PICK n \in loc[h].todo :
          /\ queue' = [queue EXCEPT ![n] = @ + 1]
          /\ lost' = lost \ {n}
          /\ IF loc[h].todo = {n} THEN Finish(h)
             ELSE Goto(h, "publish", [loc[h] EXCEPT !.todo = @ \ {n}])
    BY <1>4 DEF Publish
  <2>2. [loc[h] EXCEPT !.todo = @ \ {n}] \in Local
    BY <1>1 DEF Local
  <2>3. pc' \in [Handlers -> PC] /\ loc' \in [Handlers -> Local]
    BY <2>1, <2>2 DEF PC
  <2>4. queue' \in [NoteIds -> Nat] /\ lost' \subseteq NoteIds
    <3>1. n \in NoteIds
      BY <1>1 DEF Local
    <3> QED
      BY <2>1, <3>1 DEF TypeOK
  <2> QED
    BY <1>4, <2>3, <2>4 DEF Publish, TypeOK, tables
<1>5. ASSUME NEW c \in {"list", "idle"}, SaveBook(h, c) PROVE TypeOK'
  <2>1. book' \in [Books -> BookRow]
    BY <1>1, <1>5 DEF SaveBook, TypeOK, Local
  <2>2. pc' \in [Handlers -> PC] /\ loc' \in [Handlers -> Local]
    BY <1>1, <1>5 DEF SaveBook, PC
  <2> QED
    BY <1>5, <2>1, <2>2 DEF SaveBook, TypeOK, history
<1>6. CASE ListNotes(h)
  <2>1. [NoLocal EXCEPT !.todo = Within(loc[h].b)] \in Local
    BY DEF Local, Within
  <2>2. pc' \in [Handlers -> PC] /\ loc' \in [Handlers -> Local]
    BY <1>6, <2>1 DEF ListNotes, PC
  <2> QED
    BY <1>6, <2>2 DEF ListNotes, TypeOK, tables, history
<1>7. CASE FindParent(h)
  <2>1. pc' \in [Handlers -> PC] /\ loc' \in [Handlers -> Local]
    BY <1>1, <1>7 DEF FindParent, PC
  <2> QED
    BY <1>7, <2>1 DEF FindParent, TypeOK, tables, history
<1>8. CASE CommitDeleteNotebook(h)
  <2> DEFINE d == loc[h].b
  <2>1. book' \in [Books -> BookRow]
    BY <1>8 DEF CommitDeleteNotebook, TypeOK, BookRow, States
  <2>2. note' \in [NoteIds -> NoteRow]
    BY <1>8 DEF CommitDeleteNotebook, TypeOK, NoteRow, States
  <2>3. emb' \in [NoteIds -> Index]
    BY <1>8 DEF CommitDeleteNotebook, TypeOK
  <2> QED
    BY <1>8, <2>1, <2>2, <2>3 DEF CommitDeleteNotebook, TypeOK, history
<1> QED
  BY <1>2, <1>3, <1>4, <1>5, <1>6, <1>7, <1>8 DEF Continue, SaveName, SaveMove

\* Every step leaves every variable of its type.
LEMMA TypeStep ==
  ASSUME TypeOK, [Next]_vars
  PROVE  TypeOK'
<1> USE Constants
<1>1. CASE UNCHANGED vars
  BY <1>1 DEF TypeOK, vars, tables, history
<1>2. ASSUME NEW h \in Handlers, NoteRequest(h) \/ BookRequest(h) \/ Continue(h) PROVE TypeOK'
  BY <1>2, NoteRequestType, BookRequestType, ContinueType
<1>3. ASSUME NEW h \in Handlers, Fail(h) PROVE TypeOK'
  <2>1. pc' \in [Handlers -> PC] /\ loc' \in [Handlers -> Local]
    BY <1>3, FinishType DEF Fail
  <2>2. lost' \subseteq NoteIds
    BY <1>3 DEF Fail, TypeOK, Within
  <2> QED
    BY <1>3, <2>1, <2>2 DEF Fail, TypeOK, tables
<1>4. ASSUME NEW n \in NoteIds, Take(n) PROVE TypeOK'
  <2>1. con' \in Job
    BY <1>4 DEF Take, Job, ConPC
  <2>2. queue' \in [NoteIds -> Nat]
    BY <1>4 DEF Take, TypeOK
  <2> QED
    BY <1>4, <2>1, <2>2 DEF Take, TypeOK, tables, history
<1>5. CASE FindNote
  <2>1. note[con.n] \in NoteRow
    BY DEF TypeOK, Job
  <2>2. con' \in Job
    BY <1>5, <2>1 DEF FindNote, TypeOK, Job, ConPC, NoteRow
  <2> QED
    BY <1>5, <2>2 DEF FindNote, ConStep, TypeOK, tables, history
<1>6. CASE FindNotebook
  <2>1. Label(con.book) \in Nat
    BY DEF Label, TypeOK, Job, BookRow, Unknown
  <2>2. con' \in Job
    BY <1>6, <2>1 DEF FindNotebook, TypeOK, Job, ConPC
  <2> QED
    BY <1>6, <2>2 DEF FindNotebook, ConStep, TypeOK, tables, history
<1>7. CASE Commit
  <2>1. emb' \in [NoteIds -> Index]
    BY <1>7 DEF Commit, TypeOK, Job, Index
  <2> QED
    BY <1>7, <2>1 DEF Commit, ConStep, TypeOK, history
<1>8. CASE Nack
  <2>1. con' \in Job
    BY <1>8 DEF Nack, TypeOK, Job, ConPC
  <2> QED
    BY <1>8, <2>1 DEF Nack, ConStep, TypeOK, tables, history
<1>9. CASE Crash
  <2>1. pc' \in [Handlers -> PC] /\ loc' \in [Handlers -> Local] /\ queue' \in [NoteIds -> Nat]
    BY <1>9 DEF Crash, PC
  <2>2. lost' \subseteq NoteIds /\ clock' \in Nat
    BY <1>9 DEF Crash, TypeOK
  <2> QED
    BY <1>9, <2>1, <2>2 DEF Crash, TypeOK, tables
<1> QED
  BY <1>1, <1>2, <1>3, <1>4, <1>5, <1>6, <1>7, <1>8, <1>9 DEF Next

-----------------------------------------------------------------------------
(* Lists of notes *)

\* A request that moves to a step with no list, or that publishes, keeps to it.
LEMMA GotoTodo ==
  ASSUME TypeOK, TodoInv, NEW h \in Handlers, NEW c, NEW l, Goto(h, c, l),
         l.todo # {} => c = "publish"
  PROVE  TodoInv'
  BY DEF TypeOK, TodoInv, Goto

\* A request that ends has no list.
LEMMA FinishTodo ==
  ASSUME TypeOK, TodoInv, NEW h \in Handlers, Finish(h)
  PROVE  TodoInv'
  BY GotoTodo, Constants DEF Finish

\* A request begins with no list, or to publish.
LEMMA RequestTodo ==
  ASSUME TypeOK, TodoInv, NEW h \in Handlers, NoteRequest(h) \/ BookRequest(h)
  PROVE  TodoInv'
<1> USE Constants, GotoTodo
<1>1. ASSUME NEW n \in NoteIds, UpdateNote(h, n) PROVE TodoInv'
  <2> DEFINE l == [NoLocal EXCEPT !.n = n, !.note = [note[n] EXCEPT !.ver = clock + 1]]
  <2>1. l.todo = {}
    BY DEF Local
  <2> QED
    BY <1>1, <2>1 DEF UpdateNote, Request
<1>2. ASSUME NEW n \in NoteIds, DeleteNote(h, n) PROVE TodoInv'
  <2>1. [NoLocal EXCEPT !.n = n].todo = {}
    BY DEF Local
  <2> QED
    BY <1>2, <2>1 DEF DeleteNote, Request
<1>3. ASSUME NEW n \in NoteIds, NEW b \in Books, CreateNote(h, n, b) PROVE TodoInv'
  BY <1>3 DEF CreateNote, Request
<1>4. ASSUME NEW n \in NoteIds, NEW b \in Books, MoveNote(h, n, b) PROVE TodoInv'
  <2> DEFINE l == [NoLocal EXCEPT !.n = n, !.note = [note[n] EXCEPT !.book = b]]
  <2>1. l.todo = {}
    BY DEF Local
  <2> QED
    BY <1>4, <2>1 DEF MoveNote, Request
<1>5. ASSUME NEW b \in Books, RenameNotebook(h, b) PROVE TodoInv'
  <2> DEFINE l == [NoLocal EXCEPT !.b = b, !.book = [book[b] EXCEPT !.name = clock + 1]]
  <2>1. l.todo = {}
    BY DEF Local
  <2> QED
    BY <1>5, <2>1 DEF RenameNotebook, Request
<1>6. ASSUME NEW b \in Books, DeleteNotebook(h, b) PROVE TodoInv'
  <2>1. [NoLocal EXCEPT !.b = b].todo = {}
    BY DEF Local
  <2> QED
    BY <1>6, <2>1 DEF DeleteNotebook, Request
<1>7. ASSUME NEW b \in Books, NEW p \in Books \cup {None}, CreateNotebook(h, b, p) PROVE TodoInv'
  BY <1>7 DEF CreateNotebook, Request
<1>8. ASSUME NEW b \in Books, NEW p \in Books \cup {None}, MoveNotebook(h, b, p) PROVE TodoInv'
  <2> DEFINE l == [NoLocal EXCEPT !.b = b, !.book = [book[b] EXCEPT !.parent = p]]
  <2>1. l.todo = {}
    BY DEF Local
  <2> QED
    BY <1>8, <2>1 DEF MoveNotebook, Request
<1> QED
  BY <1>1, <1>2, <1>3, <1>4, <1>5, <1>6, <1>7, <1>8 DEF NoteRequest, BookRequest

\* Every step keeps lists to requests that publish.
LEMMA TodoStep ==
  ASSUME TypeOK, TodoInv, [Next]_vars
  PROVE  TodoInv'
<1>1. ASSUME UNCHANGED <<pc, loc>> PROVE TodoInv'
  BY <1>1 DEF TodoInv
<1>2. ASSUME NEW h \in Handlers, NoteRequest(h) \/ BookRequest(h) PROVE TodoInv'
  BY <1>2, RequestTodo
<1>3. ASSUME NEW h \in Handlers, Continue(h) PROVE TodoInv'
  <2> USE GotoTodo, FinishTodo, Constants
  <2>1. pc[h] # "publish" => loc[h].todo = {}
    BY DEF TodoInv
  <2>2. CASE SaveNote(h)
    BY <2>2 DEF SaveNote
  <2>3. CASE CommitDeleteNote(h)
    BY <2>3 DEF CommitDeleteNote
  <2>4. CASE Publish(h)
    BY <2>4 DEF Publish
  <2>5. CASE SaveName(h)
    BY <2>1, <2>5 DEF SaveName, SaveBook
  <2>6. CASE ListNotes(h)
    BY <2>6 DEF ListNotes
  <2>7. CASE FindParent(h)
    BY <2>1, <2>7 DEF FindParent
  <2>8. CASE SaveMove(h)
    BY <2>1, <2>8 DEF SaveMove, SaveBook
  <2>9. CASE CommitDeleteNotebook(h)
    BY <2>9 DEF CommitDeleteNotebook
  <2> QED
    BY <1>3, <2>2, <2>3, <2>4, <2>5, <2>6, <2>7, <2>8, <2>9 DEF Continue
<1>4. ASSUME NEW h \in Handlers, Fail(h) PROVE TodoInv'
  BY <1>4, FinishTodo DEF Fail
<1>5. CASE Crash
  BY <1>5, Constants DEF Crash, TodoInv
<1> QED
  BY <1>1, <1>2, <1>3, <1>4, <1>5
  DEF Next, vars, Take, FindNote, FindNotebook, Commit, Nack, ConStep

-----------------------------------------------------------------------------
(* Covered notes *)

\* A note whose rows, messages and lists are not taken from stays covered.
LEMMA CoverKept ==
  ASSUME NEW n \in NoteIds, CoverAt(n), note'[n] = note[n], emb'[n] = emb[n], con' = con,
         queue[n] > 0 => queue'[n] > 0, n \in lost => n \in lost',
         \A h \in Handlers : n \in loc[h].todo => n \in loc'[h].todo
  PROVE  CoverAt(n)'
  BY DEF CoverAt, Covered, LiveNote, Holds

\* A note that is not live need not be covered.
LEMMA NotLive ==
  ASSUME NEW n, note'[n].st # "live"
  PROVE  CoverAt(n)'
  BY DEF CoverAt, LiveNote

\* A note on a list is covered.
LEMMA Listed ==
  ASSUME NEW n, NEW h \in Handlers, n \in loc'[h].todo
  PROVE  CoverAt(n)'
  BY DEF CoverAt, Covered

\* A request that is not publishing takes nothing from a list by going on.
LEMMA GotoKeeps ==
  ASSUME TypeOK, TodoInv, NEW h \in Handlers, pc[h] # "publish", NEW c, NEW l, Goto(h, c, l)
  PROVE  \A n : \A g \in Handlers : n \in loc[g].todo => n \in loc'[g].todo
  BY DEF TypeOK, TodoInv, Goto

\* A request that begins keeps every note covered.
LEMMA RequestCover ==
  ASSUME TypeOK, TodoInv, CoverInv, NEW h \in Handlers, NoteRequest(h) \/ BookRequest(h)
  PROVE  CoverInv'
<1>1. ASSUME NEW c, NEW l, NEW x, Request(h, c, l, x)
      PROVE  /\ con' = con /\ queue' = queue /\ lost' = lost
             /\ \A n : \A g \in Handlers : n \in loc[g].todo => n \in loc'[g].todo
  BY <1>1, GotoKeeps DEF Request
<1>2. ASSUME UNCHANGED tables, NEW c, NEW l, NEW x, Request(h, c, l, x) PROVE CoverInv'
  BY <1>1, <1>2, CoverKept DEF CoverInv, tables
<1>3. ASSUME NEW n \in NoteIds, NEW b \in Books, CreateNote(h, n, b) PROVE CoverInv'
  <2> DEFINE l == [NoLocal EXCEPT !.todo = {n}]
  <2>1. Request(h, "publish", l, LiveBook(b)) /\ UNCHANGED <<book, emb>>
    BY <1>3 DEF CreateNote
  <2>2. n \in loc'[h].todo
    BY <2>1, Constants DEF Request, Goto, TypeOK, Local
  <2>3. ASSUME NEW m \in NoteIds, m # n PROVE CoverAt(m)'
    <3>1. note'[m] = note[m]
      BY <1>3, <2>3 DEF CreateNote, TypeOK
    <3> QED
      BY <1>1, <2>1, <3>1, CoverKept DEF CoverInv
  <2> QED
    BY <2>2, <2>3, Listed DEF CoverInv
<1>4. ASSUME NEW b \in Books, NEW p \in Books \cup {None}, CreateNotebook(h, b, p) PROVE CoverInv'
  BY <1>1, <1>4, CoverKept DEF CreateNotebook, CoverInv
<1> QED
  BY <1>2, <1>3, <1>4
  DEF NoteRequest, BookRequest, UpdateNote, DeleteNote, MoveNote, RenameNotebook, DeleteNotebook,
      MoveNotebook

\* A request that goes on keeps every note covered: what it saved is on its list.
LEMMA ContinueCover ==
  ASSUME TypeOK, TodoInv, CoverInv, NEW h \in Handlers, Continue(h)
  PROVE  CoverInv'
<1>1. loc[h] \in Local
  BY DEF TypeOK
<1>2. ASSUME UNCHANGED <<note, emb, queue, con, lost>>, pc[h] # "publish",
             NEW c, NEW l, Goto(h, c, l)
      PROVE  CoverInv'
  BY <1>2, GotoKeeps, CoverKept DEF CoverInv
<1>3. CASE SaveNote(h)
  <2> DEFINE n == loc[h].n
             l == [NoLocal EXCEPT !.todo = {n}]
  <2>1. Goto(h, "publish", l) /\ pc[h] # "publish" /\ UNCHANGED <<emb, queue, con, lost>>
    BY <1>3 DEF SaveNote, history
  <2>2. n \in loc'[h].todo
    BY <2>1, Constants DEF Goto, TypeOK, Local
  <2>3. ASSUME NEW m \in NoteIds, m # n PROVE CoverAt(m)'
    <3>1. note'[m] = note[m]
      BY <1>3, <2>3 DEF SaveNote, TypeOK
    <3> QED
      BY <2>1, <3>1, GotoKeeps, CoverKept DEF CoverInv
  <2> QED
    BY <2>2, <2>3, Listed DEF CoverInv
<1>4. CASE CommitDeleteNote(h)
  <2>1. Goto(h, "idle", NoLocal) /\ pc[h] # "publish" /\ UNCHANGED <<queue, con, lost>>
    BY <1>4 DEF CommitDeleteNote, Finish, history
  <2>2. ASSUME NEW m \in NoteIds, m # loc[h].n PROVE CoverAt(m)'
    <3>1. note'[m] = note[m] /\ emb'[m] = emb[m]
      BY <1>4, <2>2 DEF CommitDeleteNote, TypeOK
    <3> QED
      BY <2>1, <3>1, GotoKeeps, CoverKept DEF CoverInv
  <2>3. ASSUME NEW m \in NoteIds, m = loc[h].n PROVE CoverAt(m)'
    <3>1. note'[m].st = "deleted"
      BY <1>4, <2>3 DEF CommitDeleteNote, TypeOK, NoteRow
    <3> QED
      BY <3>1, NotLive
  <2> QED
    BY <2>2, <2>3 DEF CoverInv
<1>5. CASE Publish(h)
  <2>1. PICK n \in loc[h].todo :
          /\ queue' = [queue EXCEPT ![n] = @ + 1]
          /\ lost' = lost \ {n}
          /\ IF loc[h].todo = {n} THEN Finish(h)
             ELSE Goto(h, "publish", [loc[h] EXCEPT !.todo = @ \ {n}])
    BY <1>5 DEF Publish
  <2>2. n \in NoteIds /\ queue'[n] > 0
    BY <1>1, <2>1 DEF TypeOK, Local
  <2>3. UNCHANGED <<note, emb, con>>
    BY <1>5 DEF Publish, tables
  <2>4. ASSUME NEW m \in NoteIds, m # n, NEW g \in Handlers, m \in loc[g].todo
        PROVE  m \in loc'[g].todo
    <3>1. CASE g = h
      BY <1>1, <2>1, <2>4, <3>1 DEF Goto, TypeOK, Local
    <3>2. CASE g # h
      BY <2>1, <2>4, <3>2 DEF Goto, Finish, TypeOK
    <3> QED
      BY <3>1, <3>2
  <2>5. ASSUME NEW m \in NoteIds, m # n PROVE CoverAt(m)'
    <3>1. queue'[m] = queue[m] /\ (m \in lost => m \in lost')
      BY <2>1, <2>5 DEF TypeOK
    <3> QED
      BY <2>3, <2>4, <2>5, <3>1, CoverKept DEF CoverInv
  <2>6. CoverAt(n)'
    BY <2>2 DEF CoverAt, Covered
  <2> QED
    BY <2>5, <2>6 DEF CoverInv
<1>6. CASE SaveName(h)
  BY <1>2, <1>6 DEF SaveName, SaveBook, history
<1>7. CASE ListNotes(h)
  BY <1>2, <1>7 DEF ListNotes, Finish, tables, history
<1>8. CASE FindParent(h)
  BY <1>2, <1>8 DEF FindParent, Finish, tables, history
<1>9. CASE SaveMove(h)
  BY <1>2, <1>9 DEF SaveMove, SaveBook, history
<1>10. CASE CommitDeleteNotebook(h)
  <2> DEFINE d == loc[h].b
  <2>1. Goto(h, "idle", NoLocal) /\ pc[h] # "publish" /\ UNCHANGED <<queue, con, lost>>
    BY <1>10 DEF CommitDeleteNotebook, Finish, history
  <2>2. ASSUME NEW m \in NoteIds, m \in Within(d) PROVE CoverAt(m)'
    <3>1. note'[m].st = "deleted"
      BY <1>10, <2>2 DEF CommitDeleteNotebook, TypeOK, NoteRow
    <3> QED
      BY <3>1, NotLive
  <2>3. ASSUME NEW m \in NoteIds, m \notin Within(d) PROVE CoverAt(m)'
    <3>1. note'[m] = note[m]
      BY <1>10, <2>3 DEF CommitDeleteNotebook
    <3>2. CASE LiveNote(m)
      <4>1. note[m].book # d
        BY <2>3, <3>2 DEF Within
      <4>2. emb'[m] = emb[m]
        BY <1>10, <4>1 DEF CommitDeleteNotebook
      <4> QED
        BY <2>1, <3>1, <4>2, GotoKeeps, CoverKept DEF CoverInv
    <3>3. CASE ~LiveNote(m)
      BY <3>1, <3>3, NotLive DEF LiveNote
    <3> QED
      BY <3>2, <3>3
  <2> QED
    BY <2>2, <2>3 DEF CoverInv
<1> QED
  BY <1>3, <1>4, <1>5, <1>6, <1>7, <1>8, <1>9, <1>10 DEF Continue

\* The consumer keeps every note covered: it drops a message only with the note's
\* rows made from what it read, and what it read is stale only if a request has
\* sent, or is about to send, another message.
LEMMA ConsumerCover ==
  ASSUME TypeOK, CoverInv,
         (\E n \in NoteIds : Take(n)) \/ FindNote \/ FindNotebook \/ Commit \/ Nack
  PROVE  CoverInv'
<1>1. ASSUME NEW n \in NoteIds, Take(n) PROVE CoverInv'
  <2>1. con' = [NoJob EXCEPT !.pc = "note", !.n = n] /\ con.pc = "idle"
        /\ UNCHANGED <<note, emb, loc, lost>>
    BY <1>1 DEF Take, tables, history
  <2>2. con'.pc = "note" /\ con'.n = n
    BY <2>1, Constants DEF Job
  <2>3. ASSUME NEW m \in NoteIds, m # n PROVE queue'[m] = queue[m]
    BY <1>1, <2>3 DEF Take, TypeOK
  <2> QED
    BY <2>1, <2>2, <2>3 DEF CoverInv, CoverAt, Covered, LiveNote, Holds
<1>2. ASSUME UNCHANGED <<note, emb, queue, loc, lost>>, con.pc # "idle", con'.n = con.n,
             con'.pc # "idle", con'.pc = "note" \/ con'.ver = note[con.n].ver
                               \/ (con.pc # "note" /\ con'.ver = con.ver)
      PROVE  CoverInv'
  BY <1>2 DEF CoverInv, CoverAt, Covered, LiveNote, Holds
<1>3. CASE FindNote
  <2>1. UNCHANGED <<note, emb, queue, loc, lost>> /\ con.pc = "note"
    BY <1>3 DEF FindNote, ConStep, tables, history
  <2>2. CASE LiveNote(con.n)
    <3>1. con'.n = con.n /\ con'.pc = "notebook" /\ con'.ver = note[con.n].ver
      BY <1>3, <2>2 DEF FindNote, TypeOK, Job
    <3> QED
      BY <1>2, <2>1, <3>1
  <2>3. CASE ~LiveNote(con.n)
    <3>1. con'.pc = "idle"
      BY <1>3, <2>3, Constants DEF FindNote
    <3> QED
      BY <2>1, <2>3, <3>1 DEF CoverInv, CoverAt, Covered, LiveNote, Holds
  <2> QED
    BY <2>2, <2>3
<1>4. CASE FindNotebook
  <2>1. con'.n = con.n /\ con'.pc = "embed" /\ con'.ver = con.ver /\ con.pc = "notebook"
    BY <1>4 DEF FindNotebook, TypeOK, Job
  <2> QED
    BY <1>2, <1>4, <2>1 DEF FindNotebook, ConStep, tables, history
<1>5. CASE Commit
  <2>1. con'.pc = "idle" /\ con.pc = "embed" /\ UNCHANGED <<note, queue, loc, lost>>
    BY <1>5, Constants DEF Commit, ConStep, history
  <2>2. emb'[con.n].ver = con.ver
    BY <1>5 DEF Commit, TypeOK, Job
  <2>3. ASSUME NEW m \in NoteIds, m # con.n PROVE emb'[m] = emb[m]
    BY <1>5, <2>3 DEF Commit, TypeOK
  <2> QED
    BY <2>1, <2>2, <2>3 DEF CoverInv, CoverAt, Covered, LiveNote, Holds
<1>6. CASE Nack
  <2>1. con'.n = con.n /\ con'.pc = "note" /\ con.pc # "idle"
    BY <1>6, Constants DEF Nack, TypeOK, Job
  <2> QED
    BY <1>2, <1>6, <2>1 DEF Nack, ConStep, tables, history
<1> QED
  BY <1>1, <1>3, <1>4, <1>5, <1>6

\* Every step keeps every note covered; a crash counts what it swallows as lost.
LEMMA CoverStep ==
  ASSUME TypeOK, TodoInv, CoverInv, [Next]_vars
  PROVE  CoverInv'
<1>1. CASE UNCHANGED vars
  BY <1>1 DEF CoverInv, CoverAt, Covered, LiveNote, Holds, vars, tables, history
<1>2. ASSUME NEW h \in Handlers, Fail(h) PROVE CoverInv'
  <2>1. Goto(h, "idle", NoLocal) /\ pc[h] # "publish" /\ UNCHANGED <<note, emb, queue, con>>
    BY <1>2 DEF Fail, Finish, tables
  <2>2. \A n : n \in lost => n \in lost'
    BY <1>2 DEF Fail
  <2> QED
    BY <2>1, <2>2, GotoKeeps, CoverKept DEF CoverInv
<1>3. CASE Crash
  <2>1. con'.pc = "idle" /\ UNCHANGED <<note, emb>>
    BY <1>3, Constants DEF Crash, tables
  <2>2. ASSUME NEW n \in NoteIds, n \notin lost' PROVE n \notin lost /\ ~Owed(n)
    BY <1>3, <2>2 DEF Crash
  <2>3. ASSUME NEW n \in NoteIds, Covered(n), ~Owed(n) PROVE emb[n].ver = note[n].ver
    BY <2>3 DEF Covered, Owed, Holds
  <2> QED
    BY <2>1, <2>2, <2>3 DEF CoverInv, CoverAt, Covered, LiveNote, Holds
<1> QED
  BY <1>1, <1>2, <1>3, RequestCover, ContinueCover, ConsumerCover DEF Next

-----------------------------------------------------------------------------
(* The theorems *)

\* Initially no request has a list, and there is no note to cover.
LEMMA InitIInv ==
  ASSUME Init
  PROVE  IInv
<1>1. TypeOK
  <2>1. book \in [Books -> BookRow]
    BY NotesAssumption DEF Init, BookRow, States, NoBook
  <2> QED
    BY <2>1, Constants DEF Init, TypeOK, PC
<1>2. TodoInv
  BY Constants DEF Init, TodoInv
<1>3. CoverInv
  BY DEF Init, CoverInv, CoverAt, LiveNote, NoNote
<1> QED
  BY <1>1, <1>2, <1>3 DEF IInv

\* The strengthened invariant holds throughout.
THEOREM Inductive == Spec => []IInv
<1>1. Init => IInv
  BY InitIInv
<1>2. IInv /\ [Next]_vars => IInv'
  BY TypeStep, TodoStep, CoverStep DEF IInv
<1> QED
  BY <1>1, <1>2, PTL DEF Spec

\* The tables, the channel, the consumer and every request's copies have their types.
THEOREM TypeCorrect == Spec => []TypeOK
<1>1. IInv => TypeOK
  BY DEF IInv
<1> QED
  BY <1>1, Inductive, PTL

\* Whatever requests overlap, however often the consumer fails and whenever the
\* server restarts: once no message for a note is on its way, its rows in the
\* index are made from its present text, for any number of notes and requests.
THEOREM IndexCatchesUp == Spec => []ContentFresh
<1>1. IInv => ContentFresh
  <2> SUFFICES ASSUME IInv, NEW n \in NoteIds, Quiet(n)
               PROVE  emb[n].ver = note[n].ver
    BY DEF ContentFresh
  <2>1. Covered(n) /\ ~Owed(n)
    BY DEF IInv, CoverInv, CoverAt, Quiet
  <2> QED
    BY <2>1 DEF Covered, Owed, Holds
<1> QED
  BY <1>1, Inductive, PTL

-----------------------------------------------------------------------------
(***************************************************************************)
(* What holds of notes and notebooks while requests come one at a time and *)
(* name live notebooks: the tree is whole, nothing deleted comes back, and *)
(* the index catches up with the names of notebooks.  None of the three is *)
(* inductive, since a request saves a row it read some steps before; the   *)
(* invariant says what that copy is as long as nobody else writes.         *)
(***************************************************************************)

Single == \A g, h \in Handlers : pc[g] # "idle" /\ pc[h] # "idle" => g = h

\* What a request at c holds in l: the row it will save is of a live note in a live
\* notebook, or of a live notebook with a live parent, whose name only a rename changes.
CopyAt(c, l) ==
  /\ c = "note" => LiveNote(l.n) /\ l.note.st = "live" /\ LiveBook(l.note.book)
  /\ c \in {"rename", "parent", "move"} =>
       /\ LiveBook(l.b) /\ l.book.st = "live"
       /\ l.book.parent # None => LiveBook(l.book.parent)
  /\ c \in {"parent", "move"} => l.book.name = book[l.b].name

Tree ==
  /\ \A n \in NoteIds : LiveNote(n) => LiveBook(note[n].book)
  /\ \A b \in Books : LiveBook(b) /\ book[b].parent # None => LiveBook(book[b].parent)

Calm    == Single /\ (\A h \in Handlers : CopyAt(pc[h], loc[h])) /\ Tree
CalmInv == tidy => Calm

-----------------------------------------------------------------------------
(* One request at a time *)

\* A request that leaves the tables as they are keeps things calm if what it holds is as it
\* should be, and if it is the only one.
LEMMA CalmGoto ==
  ASSUME TypeOK, Calm, UNCHANGED tables, NEW h \in Handlers, NEW c \in PC, NEW l \in Local,
         Goto(h, c, l), CopyAt(c, l), pc[h] # "idle" \/ \A g \in Handlers : pc[g] = "idle"
  PROVE  Calm'
<1>1. /\ pc'[h] = c /\ loc'[h] = l
      /\ \A g \in Handlers \ {h} : pc'[g] = pc[g] /\ loc'[g] = loc[g]
  BY DEF Goto, TypeOK
<1>2. Single'
  BY <1>1 DEF Single, Calm
<1>3. \A g \in Handlers : CopyAt(pc[g], loc[g])'
  BY <1>1 DEF CopyAt, LiveNote, LiveBook, tables, Calm
<1>4. Tree'
  BY DEF Tree, LiveNote, LiveBook, tables, Calm
<1> QED
  BY <1>2, <1>3, <1>4 DEF Calm

\* So does one that writes and is the only one, if the tree is whole after it.
LEMMA CalmWrite ==
  ASSUME TypeOK, Calm, NEW h \in Handlers, NEW c \in PC, NEW l \in Local, Goto(h, c, l),
         c \notin {"note", "rename", "parent", "move"}, Tree',
         pc[h] # "idle" \/ \A g \in Handlers : pc[g] = "idle"
  PROVE  Calm'
<1>1. /\ pc'[h] = c /\ \A g \in Handlers \ {h} : pc'[g] = pc[g] /\ loc'[g] = loc[g]
  BY DEF Goto, TypeOK
<1>2. Single' /\ \A g \in Handlers \ {h} : pc'[g] = "idle"
  BY <1>1 DEF Single, Calm
<1>3. \A g \in Handlers : CopyAt(pc[g], loc[g])'
  BY <1>1, <1>2 DEF CopyAt
<1> QED
  BY <1>2, <1>3 DEF Calm

\* Requests as they begin.
LEMMA BeginsCalm ==
  ASSUME TypeOK, CalmInv, tidy', NEW h \in Handlers, NoteRequest(h) \/ BookRequest(h)
  PROVE  Calm'
<1> USE Constants
<1>1. ASSUME NEW c, NEW l, NEW x \in BOOLEAN, Request(h, c, l, x)
      PROVE  Calm /\ x /\ Goto(h, c, l) /\ \A g \in Handlers : pc[g] = "idle"
  BY <1>1 DEF Request, CalmInv
<1>2. clock + 1 \in Nat
  BY DEF TypeOK
<1>3. ASSUME NEW n \in NoteIds, UpdateNote(h, n) PROVE Calm'
  <2> DEFINE l == [NoLocal EXCEPT !.n = n, !.note = [note[n] EXCEPT !.ver = clock + 1]]
  <2>1. Request(h, "note", l, TRUE) /\ UNCHANGED tables /\ LiveNote(n) /\ note[n] \in NoteRow
    BY <1>3 DEF UpdateNote, TypeOK
  <2>2. l \in Local /\ l.n = n /\ l.note.st = note[n].st /\ l.note.book = note[n].book
    BY <1>2, <2>1 DEF Local, NoteRow
  <2>3. Calm /\ Goto(h, "note", l) /\ \A g \in Handlers : pc[g] = "idle"
    BY <1>1, <2>1
  <2> HIDE DEF l
  <2>4. CopyAt("note", l)
    BY <2>1, <2>2, <2>3 DEF CopyAt, Calm, Tree, LiveNote
  <2> QED
    BY <2>1, <2>2, <2>3, <2>4, CalmGoto DEF PC
<1>4. ASSUME NEW n \in NoteIds, DeleteNote(h, n) PROVE Calm'
  <2> DEFINE l == [NoLocal EXCEPT !.n = n]
  <2>1. Request(h, "delete note", l, TRUE) /\ UNCHANGED tables
    BY <1>4 DEF DeleteNote
  <2>2. l \in Local
    BY DEF Local
  <2>3. Calm /\ Goto(h, "delete note", l) /\ \A g \in Handlers : pc[g] = "idle"
    BY <1>1, <2>1
  <2> HIDE DEF l
  <2> QED
    BY <2>1, <2>2, <2>3, CalmGoto DEF PC, CopyAt
<1>5. ASSUME NEW n \in NoteIds, NEW b \in Books, CreateNote(h, n, b) PROVE Calm'
  <2> DEFINE l == [NoLocal EXCEPT !.todo = {n}]
  <2>1. Request(h, "publish", l, LiveBook(b)) /\ UNCHANGED <<book, emb>>
    BY <1>5 DEF CreateNote
  <2>2. l \in Local
    BY DEF Local
  <2>3. Calm /\ LiveBook(b) /\ Goto(h, "publish", l) /\ \A g \in Handlers : pc[g] = "idle"
    BY <1>1, <2>1 DEF LiveBook
  <2>4. Tree'
    <3>1. note'[n].book = b /\ \A m \in NoteIds \ {n} : note'[m] = note[m]
      BY <1>5 DEF CreateNote, TypeOK
    <3> QED
      BY <2>1, <2>3, <3>1 DEF Tree, Calm, LiveNote, LiveBook
  <2> HIDE DEF l
  <2> QED
    BY <2>2, <2>3, <2>4, CalmWrite DEF PC
<1>6. ASSUME NEW n \in NoteIds, NEW b \in Books, MoveNote(h, n, b) PROVE Calm'
  <2> DEFINE l == [NoLocal EXCEPT !.n = n, !.note = [note[n] EXCEPT !.book = b]]
  <2>1. Request(h, "note", l, LiveBook(b)) /\ UNCHANGED tables /\ LiveNote(n) /\ note[n] \in NoteRow
    BY <1>6 DEF MoveNote, TypeOK
  <2>2. l \in Local /\ l.n = n /\ l.note.st = note[n].st /\ l.note.book = b
    BY <2>1 DEF Local, NoteRow
  <2>3. Calm /\ LiveBook(b) /\ Goto(h, "note", l) /\ \A g \in Handlers : pc[g] = "idle"
    BY <1>1, <2>1 DEF LiveBook
  <2> HIDE DEF l
  <2>4. CopyAt("note", l)
    BY <2>1, <2>2, <2>3 DEF CopyAt, LiveNote
  <2> QED
    BY <2>1, <2>2, <2>3, <2>4, CalmGoto DEF PC
<1>7. ASSUME NEW b \in Books, RenameNotebook(h, b) PROVE Calm'
  <2> DEFINE l == [NoLocal EXCEPT !.b = b, !.book = [book[b] EXCEPT !.name = clock + 1]]
  <2>1. Request(h, "rename", l, TRUE) /\ UNCHANGED tables /\ LiveBook(b) /\ book[b] \in BookRow
    BY <1>7 DEF RenameNotebook, TypeOK
  <2>2. l \in Local /\ l.b = b /\ l.book.st = book[b].st /\ l.book.parent = book[b].parent
    BY <1>2, <2>1 DEF Local, BookRow
  <2>3. Calm /\ Goto(h, "rename", l) /\ \A g \in Handlers : pc[g] = "idle"
    BY <1>1, <2>1
  <2> HIDE DEF l
  <2>4. CopyAt("rename", l)
    BY <2>1, <2>2, <2>3 DEF CopyAt, Calm, Tree, LiveBook
  <2> QED
    BY <2>1, <2>2, <2>3, <2>4, CalmGoto DEF PC
<1>8. ASSUME NEW b \in Books, DeleteNotebook(h, b) PROVE Calm'
  <2> DEFINE l == [NoLocal EXCEPT !.b = b]
  <2>1. Request(h, "delete book", l, TRUE) /\ UNCHANGED tables
    BY <1>8 DEF DeleteNotebook
  <2>2. l \in Local
    BY DEF Local
  <2>3. Calm /\ Goto(h, "delete book", l) /\ \A g \in Handlers : pc[g] = "idle"
    BY <1>1, <2>1
  <2> HIDE DEF l
  <2> QED
    BY <2>1, <2>2, <2>3, CalmGoto DEF PC, CopyAt
<1>9. ASSUME NEW b \in Books, NEW p \in Books \cup {None}, CreateNotebook(h, b, p) PROVE Calm'
  <2>1. Request(h, "idle", NoLocal, p # None => LiveBook(p)) /\ UNCHANGED <<note, emb>>
    BY <1>9 DEF CreateNotebook
  <2>2. Calm /\ (p # None => LiveBook(p)) /\ Goto(h, "idle", NoLocal)
          /\ \A g \in Handlers : pc[g] = "idle"
    BY <1>1, <2>1
  <2>3. Tree'
    <3>1. /\ book'[b].st = "live" /\ book'[b].parent = p /\ book[b].st = "absent"
          /\ \A d \in Books \ {b} : book'[d] = book[d]
      BY <1>9 DEF CreateNotebook, TypeOK
    <3>2. \A d \in Books : LiveBook(d) => LiveBook(d)'
      BY <3>1 DEF LiveBook
    <3>3. ASSUME NEW d \in Books, LiveBook(d)', book'[d].parent # None
          PROVE  LiveBook(book[d].parent)'
      BY <2>2, <3>1, <3>2, <3>3 DEF Tree, Calm, LiveBook, TypeOK, BookRow
    <3>4. ASSUME NEW n \in NoteIds, LiveNote(n)' PROVE LiveBook(note[n].book)'
      BY <2>1, <2>2, <3>1, <3>4 DEF Tree, Calm, LiveBook, LiveNote, TypeOK, NoteRow
    <3> QED
      BY <3>3, <3>4 DEF Tree
  <2> QED
    BY <2>2, <2>3, CalmWrite DEF PC
<1>10. ASSUME NEW b \in Books, NEW p \in Books \cup {None}, MoveNotebook(h, b, p) PROVE Calm'
  <2> DEFINE l == [NoLocal EXCEPT !.b = b, !.book = [book[b] EXCEPT !.parent = p]]
             c == IF p = None THEN "move" ELSE "parent"
  <2>1. Request(h, c, l, p # None => LiveBook(p)) /\ UNCHANGED tables /\ LiveBook(b)
          /\ book[b] \in BookRow
    BY <1>10 DEF MoveNotebook, TypeOK
  <2>2. l \in Local /\ l.b = b /\ l.book.st = book[b].st /\ l.book.parent = p
          /\ l.book.name = book[b].name
    BY <2>1 DEF Local, BookRow
  <2>3. c \in {"parent", "move"}
    OBVIOUS
  <2> HIDE DEF l, c
  <2>4. Calm /\ (p # None => LiveBook(p)) /\ Goto(h, c, l) /\ \A g \in Handlers : pc[g] = "idle"
    BY <1>1, <2>1
  <2>5. CopyAt(c, l)
    BY <2>1, <2>2, <2>3, <2>4 DEF CopyAt, LiveBook
  <2> QED
    BY <2>1, <2>2, <2>3, <2>4, <2>5, CalmGoto DEF PC
<1> QED
  BY <1>3, <1>4, <1>5, <1>6, <1>7, <1>8, <1>9, <1>10 DEF NoteRequest, BookRequest

\* Requests as they go on.
LEMMA GoesOnCalm ==
  ASSUME TypeOK, CalmInv, tidy, NEW h \in Handlers, Continue(h)
  PROVE  Calm'
<1> USE Constants
<1>1. Calm /\ CopyAt(pc[h], loc[h]) /\ loc[h] \in Local /\ Tree
  BY DEF CalmInv, Calm, TypeOK
<1>2. CASE SaveNote(h)
  <2> DEFINE n == loc[h].n
  <2>1. /\ pc[h] = "note" /\ note'[n] = loc[h].note /\ \A m \in NoteIds \ {n} : note'[m] = note[m]
        /\ book' = book /\ n \in NoteIds
    BY <1>1, <1>2 DEF SaveNote, TypeOK, Local
  <2>2. Tree'
    BY <1>1, <2>1 DEF Tree, LiveNote, LiveBook, CopyAt
  <2>3. [NoLocal EXCEPT !.todo = {n}] \in Local /\ Goto(h, "publish", [NoLocal EXCEPT !.todo = {n}])
    BY <1>2, <2>1 DEF SaveNote, Local
  <2> QED
    BY <1>1, <2>1, <2>2, <2>3, CalmWrite DEF PC
<1>3. CASE CommitDeleteNote(h)
  <2> DEFINE n == loc[h].n
  <2>1. /\ pc[h] = "delete note" /\ note'[n].st = "deleted"
        /\ \A m \in NoteIds \ {n} : note'[m] = note[m]
        /\ book' = book /\ n \in NoteIds
    BY <1>1, <1>3 DEF CommitDeleteNote, TypeOK, NoteRow, Local
  <2>2. Tree'
    BY <1>1, <2>1 DEF Tree, LiveNote, LiveBook
  <2> QED
    BY <1>1, <1>3, <2>1, <2>2, CalmWrite DEF PC, CommitDeleteNote, Finish
<1>4. CASE Publish(h)
  <2>1. PICK n : IF loc[h].todo = {n} THEN Finish(h)
                 ELSE Goto(h, "publish", [loc[h] EXCEPT !.todo = @ \ {n}])
    BY <1>4 DEF Publish
  <2>2. [loc[h] EXCEPT !.todo = @ \ {n}] \in Local
    BY <1>1 DEF Local
  <2>3. pc[h] = "publish" /\ UNCHANGED tables
    BY <1>4 DEF Publish
  <2>4. CASE Goto(h, "publish", [loc[h] EXCEPT !.todo = @ \ {n}])
    <3>1. PICK l \in Local : Goto(h, "publish", l)
      BY <2>2, <2>4
    <3> QED
      BY <1>1, <2>3, <3>1, CalmGoto DEF PC, CopyAt
  <2>5. CASE Finish(h)
    BY <1>1, <2>3, <2>5, CalmGoto DEF PC, CopyAt, Finish
  <2> QED
    BY <2>1, <2>4, <2>5
<1>5. CASE SaveName(h) \/ SaveMove(h)
  <2> DEFINE d == loc[h].b
  <2>1. /\ pc[h] \in {"rename", "move"} /\ book'[d] = loc[h].book
        /\ \A b \in Books \ {d} : book'[b] = book[b]
        /\ note' = note /\ d \in Books
    BY <1>1, <1>5 DEF SaveName, SaveMove, SaveBook, TypeOK, Local
  <2>2. \A b \in Books : LiveBook(b)' <=> LiveBook(b)
    BY <1>1, <2>1 DEF LiveBook, CopyAt
  <2>3. ASSUME NEW b \in Books, LiveBook(b), book'[b].parent # None PROVE LiveBook(book[b].parent)'
    <3>1. PICK p : p = book'[b].parent
      OBVIOUS
    <3>2. LiveBook(p) /\ p \in Books
      BY <1>1, <2>1, <2>3, <3>1 DEF Tree, CopyAt, TypeOK, BookRow, Local
    <3> QED
      BY <2>2, <3>1, <3>2 DEF LiveBook
  <2>4. ASSUME NEW n \in NoteIds, LiveNote(n) PROVE LiveBook(note[n].book)'
    <3>1. PICK b : b = note[n].book
      OBVIOUS
    <3>2. LiveBook(b) /\ b \in Books
      BY <1>1, <2>4, <3>1 DEF Tree, TypeOK, NoteRow
    <3> QED
      BY <2>1, <2>2, <3>1, <3>2 DEF LiveBook
  <2>5. Tree'
    BY <2>1, <2>2, <2>3, <2>4 DEF Tree, LiveNote
  <2>6. Goto(h, "list", loc[h]) \/ Goto(h, "idle", NoLocal)
    BY <1>5 DEF SaveName, SaveMove, SaveBook
  <2> QED
    BY <1>1, <2>1, <2>5, <2>6, CalmWrite DEF PC
<1>6. CASE ListNotes(h)
  <2>1. [NoLocal EXCEPT !.todo = Within(loc[h].b)] \in Local
    BY DEF Local, Within
  <2>2. pc[h] = "list" /\ UNCHANGED tables
    BY <1>6 DEF ListNotes
  <2>3. Goto(h, "publish", [NoLocal EXCEPT !.todo = Within(loc[h].b)]) \/ Finish(h)
    BY <1>6 DEF ListNotes
  <2> QED
    BY <1>1, <2>1, <2>2, <2>3, CalmGoto DEF PC, CopyAt, Finish
<1>7. CASE FindParent(h)
  <2>1. pc[h] = "parent" /\ UNCHANGED tables /\ (Goto(h, "move", loc[h]) \/ Finish(h))
    BY <1>7 DEF FindParent
  <2>2. CopyAt("move", loc[h]) /\ CopyAt("idle", NoLocal)
    BY <1>1, <2>1 DEF CopyAt
  <2> QED
    BY <1>1, <2>1, <2>2, CalmGoto DEF PC, Finish
<1>8. CASE CommitDeleteNotebook(h)
  <2> DEFINE d == loc[h].b
  <2>1. pc[h] = "delete book" /\ Goto(h, "idle", NoLocal)
    BY <1>8 DEF CommitDeleteNotebook, Finish
  <2>2. \A b \in Books : /\ b # d => book'[b].st = book[b].st
                         /\ LiveBook(b)' => b # d /\ LiveBook(b)
                         /\ LiveBook(b)' => book'[b].parent \in {None, book[b].parent} \ {d}
    <3>1. ASSUME NEW b \in Books, b = d PROVE book'[b].st = "deleted"
      BY <1>8, <3>1 DEF CommitDeleteNotebook, TypeOK, BookRow
    <3>2. ASSUME NEW b \in Books, b # d
          PROVE  book'[b].st = book[b].st
                   /\ (LiveBook(b) => book'[b].parent \in {None, book[b].parent} \ {d})
      <4>1. d # None
        BY <1>1, NotesAssumption DEF Local
      <4>2. CASE LiveBook(b) /\ book[b].parent = d
        <5>1. book'[b] = [book[b] EXCEPT !.parent = None]
          BY <1>8, <3>2, <4>2 DEF CommitDeleteNotebook
        <5> QED
          BY <4>1, <4>2, <5>1 DEF TypeOK, BookRow
      <4>3. CASE ~ (LiveBook(b) /\ book[b].parent = d)
        <5>1. book'[b] = book[b]
          BY <1>8, <3>2, <4>3 DEF CommitDeleteNotebook
        <5> QED
          BY <4>3, <5>1
      <4> QED
        BY <4>2, <4>3
    <3> QED
      BY <3>1, <3>2 DEF LiveBook
  <2>3. \A n \in NoteIds : LiveNote(n)' => LiveNote(n) /\ note'[n] = note[n] /\ note[n].book # d
    <3> SUFFICES ASSUME NEW n \in NoteIds, LiveNote(n)'
                 PROVE  LiveNote(n) /\ note'[n] = note[n] /\ note[n].book # d
      OBVIOUS
    <3>1. CASE n \in Within(d)
      BY <1>8, <3>1 DEF CommitDeleteNotebook, TypeOK, NoteRow, LiveNote
    <3>2. CASE n \notin Within(d)
      BY <1>8, <3>2 DEF CommitDeleteNotebook, LiveNote, Within
    <3> QED
      BY <3>1, <3>2
  <2>4. Tree'
    <3>1. ASSUME NEW n \in NoteIds, LiveNote(n)' PROVE LiveBook(note[n].book)'
      <4>1. PICK b : b = note[n].book
        OBVIOUS
      <4>2. LiveBook(b) /\ b \in Books /\ b # d /\ note'[n].book = b
        BY <1>1, <2>3, <3>1, <4>1 DEF Tree, TypeOK, NoteRow
      <4> QED
        BY <2>2, <4>2 DEF LiveBook
    <3>2. ASSUME NEW b \in Books, LiveBook(b)', book'[b].parent # None
          PROVE  LiveBook(book[b].parent)'
      <4>1. PICK p : p = book[b].parent
        OBVIOUS
      <4>2. LiveBook(b) /\ p # d /\ p # None /\ book'[b].parent = p
        BY <2>2, <3>2, <4>1
      <4>3. LiveBook(p) /\ p \in Books
        BY <1>1, <4>1, <4>2 DEF Tree, TypeOK, BookRow
      <4> QED
        BY <2>2, <4>2, <4>3 DEF LiveBook
    <3> QED
      BY <3>1, <3>2 DEF Tree
  <2> QED
    BY <1>1, <2>1, <2>4, CalmWrite DEF PC
<1> QED
  BY <1>2, <1>3, <1>4, <1>5, <1>6, <1>7, <1>8 DEF Continue

\* Every step keeps CalmInv.
LEMMA CalmStep == TypeOK /\ CalmInv /\ [Next]_vars => CalmInv'
<1> SUFFICES ASSUME TypeOK, CalmInv, [Next]_vars, tidy' PROVE Calm'
  BY DEF CalmInv
<1>1. ASSUME NEW h \in Handlers, NoteRequest(h) \/ BookRequest(h) PROVE Calm'
  BY <1>1, BeginsCalm
<1>2. ASSUME NEW h \in Handlers, Continue(h) PROVE Calm'
  <2>1. tidy' = tidy
    BY <1>2
      DEF Continue, SaveNote, CommitDeleteNote, Publish, SaveName, SaveMove, SaveBook, ListNotes,
          FindParent, CommitDeleteNotebook, history
  <2> QED
    BY <1>2, <2>1, GoesOnCalm
<1>3. ASSUME NEW h \in Handlers, Fail(h) PROVE Calm'
  <2>1. Calm /\ UNCHANGED tables /\ pc[h] # "idle" /\ Goto(h, "idle", NoLocal)
    BY <1>3 DEF Fail, Finish, CalmInv
  <2> QED
    BY <2>1, CalmGoto, Constants DEF PC, CopyAt
<1>4. ASSUME UNCHANGED <<note, book, pc, loc, tidy>> PROVE Calm'
  BY <1>4 DEF CalmInv, Calm, Single, CopyAt, Tree, LiveNote, LiveBook
<1>5. CASE Crash
  BY <1>5 DEF Crash, CalmInv, Calm, Single, CopyAt, Tree, LiveNote, LiveBook, tables
<1> QED
  BY <1>1, <1>2, <1>3, <1>4, <1>5
  DEF Next, vars, tables, history, Take, FindNote, FindNotebook, Commit, Nack, ConStep

-----------------------------------------------------------------------------
(* Nothing deleted comes back *)

Gone ==
  /\ \A n \in NoteIds : note[n].st = "deleted" => note'[n].st = "deleted"
  /\ \A b \in Books : book[b].st = "deleted" => book'[b].st = "deleted"

\* A save is of a row that is live, and a creation of one that never was.
LEMMA GoneStep == TypeOK /\ CalmInv /\ [Next]_vars /\ tidy' => Gone
<1> SUFFICES ASSUME TypeOK, CalmInv, [Next]_vars, tidy' PROVE Gone
  OBVIOUS
<1>1. ASSUME UNCHANGED <<note, book>> PROVE Gone
  BY <1>1 DEF Gone
<1>2. ASSUME NEW h \in Handlers, NEW n \in NoteIds, NEW b \in Books, CreateNote(h, n, b) PROVE Gone
  BY <1>2 DEF CreateNote, Gone, TypeOK
<1>3. ASSUME NEW h \in Handlers, NEW b \in Books, NEW p \in Books \cup {None},
             CreateNotebook(h, b, p)
      PROVE  Gone
  BY <1>3 DEF CreateNotebook, Gone, TypeOK
<1>4. ASSUME NEW h \in Handlers, Continue(h) PROVE Gone
  <2>1. tidy' = tidy /\ loc[h] \in Local
    BY <1>4
      DEF Continue, SaveNote, CommitDeleteNote, Publish, SaveName, SaveMove, SaveBook, ListNotes,
          FindParent, CommitDeleteNotebook, history, TypeOK
  <2>2. CopyAt(pc[h], loc[h])
    BY <2>1 DEF CalmInv, Calm
  <2>3. CASE SaveNote(h)
    BY <2>1, <2>2, <2>3 DEF SaveNote, Gone, TypeOK, Local, CopyAt, LiveNote
  <2>4. CASE CommitDeleteNote(h)
    BY <2>1, <2>4 DEF CommitDeleteNote, Gone, TypeOK, Local, NoteRow
  <2>5. CASE SaveName(h) \/ SaveMove(h)
    BY <2>1, <2>2, <2>5 DEF SaveName, SaveMove, SaveBook, Gone, TypeOK, Local, CopyAt, LiveBook
  <2>6. CASE CommitDeleteNotebook(h)
    <3>1. \A n \in NoteIds : note[n].st = "deleted" => note'[n] = note[n]
      BY <2>6 DEF CommitDeleteNotebook, Within, LiveNote
    <3>2. \A b \in Books : book[b].st = "deleted" => book'[b].st = "deleted"
      BY <2>6 DEF CommitDeleteNotebook, LiveBook, TypeOK, BookRow
    <3> QED
      BY <3>1, <3>2 DEF Gone
  <2> QED
    BY <1>1, <1>4, <2>3, <2>4, <2>5, <2>6 DEF Continue, Publish, ListNotes, FindParent, tables
<1> QED
  BY <1>1, <1>2, <1>3, <1>4
  DEF Next, vars, tables, NoteRequest, BookRequest, UpdateNote, DeleteNote, MoveNote,
      RenameNotebook, DeleteNotebook, MoveNotebook, Fail, Crash, Take, FindNote, FindNotebook,
      Commit, Nack

-----------------------------------------------------------------------------
(* Names catch up *)

NameCovered(n) ==
  \/ queue[n] > 0
  \/ \E h \in Handlers : n \in loc[h].todo \/ (pc[h] = "list" /\ note[n].book = loc[h].b)
  \/ Holds(n) /\ con.pc = "note"
  \/ Holds(n) /\ con.pc = "notebook" /\ con.book = note[n].book
  \/ Holds(n) /\ con.pc = "embed" /\ con.name = Label(note[n].book)
  \/ ~Holds(n) /\ emb[n].name = Label(note[n].book)

NameAt(n) == LiveNote(n) /\ n \notin lost => NameCovered(n)
NameInv   == tidy => \A n \in NoteIds : NameAt(n)

\* A note stays covered if neither its row, nor the name of its notebook, nor the index,
\* nor a message or list is touched.
LEMMA NameKept ==
  ASSUME NEW n \in NoteIds, NameAt(n), note'[n] = note[n], emb'[n] = emb[n], con' = con,
         LiveNote(n) => Label(note[n].book)' = Label(note[n].book),
         queue[n] > 0 => queue'[n] > 0, n \in lost => n \in lost',
         \A h \in Handlers : n \in loc[h].todo => n \in loc'[h].todo,
         \A h \in Handlers : pc[h] = "list" => pc'[h] = "list" /\ loc'[h] = loc[h]
  PROVE  NameAt(n)'
  BY DEF NameAt, NameCovered, LiveNote, Holds

\* A note on the list of a request has its name on the way.
LEMMA NameListed ==
  ASSUME NEW n, NEW h \in Handlers, n \in loc'[h].todo
  PROVE  NameAt(n)'
  BY DEF NameAt, NameCovered

\* A request that is neither listing nor publishing takes nothing away by going on.
LEMMA GotoLists ==
  ASSUME TypeOK, TodoInv, NEW h \in Handlers, pc[h] \notin {"publish", "list"}, NEW c, NEW l,
         Goto(h, c, l)
  PROVE  /\ \A n : \A g \in Handlers : n \in loc[g].todo => n \in loc'[g].todo
         /\ \A g \in Handlers : pc[g] = "list" => pc'[g] = "list" /\ loc'[g] = loc[g]
<1>1. \A n : \A g \in Handlers : n \in loc[g].todo => n \in loc'[g].todo
  BY GotoKeeps
<1>2. \A g \in Handlers : pc[g] = "list" => pc'[g] = "list" /\ loc'[g] = loc[g]
  BY DEF Goto, TypeOK
<1> QED
  BY <1>1, <1>2

\* A request that begins keeps NameInv: as long as requests come one at a time none was under
\* way.
LEMMA BeginsNamed ==
  ASSUME TypeOK, TodoInv, CalmInv, NameInv, tidy', NEW h \in Handlers,
         NoteRequest(h) \/ BookRequest(h)
  PROVE  NameInv'
<1>1. ASSUME NEW c, NEW l, NEW x, Request(h, c, l, x)
      PROVE  /\ tidy /\ con' = con /\ queue' = queue /\ lost' = lost
             /\ \A n : \A g \in Handlers : n \in loc[g].todo => n \in loc'[g].todo
             /\ \A g \in Handlers : pc[g] = "list" => pc'[g] = "list" /\ loc'[g] = loc[g]
  BY <1>1, GotoLists DEF Request
<1>2. ASSUME UNCHANGED tables, NEW c, NEW l, NEW x, Request(h, c, l, x) PROVE NameInv'
  <2>1. ASSUME NEW m \in NoteIds PROVE NameAt(m)'
    BY <1>1, <1>2, NameKept DEF NameInv, tables, Label, LiveBook
  <2> QED
    BY <2>1 DEF NameInv
<1>3. ASSUME NEW n \in NoteIds, NEW b \in Books, CreateNote(h, n, b) PROVE NameInv'
  <2> DEFINE l == [NoLocal EXCEPT !.todo = {n}]
  <2>1. Request(h, "publish", l, LiveBook(b)) /\ UNCHANGED <<book, emb>>
    BY <1>3 DEF CreateNote
  <2>2. n \in loc'[h].todo
    BY <2>1, Constants DEF Request, Goto, TypeOK, Local
  <2>3. ASSUME NEW m \in NoteIds, m # n PROVE NameAt(m)'
    <3>1. note'[m] = note[m]
      BY <1>3, <2>3 DEF CreateNote, TypeOK
    <3> QED
      BY <1>1, <2>1, <3>1, NameKept DEF NameInv, Label, LiveBook
  <2> QED
    BY <2>2, <2>3, NameListed DEF NameInv
<1>4. ASSUME NEW b \in Books, NEW p \in Books \cup {None}, CreateNotebook(h, b, p) PROVE NameInv'
  <2>1. Request(h, "idle", NoLocal, p # None => LiveBook(p)) /\ UNCHANGED <<note, emb>>
    BY <1>4 DEF CreateNotebook
  <2>2. book[b].st = "absent" /\ \A d \in Books \ {b} : book'[d] = book[d]
    BY <1>4 DEF CreateNotebook, TypeOK
  <2>3. ASSUME NEW m \in NoteIds, LiveNote(m) PROVE Label(note[m].book)' = Label(note[m].book)
    <3>1. LiveBook(note[m].book) /\ note[m].book \in Books /\ note'[m] = note[m]
      BY <1>1, <2>1, <2>3 DEF CalmInv, Calm, Tree, TypeOK, NoteRow
    <3> QED
      BY <2>2, <3>1 DEF Label, LiveBook
  <2>4. ASSUME NEW m \in NoteIds PROVE NameAt(m)'
    BY <1>1, <2>1, <2>3, NameKept DEF NameInv
  <2> QED
    BY <2>4 DEF NameInv
<1> QED
  BY <1>2, <1>3, <1>4
  DEF NoteRequest, BookRequest, UpdateNote, DeleteNote, MoveNote, RenameNotebook, DeleteNotebook,
      MoveNotebook

\* What a rename changes is on its way to a list; everything else leaves names alone.
LEMMA GoesOnNamed ==
  ASSUME TypeOK, TodoInv, CalmInv, NameInv, tidy, tidy', NEW h \in Handlers, Continue(h)
  PROVE  NameInv'
<1>1. Calm /\ CopyAt(pc[h], loc[h]) /\ loc[h] \in Local /\ \A n \in NoteIds : NameAt(n)
  BY DEF CalmInv, Calm, TypeOK, NameInv
<1>2. ASSUME UNCHANGED <<note, book, emb, queue, con, lost>>, pc[h] \notin {"publish", "list"},
             NEW c, NEW l, Goto(h, c, l)
      PROVE  NameInv'
  <2>1. ASSUME NEW m \in NoteIds PROVE NameAt(m)'
    BY <1>1, <1>2, GotoLists, NameKept DEF Label, LiveBook
  <2> QED
    BY <2>1 DEF NameInv
<1>3. CASE SaveNote(h)
  <2> DEFINE n == loc[h].n
             l == [NoLocal EXCEPT !.todo = {n}]
  <2>1. Goto(h, "publish", l) /\ pc[h] = "note" /\ UNCHANGED <<book, emb, queue, con, lost>>
    BY <1>3 DEF SaveNote, history
  <2>2. n \in loc'[h].todo
    BY <2>1, Constants DEF Goto, TypeOK, Local
  <2>3. ASSUME NEW m \in NoteIds, m # n PROVE NameAt(m)'
    <3>1. note'[m] = note[m]
      BY <1>3, <2>3 DEF SaveNote, TypeOK
    <3> QED
      BY <1>1, <2>1, <3>1, GotoLists, NameKept DEF Label, LiveBook
  <2> QED
    BY <2>2, <2>3, NameListed DEF NameInv
<1>4. CASE CommitDeleteNote(h)
  <2>1. Goto(h, "idle", NoLocal) /\ pc[h] = "delete note" /\ UNCHANGED <<book, queue, con, lost>>
    BY <1>4 DEF CommitDeleteNote, Finish, history
  <2>2. ASSUME NEW m \in NoteIds, m # loc[h].n PROVE NameAt(m)'
    <3>1. note'[m] = note[m] /\ emb'[m] = emb[m]
      BY <1>4, <2>2 DEF CommitDeleteNote, TypeOK
    <3> QED
      BY <1>1, <2>1, <3>1, GotoLists, NameKept DEF Label, LiveBook
  <2>3. ASSUME NEW m \in NoteIds, m = loc[h].n PROVE NameAt(m)'
    <3>1. note'[m].st = "deleted"
      BY <1>4, <2>3 DEF CommitDeleteNote, TypeOK, NoteRow
    <3> QED
      BY <3>1 DEF NameAt, LiveNote
  <2> QED
    BY <2>2, <2>3 DEF NameInv
<1>5. CASE Publish(h)
  <2>1. PICK n \in loc[h].todo :
          /\ queue' = [queue EXCEPT ![n] = @ + 1]
          /\ lost' = lost \ {n}
          /\ IF loc[h].todo = {n} THEN Finish(h)
             ELSE Goto(h, "publish", [loc[h] EXCEPT !.todo = @ \ {n}])
    BY <1>5 DEF Publish
  <2>2. n \in NoteIds /\ queue'[n] > 0
    BY <1>1, <2>1 DEF TypeOK, Local
  <2>3. UNCHANGED <<note, book, emb, con>> /\ pc[h] = "publish"
    BY <1>5 DEF Publish, tables
  <2>4. ASSUME NEW m \in NoteIds, m # n, NEW g \in Handlers, m \in loc[g].todo
        PROVE  m \in loc'[g].todo
    <3>1. CASE g = h
      BY <1>1, <2>1, <2>4, <3>1 DEF Goto, TypeOK, Local
    <3>2. CASE g # h
      BY <2>1, <2>4, <3>2 DEF Goto, Finish, TypeOK
    <3> QED
      BY <3>1, <3>2
  <2>5. \A g \in Handlers : pc[g] = "list" => pc'[g] = "list" /\ loc'[g] = loc[g]
    BY <2>1, <2>3 DEF Goto, Finish, TypeOK
  <2>6. ASSUME NEW m \in NoteIds, m # n PROVE NameAt(m)'
    <3>1. queue'[m] = queue[m] /\ (m \in lost => m \in lost')
      BY <2>1, <2>6 DEF TypeOK
    <3> QED
      BY <1>1, <2>3, <2>4, <2>5, <2>6, <3>1, NameKept DEF Label, LiveBook
  <2>7. NameAt(n)'
    BY <2>2 DEF NameAt, NameCovered
  <2> QED
    BY <2>6, <2>7 DEF NameInv
<1>6. CASE SaveName(h)
  <2>1. /\ Goto(h, "list", loc[h]) /\ pc[h] = "rename" /\ UNCHANGED <<note, emb, queue, con, lost>>
        /\ \A b \in Books \ {loc[h].b} : book'[b] = book[b]
    BY <1>6 DEF SaveName, SaveBook, history, TypeOK
  <2>2. pc'[h] = "list" /\ loc'[h] = loc[h]
    BY <2>1 DEF Goto, TypeOK
  <2>3. ASSUME NEW m \in NoteIds PROVE NameAt(m)'
    <3>1. CASE note[m].book = loc[h].b
      BY <2>1, <2>2, <3>1 DEF NameAt, NameCovered
    <3>2. CASE note[m].book # loc[h].b
      <4>1. Label(note[m].book)' = Label(note[m].book)
        BY <2>1, <2>3, <3>2 DEF Label, LiveBook, TypeOK, NoteRow
      <4> QED
        BY <1>1, <2>1, <4>1, GotoLists, NameKept
    <3> QED
      BY <3>1, <3>2
  <2> QED
    BY <2>3 DEF NameInv
<1>7. CASE SaveMove(h)
  <2>1. /\ Goto(h, "idle", NoLocal) /\ pc[h] = "move" /\ UNCHANGED <<note, emb, queue, con, lost>>
        /\ book'[loc[h].b] = loc[h].book /\ \A b \in Books \ {loc[h].b} : book'[b] = book[b]
    BY <1>1, <1>7 DEF SaveMove, SaveBook, history, TypeOK, Local
  <2>2. \A b \in Books : Label(b)' = Label(b)
    BY <1>1, <2>1 DEF Label, LiveBook, CopyAt
  <2>3. ASSUME NEW m \in NoteIds PROVE NameAt(m)'
    <3>1. note[m].book \in Books /\ note'[m] = note[m]
      BY <2>1 DEF TypeOK, NoteRow
    <3>2. Label(note[m].book)' = Label(note[m].book)
      BY <2>2, <3>1 DEF Label, LiveBook
    <3> QED
      BY <1>1, <2>1, <3>2, GotoLists, NameKept
  <2> QED
    BY <2>3 DEF NameInv
<1>8. CASE ListNotes(h)
  <2> DEFINE ns == Within(loc[h].b)
  <2>1. /\ pc[h] = "list" /\ UNCHANGED <<note, book, emb, queue, con, lost>>
        /\ IF ns = {} THEN Finish(h) ELSE Goto(h, "publish", [NoLocal EXCEPT !.todo = ns])
    BY <1>8 DEF ListNotes, tables, history
  <2>2. \A m \in ns : m \in loc'[h].todo
    BY <2>1, Constants DEF Goto, TypeOK, Local
  <2>3. loc[h].todo = {}
    BY <2>1 DEF TodoInv
  <2>4. \A g \in Handlers \ {h} : pc'[g] = pc[g] /\ loc'[g] = loc[g]
    BY <2>1 DEF Goto, Finish, TypeOK
  <2>5. ASSUME NEW m \in NoteIds, m \notin ns PROVE NameAt(m)'
    <3>1. LiveNote(m) => note[m].book # loc[h].b
      BY <2>5 DEF Within
    <3>2. ASSUME LiveNote(m), m \notin lost PROVE NameCovered(m)'
      <4>1. NameCovered(m) /\ note[m].book # loc[h].b
        BY <1>1, <3>1, <3>2 DEF NameAt
      <4> QED
        BY <2>1, <2>3, <2>4, <4>1 DEF NameCovered, Holds, Label, LiveBook
    <3> QED
      BY <2>1, <3>2 DEF NameAt, LiveNote
  <2> QED
    BY <2>2, <2>5, NameListed DEF NameInv
<1>9. CASE FindParent(h)
  BY <1>2, <1>9 DEF FindParent, Finish, tables, history
<1>10. CASE CommitDeleteNotebook(h)
  <2> DEFINE d == loc[h].b
  <2>1. Goto(h, "idle", NoLocal) /\ pc[h] = "delete book" /\ UNCHANGED <<queue, con, lost>>
    BY <1>10 DEF CommitDeleteNotebook, Finish, history
  <2>2. ASSUME NEW m \in NoteIds, LiveNote(m)'
        PROVE  LiveNote(m) /\ note'[m] = note[m] /\ note[m].book # d
    <3>1. CASE m \in Within(d)
      BY <1>10, <2>2, <3>1 DEF CommitDeleteNotebook, TypeOK, NoteRow, LiveNote
    <3>2. CASE m \notin Within(d)
      BY <1>10, <2>2, <3>2 DEF CommitDeleteNotebook, LiveNote, Within
    <3> QED
      BY <3>1, <3>2
  <2>3. ASSUME NEW b \in Books, b # d PROVE book'[b].st = book[b].st /\ book'[b].name = book[b].name
    BY <1>10, <2>3 DEF CommitDeleteNotebook, TypeOK, BookRow
  <2>4. ASSUME NEW m \in NoteIds, LiveNote(m)' PROVE NameAt(m)'
    <3>1. emb'[m] = emb[m] /\ note'[m] = note[m] /\ note[m].book \in Books \ {d}
      BY <1>10, <2>2, <2>4 DEF CommitDeleteNotebook, TypeOK, NoteRow
    <3>2. Label(note[m].book)' = Label(note[m].book)
      BY <2>3, <3>1 DEF Label, LiveBook
    <3> QED
      BY <1>1, <2>1, <3>1, <3>2, GotoLists, NameKept
  <2>5. \A m \in NoteIds : NameAt(m)'
    BY <2>4 DEF NameAt
  <2> QED
    BY <2>5 DEF NameInv
<1> QED
  BY <1>3, <1>4, <1>5, <1>6, <1>7, <1>8, <1>9, <1>10 DEF Continue

\* The consumer reads the note and then the name of its notebook; whatever changes either in
\* between has sent, or is about to send, another message.
LEMMA ConsumerNamed ==
  ASSUME TypeOK, NameInv, tidy,
         (\E n \in NoteIds : Take(n)) \/ FindNote \/ FindNotebook \/ Commit \/ Nack
  PROVE  NameInv'
<1> USE DEF NameInv, NameAt, NameCovered, LiveNote, Holds, Label, LiveBook
<1>1. ASSUME NEW n \in NoteIds, Take(n) PROVE NameInv'
  <2>1. con' = [NoJob EXCEPT !.pc = "note", !.n = n] /\ con.pc = "idle"
        /\ UNCHANGED <<note, book, emb, pc, loc, lost>>
    BY <1>1 DEF Take, tables, history
  <2>2. con'.pc = "note" /\ con'.n = n
    BY <2>1, Constants DEF Job
  <2>3. ASSUME NEW m \in NoteIds, m # n PROVE queue'[m] = queue[m]
    BY <1>1, <2>3 DEF Take, TypeOK
  <2> QED
    BY <2>1, <2>2, <2>3
<1>2. CASE FindNote
  <2>1. UNCHANGED <<note, book, emb, queue, pc, loc, lost>> /\ con.pc = "note"
    BY <1>2 DEF FindNote, ConStep, tables, history
  <2>2. CASE LiveNote(con.n)
    <3>1. con'.n = con.n /\ con'.pc = "notebook" /\ con'.book = note[con.n].book
      BY <1>2, <2>2 DEF FindNote, TypeOK, Job
    <3> QED
      BY <2>1, <3>1
  <2>3. CASE ~LiveNote(con.n)
    <3>1. con'.pc = "idle"
      BY <1>2, <2>3, Constants DEF FindNote
    <3> QED
      BY <2>1, <2>3, <3>1
  <2> QED
    BY <2>2, <2>3
<1>3. CASE FindNotebook
  <2>1. con'.n = con.n /\ con'.pc = "embed" /\ con'.name = Label(con.book) /\ con.pc = "notebook"
    BY <1>3 DEF FindNotebook, TypeOK, Job
  <2>2. UNCHANGED <<note, book, emb, queue, pc, loc, lost>>
    BY <1>3 DEF FindNotebook, ConStep, tables, history
  <2> QED
    BY <2>1, <2>2
<1>4. CASE Commit
  <2>1. con'.pc = "idle" /\ con.pc = "embed" /\ UNCHANGED <<note, book, queue, pc, loc, lost>>
    BY <1>4, Constants DEF Commit, ConStep, history
  <2>2. emb'[con.n].name = con.name
    BY <1>4 DEF Commit, TypeOK, Job
  <2>3. ASSUME NEW m \in NoteIds, m # con.n PROVE emb'[m] = emb[m]
    BY <1>4, <2>3 DEF Commit, TypeOK
  <2> QED
    BY <2>1, <2>2, <2>3
<1>5. CASE Nack
  <2>1. con'.n = con.n /\ con'.pc = "note" /\ con.pc # "idle"
    BY <1>5, Constants DEF Nack, TypeOK, Job
  <2>2. UNCHANGED <<note, book, emb, queue, pc, loc, lost>>
    BY <1>5 DEF Nack, ConStep, tables, history
  <2> QED
    BY <2>1, <2>2
<1> QED
  BY <1>1, <1>2, <1>3, <1>4, <1>5

\* Errors and restarts count what they swallow as lost.
LEMMA NameStep == TypeOK /\ TodoInv /\ CalmInv /\ NameInv /\ [Next]_vars => NameInv'
<1> SUFFICES ASSUME TypeOK, TodoInv, CalmInv, NameInv, [Next]_vars, tidy' PROVE NameInv'
  BY DEF NameInv
<1>1. CASE UNCHANGED vars
  BY <1>1 DEF NameInv, NameAt, NameCovered, LiveNote, Holds, Label, LiveBook, vars, tables, history
<1>2. ASSUME NEW h \in Handlers, NoteRequest(h) \/ BookRequest(h) PROVE NameInv'
  BY <1>2, BeginsNamed
<1>3. ASSUME NEW h \in Handlers, Continue(h) PROVE NameInv'
  <2>1. tidy' = tidy
    BY <1>3
      DEF Continue, SaveNote, CommitDeleteNote, Publish, SaveName, SaveMove, SaveBook, ListNotes,
          FindParent, CommitDeleteNotebook, history
  <2> QED
    BY <1>3, <2>1, GoesOnNamed
<1>4. ASSUME (\E n \in NoteIds : Take(n)) \/ FindNote \/ FindNotebook \/ Commit \/ Nack
      PROVE  NameInv'
  <2>1. tidy' = tidy
    BY <1>4 DEF Take, FindNote, FindNotebook, Commit, Nack, ConStep, history
  <2> QED
    BY <1>4, <2>1, ConsumerNamed
<1>5. ASSUME NEW h \in Handlers, Fail(h) PROVE NameInv'
  <2>1. /\ tidy /\ Goto(h, "idle", NoLocal) /\ pc[h] # "publish"
        /\ UNCHANGED <<note, book, emb, queue, con>>
        /\ lost' = IF pc[h] = "list" THEN lost \cup Within(loc[h].b) ELSE lost
    BY <1>5 DEF Fail, Finish, tables
  <2>2. \A g \in Handlers \ {h} : pc'[g] = pc[g] /\ loc'[g] = loc[g]
    BY <2>1 DEF Goto, TypeOK
  <2>3. loc[h].todo = {}
    BY <2>1 DEF TodoInv
  <2>4. ASSUME NEW m \in NoteIds, LiveNote(m), m \notin lost' PROVE NameCovered(m)'
    <3>1. NameCovered(m) /\ ~ (pc[h] = "list" /\ note[m].book = loc[h].b)
      BY <2>1, <2>4 DEF NameInv, NameAt, Within
    <3> QED
      BY <2>1, <2>2, <2>3, <3>1 DEF NameCovered, Holds, Label, LiveBook
  <2> QED
    BY <2>1, <2>4 DEF NameInv, NameAt, LiveNote
<1>6. CASE Crash
  <2>1. tidy /\ con'.pc = "idle" /\ UNCHANGED <<note, book, emb>>
    BY <1>6, Constants DEF Crash, tables
  <2>2. ASSUME NEW n \in NoteIds, n \notin lost' PROVE n \notin lost /\ ~Owed(n)
    BY <1>6, <2>2 DEF Crash
  <2>3. ASSUME NEW n \in NoteIds, LiveNote(n), NameCovered(n), ~Owed(n)
        PROVE  emb[n].name = Label(note[n].book)
    BY <2>3 DEF NameCovered, Owed, Holds, Within
  <2> QED
    BY <2>1, <2>2, <2>3 DEF NameInv, NameAt, NameCovered, LiveNote, Holds, Label, LiveBook
<1> QED
  BY <1>1, <1>2, <1>3, <1>4, <1>5, <1>6 DEF Next

-----------------------------------------------------------------------------
(* The theorems *)

TidyInv == IInv /\ CalmInv /\ NameInv

\* The tables begin with all parts of TidyInv.
LEMMA InitTidy == Init => TidyInv
<1> SUFFICES ASSUME Init PROVE TidyInv
  OBVIOUS
<1>1. IInv
  BY InitIInv
<1>2. CalmInv
  <2>1. \A b \in Books : LiveBook(b) => book[b].parent = None
    BY DEF Init, LiveBook, NoBook
  <2>2. \A n \in NoteIds : ~ LiveNote(n)
    BY DEF Init, LiveNote, NoNote
  <2> QED
    BY <2>1, <2>2 DEF Init, CalmInv, Calm, Single, CopyAt, Tree
<1>3. NameInv
  BY DEF Init, NameInv, NameAt, LiveNote, NoNote
<1> QED
  BY <1>1, <1>2, <1>3 DEF TidyInv

\* All parts of TidyInv hold at all times.
LEMMA Tidy == Spec => []TidyInv
<1>1. TidyInv /\ [Next]_vars => TidyInv'
  BY TypeStep, TodoStep, CoverStep, CalmStep, NameStep DEF TidyInv, IInv
<1> QED
  BY InitTidy, <1>1, PTL DEF Spec

\* However many notes and notebooks there are: while requests come one at a time, creating,
\* moving and deleting them leaves every live note in a live notebook, and every live
\* notebook below none or a live one (CommitDeleteNotebook detaches the children).
THEOREM TreeStaysWhole == Spec => []TreeSound
<1>1. TidyInv => TreeSound
  BY DEF TidyInv, CalmInv, Calm, Tree, TreeSound
<1> QED
  BY <1>1, Tidy, PTL

\* And no save puts back a row that was deleted (GORM's Save inserts what it does not find).
THEOREM DeletedIsFinal == Spec => DeletedStaysDeleted
<1>1. TidyInv /\ [Next]_vars =>
        [tidy' => /\ \A n \in NoteIds : note[n].st = "deleted" => note'[n].st = "deleted"
                  /\ \A b \in Books : book[b].st = "deleted" => book'[b].st = "deleted"]_vars
  BY GoneStep DEF TidyInv, IInv, Gone
<1> QED
  BY <1>1, Tidy, PTL DEF Spec, DeletedStaysDeleted

\* And the index holds the present name of the notebook of every note with no message on
\* its way, whatever the consumer and the embedding provider do.
THEOREM NamesCatchUp == Spec => []NameFresh
<1>1. TidyInv => NameFresh
  <2> SUFFICES ASSUME TidyInv, tidy, NEW n \in NoteIds, Quiet(n)
               PROVE  emb[n].name = Label(note[n].book)
    BY DEF NameFresh
  <2>1. NameCovered(n) /\ ~Owed(n) /\ LiveNote(n)
    BY DEF TidyInv, NameInv, NameAt, Quiet
  <2> QED
    BY <2>1 DEF NameCovered, Owed, Holds, Within
<1> QED
  BY <1>1, Tidy, PTL
=============================================================================
