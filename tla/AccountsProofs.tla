--------------------------- MODULE AccountsProofs ---------------------------
(***************************************************************************)
(* That nobody gets into an account whose address was not proven, and that *)
(* a reset link changes one password.  Requests hold a copy of a row, or a *)
(* link they have tested, while others go on: the invariants say what is   *)
(* true of the copy and of the link until the request ends.                *)
(***************************************************************************)
EXTENDS Accounts, TLAPS

Loc == [u : Users \cup {Nobody}, row : Row, vouch : BOOLEAN, t : Links \cup {Nothing},
        k : Nat \ {0}, gone : SUBSET Tables]
Link == [st : {"none", "live", "used", "expired"}, owner : Users \cup {Nobody}, uses : Nat]
PC   == {"idle", "create", "activate", "sign", "restore", "reset", "save", "purge"}

TypeInv ==
  /\ user \in [Users -> Row] /\ link \in [Links -> Link] /\ data \in [Users -> SUBSET Tables]
  /\ pc \in [Handlers -> PC] /\ loc \in [Handlers -> Loc]
  /\ \A h \in Handlers :
       pc[h] \in {"activate", "sign", "restore", "reset", "save", "purge"} => loc[h].u \in Users
  /\ \A h \in Handlers : pc[h] = "reset" => loc[h].t \in Links /\ link[loc[h].t].st # "none"
  /\ \A t \in Links : link[t].st # "none" => link[t].owner \in Users

-----------------------------------------------------------------------------
(* Records with some fields changed *)

Cell(u, r, b, t) == [u |-> u, row |-> r, vouch |-> b, t |-> t, k |-> 1, gone |-> {}]

\* What a handler holds before it has read anything.
LEMMA NoRowType == NoRow \in Row /\ Blank \in Loc /\ Blank = Cell(Nobody, NoRow, FALSE, Nothing)
<1> DEFINE e == CHOOSE e \in Emails : TRUE
<1>1. e \in Emails
  BY AccountsAssumption
<1> HIDE DEF e
<1>2. NoRow \in Row
  BY <1>1 DEF NoRow, Account, Row, Statuses, e
<1> QED
  BY <1>2 DEF Blank, Loc, Cell

\* What a handler holds once it has read: the record with the fields set.
LEMMA Blanks ==
  ASSUME NEW x \in Users \cup {Nobody}, NEW r \in Row, NEW b \in BOOLEAN,
         NEW t \in Links \cup {Nothing}
  PROVE  /\ [Blank EXCEPT !.row = r] = Cell(Nobody, r, FALSE, Nothing)
         /\ [Blank EXCEPT !.row = r, !.vouch = b] = Cell(Nobody, r, b, Nothing)
         /\ [Blank EXCEPT !.u = x] = Cell(x, NoRow, FALSE, Nothing)
         /\ [Blank EXCEPT !.u = x, !.row = r] = Cell(x, r, FALSE, Nothing)
         /\ [Blank EXCEPT !.u = x, !.t = t] = Cell(x, NoRow, FALSE, t)
         /\ [Blank EXCEPT !.u = x, !.row = r, !.vouch = b] = Cell(x, r, b, Nothing)
         /\ [Blank EXCEPT !.u = x, !.vouch = b, !.row = r] = Cell(x, r, b, Nothing)
         /\ [Blank EXCEPT !.vouch = b, !.row = r] = Cell(Nobody, r, b, Nothing)
<1> DEFINE w1 == [Blank EXCEPT !.row = r]
           w2 == [Blank EXCEPT !.row = r, !.vouch = b]
           w3 == [Blank EXCEPT !.u = x]
           w4 == [Blank EXCEPT !.u = x, !.row = r]
           w5 == [Blank EXCEPT !.u = x, !.t = t]
           w6 == [Blank EXCEPT !.u = x, !.row = r, !.vouch = b]
           w7 == [Blank EXCEPT !.u = x, !.vouch = b, !.row = r]
           w8 == [Blank EXCEPT !.vouch = b, !.row = r]
<1>1. w1 = [Blank EXCEPT !.row = r] /\ w2 = [Blank EXCEPT !.row = r, !.vouch = b]
  OBVIOUS
<1>2. w3 = [Blank EXCEPT !.u = x] /\ w4 = [Blank EXCEPT !.u = x, !.row = r]
  OBVIOUS
<1>3. w5 = [Blank EXCEPT !.u = x, !.t = t] /\ w6 = [Blank EXCEPT !.u = x, !.row = r, !.vouch = b]
  OBVIOUS
<1>a. w7 = [Blank EXCEPT !.u = x, !.vouch = b, !.row = r]
        /\ w8 = [Blank EXCEPT !.vouch = b, !.row = r]
  OBVIOUS
<1> HIDE DEF w1, w2, w3, w4, w5, w6, w7, w8
<1>4. w1 = Cell(Nobody, r, FALSE, Nothing)
  BY <1>1, NoRowType DEF Cell
<1>5. w2 = Cell(Nobody, r, b, Nothing)
  BY <1>1, NoRowType DEF Cell
<1>6. w3 = Cell(x, NoRow, FALSE, Nothing)
  BY <1>2, NoRowType DEF Cell
<1>7. w4 = Cell(x, r, FALSE, Nothing)
  BY <1>2, NoRowType DEF Cell
<1>8. w5 = Cell(x, NoRow, FALSE, t)
  BY <1>3, NoRowType DEF Cell
<1>9. w6 = Cell(x, r, b, Nothing)
  BY <1>3, NoRowType DEF Cell
<1>b. w7 = Cell(x, r, b, Nothing)
  BY <1>a, NoRowType DEF Cell
<1>c. w8 = Cell(Nobody, r, b, Nothing)
  BY <1>a, NoRowType DEF Cell
<1> QED
  BY <1>4, <1>5, <1>6, <1>7, <1>8, <1>9, <1>b, <1>c DEF w1, w2, w3, w4, w5, w6, w7, w8

\* It is a record of a handler, with these fields.
LEMMA CellType ==
  ASSUME NEW x \in Users \cup {Nobody}, NEW r \in Row, NEW b \in BOOLEAN,
         NEW t \in Links \cup {Nothing}
  PROVE  Cell(x, r, b, t) \in Loc /\ Cell(x, r, b, t).u = x /\ Cell(x, r, b, t).row = r
         /\ Cell(x, r, b, t).vouch = b /\ Cell(x, r, b, t).t = t
  BY DEF Cell, Loc

\* A new account is a row, verified and with the role it was made with.
LEMMA AccountType ==
  ASSUME NEW e \in Emails, NEW s \in Statuses, NEW v \in BOOLEAN, NEW w \in BOOLEAN,
         NEW r \in {"user", "admin"}
  PROVE  /\ Account(e, s, v, w, r) \in Row
         /\ Account(e, s, v, w, r).verified = v /\ Account(e, s, v, w, r).role = r
  BY DEF Account, Row

-----------------------------------------------------------------------------
(* What the steps of requests do to their program counters and copies *)

Moved(h, l, c) == pc' = [pc EXCEPT ![h] = l] /\ loc' = [loc EXCEPT ![h] = c]

\* A handler that moves on leaves the others where they are.
LEMMA MovedType ==
  ASSUME TypeInv, NEW h \in Handlers, NEW l \in PC, NEW c \in Loc, Moved(h, l, c)
  PROVE  /\ pc' \in [Handlers -> PC] /\ loc' \in [Handlers -> Loc]
         /\ pc'[h] = l /\ loc'[h] = c
         /\ \A k \in Handlers \ {h} : pc'[k] = pc[k] /\ loc'[k] = loc[k]
  BY DEF TypeInv, Moved

\* A handler that ends holds nothing.
LEMMA IdleMoves == ASSUME NEW h, Idle(h) PROVE Moved(h, "idle", Blank)
  BY DEF Idle, Moved

\* A request begins with a row to make, an account, or both.
LEMMA StartsCreate ==
  ASSUME NEW h \in Handlers, NEW e \in Emails
  PROVE  /\ Register(h, e) =>
              Moved(h, "create",
                    Cell(Nobody, Account(e, "pending", FALSE, TRUE, "user"), FALSE, Nothing))
         /\ \A r \in {"user", "admin"} : AdminCreate(h, e, r) =>
              Moved(h, "create", Cell(Nobody, Account(e, "active", TRUE, TRUE, r), TRUE, Nothing))
         /\ \A v \in BOOLEAN : HandleCallback(h, e, v) =>
              \/ \E u \in Having(e) :
                   Moved(h, "sign", Cell(u, NoRow, FALSE, Nothing)) /\ Shown(u, v)
              \/ /\ UNCHANGED shown /\ Having(e) = {}
                 /\ \E u \in Taken(e) :
                      Moved(h, "restore",
                            Cell(u, Account(e, "active", TRUE, FALSE, "user"), v, Nothing))
              \/ /\ UNCHANGED shown
                 /\ Moved(h, "create",
                          Cell(Nobody, Account(e, "active", TRUE, FALSE, "user"), v, Nothing))
<1> DEFINE a == Account(e, "pending", FALSE, TRUE, "user")
           c == Account(e, "active", TRUE, FALSE, "user")
<1>1. a \in Row /\ c \in Row
  BY AccountType DEF Statuses
<1> HIDE DEF a, c
<1>2. Register(h, e) => Moved(h, "create", Cell(Nobody, a, FALSE, Nothing))
  BY <1>1, Blanks DEF Register, Start, Moved, a
<1>3. ASSUME NEW r \in {"user", "admin"}, AdminCreate(h, e, r)
      PROVE  Moved(h, "create", Cell(Nobody, Account(e, "active", TRUE, TRUE, r), TRUE, Nothing))
  <2> DEFINE b == Account(e, "active", TRUE, TRUE, r)
  <2>1. b \in Row
    BY AccountType DEF Statuses
  <2>2. Start(h, "create", [Blank EXCEPT !.row = b, !.vouch = TRUE])
    BY <1>3 DEF AdminCreate
  <2> HIDE DEF b
  <2>3. [Blank EXCEPT !.row = b, !.vouch = TRUE] = Cell(Nobody, b, TRUE, Nothing)
    BY <2>1, Blanks
  <2>4. Moved(h, "create", Cell(Nobody, b, TRUE, Nothing))
    BY <2>2, <2>3 DEF Start, Moved
  <2> QED
    BY <2>4 DEF b
<1>4. ASSUME NEW v \in BOOLEAN, HandleCallback(h, e, v)
      PROVE  \/ \E u \in Having(e) :
                  Moved(h, "sign", Cell(u, NoRow, FALSE, Nothing)) /\ Shown(u, v)
             \/ /\ UNCHANGED shown /\ Having(e) = {}
                /\ \E u \in Taken(e) : Moved(h, "restore", Cell(u, c, v, Nothing))
             \/ UNCHANGED shown /\ Moved(h, "create", Cell(Nobody, c, v, Nothing))
  <2>1. \A u \in Users :
          /\ [Blank EXCEPT !.u = u] = Cell(u, NoRow, FALSE, Nothing)
          /\ [Blank EXCEPT !.u = u, !.vouch = v, !.row = c] = Cell(u, c, v, Nothing)
    BY <1>1, Blanks
  <2>2. [Blank EXCEPT !.vouch = v, !.row = c] = Cell(Nobody, c, v, Nothing)
    BY <1>1, Blanks
  <2>3. ASSUME NEW u \in Having(e), Start(h, "sign", [Blank EXCEPT !.u = u])
        PROVE  Moved(h, "sign", Cell(u, NoRow, FALSE, Nothing))
    BY <2>1, <2>3 DEF Having, Start, Moved
  <2>4. ASSUME NEW u \in Taken(e),
               Start(h, "restore", [Blank EXCEPT !.u = u, !.vouch = v, !.row = c])
        PROVE  Moved(h, "restore", Cell(u, c, v, Nothing))
    BY <2>1, <2>4 DEF Taken, Start, Moved
  <2>5. ASSUME Start(h, "create", [Blank EXCEPT !.vouch = v, !.row = c])
        PROVE  Moved(h, "create", Cell(Nobody, c, v, Nothing))
    BY <2>2, <2>5 DEF Start, Moved
  <2> QED
    BY <1>4, <2>3, <2>4, <2>5 DEF HandleCallback, c
<1> QED
  BY <1>2, <1>3, <1>4 DEF a, c

\* Where the requests that go on after their first statement are, and what they hold then.
LEMMA StartsOn ==
  ASSUME TypeInv, NEW h \in Handlers, NEW u \in Users
  PROVE  /\ VerifyEmail(h, u) => Moved(h, "activate", Cell(u, NoRow, FALSE, Nothing))
         /\ PurgeUsers(h, u) => Moved(h, "purge", Cell(u, NoRow, FALSE, Nothing))
         /\ UpdateProfile(h, u) => Moved(h, "save", Cell(u, user[u], FALSE, Nothing))
         /\ \A r \in Row : UpdateUser(h, u, r) => Moved(h, "save", Cell(u, r, TRUE, Nothing))
         /\ \A t \in Links :
              link[t].owner = u /\ ResetPassword(h, t) =>
                Moved(h, "reset", Cell(u, NoRow, FALSE, t))
<1>1. user[u] \in Row
  BY DEF TypeInv
<1>2. [Blank EXCEPT !.u = u] = Cell(u, NoRow, FALSE, Nothing)
        /\ [Blank EXCEPT !.u = u, !.row = user[u]] = Cell(u, user[u], FALSE, Nothing)
  BY <1>1, Blanks
<1>3. \A r \in Row : [Blank EXCEPT !.u = u, !.row = r, !.vouch = TRUE] = Cell(u, r, TRUE, Nothing)
  BY Blanks
<1>4. \A t \in Links : [Blank EXCEPT !.u = u, !.t = t] = Cell(u, NoRow, FALSE, t)
  BY <1>1, Blanks
<1>5. VerifyEmail(h, u) => Moved(h, "activate", Cell(u, NoRow, FALSE, Nothing))
  BY <1>2 DEF VerifyEmail, Start, Moved
<1>6. PurgeUsers(h, u) => Moved(h, "purge", Cell(u, NoRow, FALSE, Nothing))
  BY <1>2 DEF PurgeUsers, Start, Moved
<1>7. UpdateProfile(h, u) => Moved(h, "save", Cell(u, user[u], FALSE, Nothing))
  BY <1>2 DEF UpdateProfile, Start, Moved
<1>8. \A r \in Row : UpdateUser(h, u, r) => Moved(h, "save", Cell(u, r, TRUE, Nothing))
  BY <1>3 DEF UpdateUser, Start, Moved
<1>9. \A t \in Links :
        link[t].owner = u /\ ResetPassword(h, t) => Moved(h, "reset", Cell(u, NoRow, FALSE, t))
  BY <1>4 DEF ResetPassword, Start, Moved
<1> QED
  BY <1>5, <1>6, <1>7, <1>8, <1>9

\* After the deleted row is back, the request signs in to the account found, or makes one.
LEMMA RestoreMoves ==
  ASSUME TypeInv, NEW h \in Handlers, Restore(h)
  PROVE  \/ \E w \in Users :
              Moved(h, "sign", Cell(w, NoRow, FALSE, Nothing)) /\ Shown(w, loc[h].vouch)
         \/ UNCHANGED shown
              /\ Moved(h, "create", Cell(Nobody, loc[h].row, loc[h].vouch, Nothing))
<1>1. loc[h].row \in Row /\ loc[h].vouch \in BOOLEAN
  BY DEF Restore, TypeInv, Loc
<1>2. \A w \in Users : [Blank EXCEPT !.u = w] = Cell(w, NoRow, FALSE, Nothing)
  BY <1>1, Blanks
<1>3. [Blank EXCEPT !.row = loc[h].row, !.vouch = loc[h].vouch]
        = Cell(Nobody, loc[h].row, loc[h].vouch, Nothing)
  BY <1>1, Blanks
<1>4. \/ \E w \in Users : Goto(h, "sign", [Blank EXCEPT !.u = w]) /\ Shown(w, loc[h].vouch)
      \/ UNCHANGED shown
           /\ Goto(h, "create", [Blank EXCEPT !.row = loc[h].row, !.vouch = loc[h].vouch])
  BY DEF Restore
<1> QED
  BY <1>2, <1>3, <1>4 DEF Goto, Moved

-----------------------------------------------------------------------------
(* Types *)

\* The parts of the type invariant that a step may disturb besides the requests'.
Tabled == /\ user' \in [Users -> Row] /\ link' \in [Links -> Link]
          /\ data' \in [Users -> SUBSET Tables]
          /\ \A t \in Links : link'[t].st # "none" => link'[t].owner \in Users
          /\ \A t \in Links : link[t].st # "none" => link'[t].st # "none"

\* A handler that moves on holds an account where it needs one, and a link where it needs one.
LEMMA MovesType ==
  ASSUME TypeInv, Tabled, NEW h \in Handlers, NEW l \in PC, NEW c \in Loc, Moved(h, l, c),
         l \notin {"idle", "create"} => c.u \in Users,
         l = "reset" => c.t \in Links /\ link[c.t].st # "none"
  PROVE  TypeInv'
<1>1. /\ pc' \in [Handlers -> PC] /\ loc' \in [Handlers -> Loc] /\ pc'[h] = l /\ loc'[h] = c
      /\ \A k \in Handlers \ {h} : pc'[k] = pc[k] /\ loc'[k] = loc[k]
  BY MovedType
<1>2. \A k \in Handlers :
        pc'[k] \in {"activate", "sign", "restore", "reset", "save", "purge"} => loc'[k].u \in Users
  BY <1>1 DEF TypeInv
<1>3. \A k \in Handlers : pc'[k] = "reset" => loc'[k].t \in Links /\ link'[loc'[k].t].st # "none"
  BY <1>1 DEF TypeInv, Tabled
<1> QED
  BY <1>1, <1>2, <1>3 DEF TypeInv, Tabled

\* A request that goes on with an account, or with none.
LEMMA MovesOn ==
  ASSUME TypeInv, Tabled, NEW h \in Handlers, NEW l \in PC \ {"reset"},
         NEW x \in Users \cup {Nobody},
         NEW r \in Row, NEW b \in BOOLEAN, Moved(h, l, Cell(x, r, b, Nothing)),
         l # "create" => x \in Users
  PROVE  TypeInv'
<1> DEFINE c == Cell(x, r, b, Nothing)
<1>1. c \in Loc /\ c.u = x
  BY CellType
<1> HIDE DEF c
<1>2. Moved(h, l, c)
  BY DEF c
<1> QED
  BY <1>1, <1>2, MovesType

\* The changes of a row.
LEMMA Rows ==
  ASSUME user \in [Users -> Row], NEW u \in Users, NEW a \in {"live", "deleted", "purged"},
         NEW s \in Statuses,
         \/ user' = user
         \/ user' = [user EXCEPT ![u].st = a]
         \/ user' = [user EXCEPT ![u].status = s]
         \/ user' = [user EXCEPT ![u].st = a, ![u].status = s]
         \/ user' = [user EXCEPT ![u].status = s, ![u].verified = TRUE]
         \/ user' = [user EXCEPT ![u].pw = TRUE]
  PROVE  user' \in [Users -> Row]
<1>1. \A v \in Users : user[v] \in Row
  OBVIOUS
<1>2. CASE user' = [user EXCEPT ![u].st = a]
  BY <1>1, <1>2 DEF Row
<1>3. CASE user' = [user EXCEPT ![u].status = s]
  BY <1>1, <1>3 DEF Row
<1>4. CASE user' = [user EXCEPT ![u].st = a, ![u].status = s]
  BY <1>1, <1>4 DEF Row
<1>5. CASE user' = [user EXCEPT ![u].status = s, ![u].verified = TRUE]
  BY <1>1, <1>5 DEF Row
<1>6. CASE user' = [user EXCEPT ![u].pw = TRUE]
  BY <1>1, <1>6 DEF Row
<1> QED
  BY <1>2, <1>3, <1>4, <1>5, <1>6

\* If the tables are left alone they stay tables.
LEMMA StaysTabled == ASSUME TypeInv, UNCHANGED <<user, link, data>> PROVE Tabled
  BY DEF TypeInv, Tabled

\* Every step keeps the types.
LEMMA TypeStep == TypeInv /\ [Next]_vars => TypeInv'
<1> SUFFICES ASSUME TypeInv, [Next]_vars PROVE TypeInv'
  OBVIOUS
<1> USE DEF tables, history
<1>0. \A l \in PC :
        l \in {"idle", "create", "activate", "sign", "restore", "reset", "save", "purge"}
  BY DEF PC
<1>1. ASSUME NEW h \in Handlers, NEW e \in Emails,
             Register(h, e) \/ (\E v \in BOOLEAN : HandleCallback(h, e, v))
               \/ \E r \in {"user", "admin"} : AdminCreate(h, e, r)
      PROVE  TypeInv'
  <2>1. Tabled
    BY <1>1, StaysTabled DEF Register, HandleCallback, AdminCreate
  <2>2. ASSUME NEW u \in Users, NEW l \in {"sign", "restore"}, NEW r \in Row, NEW b \in BOOLEAN,
               Moved(h, l, Cell(u, r, b, Nothing))
        PROVE  TypeInv'
    BY <2>1, <2>2, MovesOn DEF PC
  <2>3. ASSUME NEW r \in Row, NEW b \in BOOLEAN, Moved(h, "create", Cell(Nobody, r, b, Nothing))
        PROVE  TypeInv'
    BY <2>1, <2>3, MovesOn DEF PC
  <2>4. /\ Account(e, "pending", FALSE, TRUE, "user") \in Row
        /\ Account(e, "active", TRUE, FALSE, "user") \in Row
        /\ \A r \in {"user", "admin"} : Account(e, "active", TRUE, TRUE, r) \in Row
    BY AccountType DEF Statuses
  <2>5. Having(e) \subseteq Users /\ Taken(e) \subseteq Users
    BY DEF Having, Taken
  <2> QED
    BY <1>1, <2>2, <2>3, <2>4, <2>5, NoRowType, StartsCreate
<1>2. ASSUME NEW h \in Handlers, NEW u \in Users,
             VerifyEmail(h, u) \/ UpdateProfile(h, u) \/ PurgeUsers(h, u)
               \/ \E c \in Changes(user[u]) : UpdateUser(h, u, c)
      PROVE  TypeInv'
  <2>1. Tabled
    BY <1>2, StaysTabled DEF VerifyEmail, UpdateProfile, PurgeUsers, UpdateUser
  <2>2. user[u] \in Row /\ \A c \in Changes(user[u]) : c \in Row
    BY DEF TypeInv, Changes, Row
  <2>3. PICK l \in {"activate", "purge", "save"}, r \in Row, b \in BOOLEAN :
          Moved(h, l, Cell(u, r, b, Nothing))
    BY <1>2, <2>2, StartsOn, NoRowType
  <2> QED
    BY <2>1, <2>3, MovesOn DEF PC
<1>3. ASSUME NEW h \in Handlers, NEW t \in Links, ResetPassword(h, t) PROVE TypeInv'
  <2>1. Tabled
    BY <1>3, StaysTabled DEF ResetPassword
  <2>2. PICK u \in Users : u = link[t].owner
    BY <1>3 DEF ResetPassword, TypeInv
  <2>3. Moved(h, "reset", Cell(u, NoRow, FALSE, t))
    BY <1>3, <2>2, StartsOn
  <2>4. link[t].st # "none"
    BY <1>3 DEF ResetPassword
  <2> DEFINE c == Cell(u, NoRow, FALSE, t)
  <2>5. c \in Loc /\ c.u = u /\ c.t = t
    BY NoRowType DEF Cell, Loc
  <2> HIDE DEF c
  <2>6. Moved(h, "reset", c)
    BY <2>3 DEF c
  <2> QED
    BY <2>1, <2>4, <2>5, <2>6, MovesType DEF PC
<1>4. ASSUME NEW h \in Handlers, NEW u \in Users, Create(h, u) PROVE TypeInv'
  <2>1. Tabled
    BY <1>4 DEF Create, TypeInv, Tabled, Loc
  <2>2. Moved(h, "idle", Blank) \/ Moved(h, "sign", Cell(u, NoRow, FALSE, Nothing))
    <3>1. [Blank EXCEPT !.u = u] = Cell(u, NoRow, FALSE, Nothing)
      BY Blanks, NoRowType
    <3> QED
      BY <1>4, <3>1, IdleMoves DEF Create, Goto, Moved
  <2> QED
    BY <2>1, <2>2, NoRowType, MovesType, MovesOn DEF PC
<1>5. ASSUME NEW h \in Handlers, Restore(h) PROVE TypeInv'
  <2>0. loc[h].u \in Users /\ loc[h].row \in Row /\ loc[h].vouch \in BOOLEAN
    BY <1>5 DEF Restore, TypeInv, Loc
  <2>1. Tabled
    <3>1. user' = user
            \/ user' = [user EXCEPT ![loc[h].u].st = "live", ![loc[h].u].status = "active"]
      BY <1>5 DEF Restore
    <3>2. user' \in [Users -> Row]
      BY <2>0, <3>1, Rows DEF TypeInv, Statuses
    <3> QED
      BY <1>5, <3>2 DEF Restore, TypeInv, Tabled
  <2>2. PICK x \in Users, r \in Row, b \in BOOLEAN, l \in {"sign", "create"} :
          Moved(h, l, Cell(IF l = "sign" THEN x ELSE Nobody, r, b, Nothing))
    BY <1>5, <2>0, RestoreMoves, NoRowType
  <2> QED
    BY <2>1, <2>2, MovesOn DEF PC
<1>6. ASSUME NEW h \in Handlers, CreateFails(h) \/ Sign(h) \/ Fail(h) PROVE TypeInv'
  BY <1>6, StaysTabled, IdleMoves, NoRowType, MovesType DEF CreateFails, Sign, Fail, PC
<1>7. ASSUME NEW h \in Handlers, Activate(h) PROVE TypeInv'
  <2>0. loc[h].u \in Users
    BY <1>7 DEF Activate, TypeInv
  <2>1. user' = user
          \/ user' = [user EXCEPT ![loc[h].u].status = "active", ![loc[h].u].verified = TRUE]
    BY <1>7 DEF Activate
  <2>2. Tabled
    <3>1. user' \in [Users -> Row]
      BY <2>0, <2>1, Rows DEF TypeInv, Statuses
    <3> QED
      BY <1>7, <3>1 DEF Activate, TypeInv, Tabled
  <2> QED
    BY <1>7, <2>2, IdleMoves, NoRowType, MovesType DEF Activate, PC
<1>8. ASSUME NEW h \in Handlers, ResetCommit(h) PROVE TypeInv'
  <2>0. loc[h].u \in Users /\ loc[h].t \in Links
    BY <1>8 DEF ResetCommit, TypeInv
  <2>1. user' \in [Users -> Row]
    <3>1. user' = user \/ user' = [user EXCEPT ![loc[h].u].pw = TRUE]
      BY <1>8 DEF ResetCommit
    <3> QED
      BY <2>0, <3>1, Rows DEF TypeInv, Statuses
  <2>2. /\ link' \in [Links -> Link]
        /\ \A t \in Links :
             link'[t].owner = link[t].owner
               /\ (link'[t].st = link[t].st \/ (t = loc[h].t /\ link'[t].st = "used"))
    <3>1. link' = [link EXCEPT ![loc[h].t].st = "used", ![loc[h].t].uses = @ + 1]
      BY <1>8 DEF ResetCommit
    <3> QED
      BY <2>0, <3>1 DEF TypeInv, Link
  <2>3. Tabled
    BY <1>8, <2>0, <2>1, <2>2 DEF ResetCommit, Tabled, TypeInv
  <2> QED
    BY <1>8, <2>3, IdleMoves, NoRowType, MovesType DEF ResetCommit, PC
<1>9. ASSUME NEW h \in Handlers, Save(h) PROVE TypeInv'
  <2>1. loc[h].u \in Users /\ loc[h].row \in Row
    BY <1>9 DEF Save, TypeInv, Loc
  <2>2. user' = user \/ user' = [user EXCEPT ![loc[h].u] = loc[h].row]
    BY <1>9 DEF Save
  <2>3. Tabled
    BY <1>9, <2>1, <2>2 DEF Save, Tabled, TypeInv
  <2> QED
    BY <1>9, <2>3, IdleMoves, NoRowType, MovesType DEF Save, PC
<1>10. ASSUME NEW h \in Handlers, PurgeTable(h) PROVE TypeInv'
  <2>1. loc[h] \in Loc /\ loc[h].u \in Users /\ pc[h] = "purge"
    BY <1>10 DEF PurgeTable, Empties, TypeInv
  <2>2. PICK t, n :
          loc' = [loc EXCEPT ![h].k = n, ![h].gone = t] /\ n \in Nat \ {0} /\ t \in SUBSET Tables
    <3>1. View(h) \subseteq Tables /\ loc[h].gone \subseteq Tables 
      BY <2>1 DEF View, TypeInv, Loc
    <3>0. PICK i \in DOMAIN Order : Empties(h, i, Order[i])
      BY <1>10 DEF PurgeTable
    <3> DEFINE t == Order[i]
               g == loc[h].gone \cup {x \in {t} : x \in View(h) /\ Via(t) \subseteq View(h)}
    <3>2. g \subseteq Tables
      BY <3>1
    <3>3. loc' = [loc EXCEPT ![h].k = i + 1, ![h].gone = g] /\ i + 1 \in Nat \ {0}
      BY <3>0 DEF Empties, Order
    <3> QED
      BY <3>2, <3>3
  <2>3. loc' \in [Handlers -> Loc]
          /\ \A k \in Handlers : loc'[k].u = loc[k].u /\ loc'[k].t = loc[k].t
    BY <2>1, <2>2 DEF TypeInv, Loc
  <2> QED
    BY <1>10, <2>3 DEF PurgeTable, Empties, TypeInv
<1>11. ASSUME NEW h \in Handlers, PurgeCommit(h) PROVE TypeInv'
  <2>1. loc[h].u \in Users /\ loc[h].gone \subseteq Tables
    BY <1>11 DEF PurgeCommit, TypeInv, Loc
  <2>2. View(h) \subseteq Tables
    BY <2>1 DEF View, TypeInv
  <2>3. user' = user \/ user' = [user EXCEPT ![loc[h].u].st = "purged"]
    BY <1>11 DEF PurgeCommit
  <2>4. user' \in [Users -> Row]
    BY <2>1, <2>3, Rows DEF TypeInv, Statuses
  <2>5. Tabled
    BY <1>11, <2>1, <2>2, <2>4 DEF PurgeCommit, Tabled, TypeInv
  <2> QED
    BY <1>11, <2>5, IdleMoves, NoRowType, MovesType DEF PurgeCommit, PC
<1>12. ASSUME UNCHANGED <<pc, loc>>, Tabled PROVE TypeInv'
  BY <1>12 DEF TypeInv, Tabled
<1>13. ASSUME NEW u \in Users, CodeExpires(u) \/ Login(u) \/ LoginAdmin(u) \/ TokenExpires(u)
       PROVE  TypeInv'
  BY <1>12, <1>13, StaysTabled DEF CodeExpires, Login, LoginAdmin, TokenExpires
<1>14. ASSUME NEW u \in Users, DeleteUser(u) \/ \E s \in Statuses : UpdateStatus(u, s)
       PROVE  TypeInv'
  <2>1. PICK s \in Statuses :
          user' = [user EXCEPT ![u].st = "deleted"] \/ user' = [user EXCEPT ![u].status = s]
    BY <1>14 DEF DeleteUser, UpdateStatus, Statuses
  <2>2. user' \in [Users -> Row]
    BY <2>1, Rows DEF TypeInv
  <2>3. UNCHANGED <<pc, loc, link, data>>
    BY <1>14 DEF DeleteUser, UpdateStatus
  <2> QED
    BY <1>12, <2>2, <2>3 DEF TypeInv, Tabled
<1>15. ASSUME NEW u \in Users, NEW t \in Links, ForgotPassword(u, t) PROVE TypeInv'
  BY <1>12, <1>15 DEF ForgotPassword, TypeInv, Tabled, Link
<1>16. ASSUME NEW u \in Users, NEW t \in Tables, AddRow(u, t) PROVE TypeInv'
  BY <1>12, <1>16 DEF AddRow, TypeInv, Tabled
<1>17. ASSUME NEW t \in Links, LinkExpires(t) PROVE TypeInv'
  BY <1>12, <1>17 DEF LinkExpires, TypeInv, Tabled, Link
<1>18. CASE UNCHANGED vars
  BY <1>12, <1>18, StaysTabled DEF vars
<1> QED
  BY <1>1, <1>2, <1>3, <1>4, <1>5, <1>6, <1>7, <1>8, <1>9, <1>10, <1>11, <1>13, <1>14, <1>15, <1>16,
     <1>17, <1>18
  DEF Next

-----------------------------------------------------------------------------
(* A link and the requests that have tested it *)

Resets(h, t) == pc[h] = "reset" /\ loc[h].t = t

\* Of a link that no two requests use at once, one request has it, before which it was
\* not used; a link that is good was not used.
LinkInv ==
  /\ \A t \in Links : link[t].st \in {"none", "live"} => link[t].uses = 0
  /\ \A t \in Links \ doubled :
       /\ link[t].uses <= 1
       /\ \A h \in Handlers :
            Resets(h, t) => link[t].uses = 0 /\ \A k \in Handlers : Resets(k, t) => k = h

\* A step that lets no further request past the test of a link keeps LinkInv.
LEMMA LinkKept ==
  ASSUME TypeInv, LinkInv, doubled \subseteq doubled', UNCHANGED link,
         \A h \in Handlers, t \in Links : Resets(h, t)' => Resets(h, t)
  PROVE  LinkInv'
  BY DEF LinkInv

\* A request that moves on, but not to the last step of a reset.
LEMMA ElsewhereKept ==
  ASSUME TypeInv, NEW h \in Handlers, NEW l, NEW c, l # "reset", Moved(h, l, c)
  PROVE  \A k \in Handlers, t \in Links : Resets(k, t)' => Resets(k, t)
  BY DEF TypeInv, Moved, Resets

\* Every step keeps LinkInv.
LEMMA LinkStep == TypeInv /\ LinkInv /\ [Next]_vars => LinkInv'
<1> SUFFICES ASSUME TypeInv, LinkInv, [Next]_vars PROVE LinkInv'
  OBVIOUS
<1> USE DEF tables, history
<1>1. ASSUME NEW h \in Handlers, NEW l, NEW c, l # "reset", Moved(h, l, c),
             UNCHANGED <<link, doubled>>
      PROVE  LinkInv'
  BY <1>1, ElsewhereKept, LinkKept
<1>2. ASSUME UNCHANGED <<link, doubled, pc>>, \A h \in Handlers : loc'[h].t = loc[h].t
      PROVE  LinkInv'
  BY <1>2, LinkKept DEF Resets
<1>3. ASSUME NEW h \in Handlers, NEW e \in Emails,
             Register(h, e) \/ (\E v \in BOOLEAN : HandleCallback(h, e, v))
               \/ \E r \in {"user", "admin"} : AdminCreate(h, e, r)
      PROVE  LinkInv'
  <2>1. UNCHANGED <<link, doubled>>
    BY <1>3 DEF Register, HandleCallback, AdminCreate
  <2>2. PICK l, c : l # "reset" /\ Moved(h, l, c)
    BY <1>3, StartsCreate
  <2> QED
    BY <1>1, <2>1, <2>2
<1>4. ASSUME NEW h \in Handlers, NEW u \in Users,
             VerifyEmail(h, u) \/ UpdateProfile(h, u) \/ PurgeUsers(h, u)
               \/ \E c \in Changes(user[u]) : UpdateUser(h, u, c)
      PROVE  LinkInv'
  <2>1. UNCHANGED <<link, doubled>>
    BY <1>4 DEF VerifyEmail, UpdateProfile, PurgeUsers, UpdateUser
  <2>2. PICK l, c : l # "reset" /\ Moved(h, l, c)
    BY <1>4 DEF VerifyEmail, UpdateProfile, PurgeUsers, UpdateUser, Start, Moved
  <2> QED
    BY <1>1, <2>1, <2>2
<1>5. ASSUME NEW h \in Handlers, NEW u \in Users, Create(h, u) PROVE LinkInv'
  <2>1. PICK l, c : l # "reset" /\ Moved(h, l, c)
    BY <1>5 DEF Create, Idle, Goto, Moved
  <2> QED
    BY <1>1, <1>5, <2>1 DEF Create
<1>6. ASSUME NEW h \in Handlers, Restore(h) PROVE LinkInv'
  <2>1. PICK l, c : l # "reset" /\ Moved(h, l, c)
    BY <1>6 DEF Restore, Goto, Moved
  <2> QED
    BY <1>1, <1>6, <2>1 DEF Restore
<1>7. ASSUME NEW h \in Handlers,
             CreateFails(h) \/ Activate(h) \/ Sign(h) \/ Save(h) \/ PurgeCommit(h) \/ Fail(h)
      PROVE  LinkInv'
  BY <1>1, <1>7, IdleMoves DEF CreateFails, Activate, Sign, Save, PurgeCommit, Fail
<1>8. ASSUME NEW h \in Handlers, PurgeTable(h) PROVE LinkInv'
  <2>1. PICK g, n : loc' = [loc EXCEPT ![h].k = n, ![h].gone = g]
    BY <1>8 DEF PurgeTable, Empties
  <2>2. \A k \in Handlers : loc'[k].t = loc[k].t
    BY <2>1 DEF TypeInv, Loc
  <2> QED
    BY <1>2, <1>8, <2>2 DEF PurgeTable, Empties
<1>9. ASSUME NEW h \in Handlers, NEW t \in Links, ResetPassword(h, t) PROVE LinkInv'
  <2>1. PICK u \in Users : u = link[t].owner
    BY <1>9 DEF ResetPassword, TypeInv
  <2> DEFINE c == Cell(u, NoRow, FALSE, t)
  <2>2. c \in Loc /\ c.t = t
    BY NoRowType DEF Cell, Loc
  <2>3. Moved(h, "reset", c)
    BY <1>9, <2>1, StartsOn
  <2> HIDE DEF c
  <2>4. /\ pc[h] = "idle" /\ pc'[h] = "reset" /\ loc'[h].t = t
        /\ \A k \in Handlers \ {h} : pc'[k] = pc[k] /\ loc'[k] = loc[k]
    BY <1>9, <2>2, <2>3, MovedType DEF ResetPassword, Start, PC
  <2>5. /\ UNCHANGED link /\ link[t].uses = 0
        /\ doubled' = IF \E k \in Handlers : Resets(k, t) THEN doubled \cup {t} ELSE doubled
    BY <1>9 DEF ResetPassword, LinkInv, At, Resets
  <2>6. \A k \in Handlers, s \in Links : Resets(k, s)' => Resets(k, s) \/ (k = h /\ s = t)
    BY <2>4 DEF Resets
  <2>7. ASSUME NEW s \in Links \ doubled', NEW k \in Handlers, Resets(k, s)'
        PROVE  link'[s].uses = 0 /\ \A j \in Handlers : Resets(j, s)' => j = k
    BY <2>5, <2>6, <2>7 DEF LinkInv
  <2> QED
    BY <2>5, <2>7 DEF LinkInv
<1>10. ASSUME NEW h \in Handlers, ResetCommit(h) PROVE LinkInv'
  <2>0. PICK t : t = loc[h].t
    OBVIOUS
  <2>1. t \in Links /\ pc[h] = "reset" /\ doubled' = doubled
    BY <1>10, <2>0 DEF ResetCommit, TypeInv
  <2>2. /\ link'[t].st = "used" /\ link'[t].uses = link[t].uses + 1
        /\ \A s \in Links \ {t} : link'[s] = link[s]
    <3>1. link' = [link EXCEPT ![t].st = "used", ![t].uses = @ + 1]
      BY <1>10, <2>0 DEF ResetCommit
    <3> QED
      BY <2>1, <3>1 DEF TypeInv, Link
  <2>3. \A k \in Handlers, s \in Links : Resets(k, s)' => Resets(k, s) /\ k # h
    BY <1>10, IdleMoves DEF ResetCommit, Moved, Resets, TypeInv
  <2>4. Resets(h, t)
    BY <2>0, <2>1 DEF Resets
  <2>5. t \notin doubled => link[t].uses = 0 /\ \A k \in Handlers : ~ Resets(k, t)'
    BY <2>1, <2>3, <2>4 DEF LinkInv
  <2>6. ASSUME NEW s \in Links \ doubled, s # t
        PROVE  /\ link'[s].uses <= 1
               /\ \A k \in Handlers :
                    Resets(k, s)' => link'[s].uses = 0 /\ \A j \in Handlers : Resets(j, s)' => j = k
    BY <2>2, <2>3, <2>6 DEF LinkInv
  <2>7. t \notin doubled => link'[t].uses <= 1
    BY <2>2, <2>5
  <2>8. \A s \in Links : link'[s].st \in {"none", "live"} => link'[s].uses = 0
    BY <2>2 DEF LinkInv
  <2> QED
    BY <2>1, <2>5, <2>6, <2>7, <2>8 DEF LinkInv
<1>11. ASSUME NEW u \in Users, NEW t \in Links, ForgotPassword(u, t) PROVE LinkInv'
  <2>1. /\ link'[t].uses = 0 /\ \A s \in Links \ {t} : link'[s] = link[s]
        /\ UNCHANGED <<doubled, pc, loc>> /\ link[t].uses = 0
    BY <1>11 DEF ForgotPassword, TypeInv, LinkInv
  <2>2. \A h \in Handlers, s \in Links : Resets(h, s)' = Resets(h, s)
    BY <2>1 DEF Resets
  <2> QED
    BY <2>1, <2>2 DEF LinkInv
<1>12. ASSUME NEW t \in Links, LinkExpires(t) PROVE LinkInv'
  <2>1. /\ link'[t].uses = link[t].uses /\ link'[t].st = "expired"
        /\ \A s \in Links \ {t} : link'[s] = link[s]
        /\ UNCHANGED <<doubled, pc, loc>>
    BY <1>12 DEF LinkExpires, TypeInv, Link
  <2>2. \A h \in Handlers, s \in Links : Resets(h, s)' = Resets(h, s)
    BY <2>1 DEF Resets
  <2> QED
    BY <2>1, <2>2 DEF LinkInv
<1>13. ASSUME NEW u \in Users,
              CodeExpires(u) \/ Login(u) \/ LoginAdmin(u) \/ TokenExpires(u) \/ DeleteUser(u)
                \/ \E s \in Statuses : UpdateStatus(u, s)
       PROVE  LinkInv'
  BY <1>2, <1>13 DEF CodeExpires, Login, LoginAdmin, TokenExpires, DeleteUser, UpdateStatus
<1>14. ASSUME NEW u \in Users, NEW t \in Tables, AddRow(u, t) PROVE LinkInv'
  BY <1>2, <1>14 DEF AddRow
<1>15. CASE UNCHANGED vars
  BY <1>2, <1>15 DEF vars
<1> QED
  BY <1>3, <1>4, <1>5, <1>6, <1>7, <1>8, <1>9, <1>10, <1>11, <1>12, <1>13, <1>14, <1>15 DEF Next

-----------------------------------------------------------------------------
(* Who is vouched for *)

Trusted(r)    == r.verified \/ r.role = "admin"
Known         == proven \cup unsure
Vouched(r, u) == Trusted(r) => u \in Known
Made(r)       == r.role = "admin" \/ ~ r.pw => r.verified

\* A row that lets its user in is of an account that was proven or entered by way of Google,
\* and so is one about to be saved, unless its save proves it; so is the account a request of
\* Google's is about to sign in to; only verified accounts are made
\* admins at once, or without a password.
ProofInv ==
  /\ signed \subseteq Known
  /\ \A h \in Handlers : pc[h] = "sign" => loc[h].u \in Known
  /\ \A u \in Users : Vouched(user[u], u)
  /\ \A h \in Handlers : pc[h] = "save" => loc[h].vouch \/ Vouched(loc[h].row, loc[h].u)
  /\ \A h \in Handlers :
       pc[h] \in {"create", "restore"} => Made(loc[h].row)

\* What a step does to rows and to those signed in.
Fair ==
  /\ Known \subseteq Known' /\ signed' \subseteq signed \cup Known'
  /\ \A u \in Users : u \in Known' \/ (Trusted(user'[u]) => Trusted(user[u]))

\* An account that is shown is known, and no other is less.
LEMMA ShownKnown ==
  ASSUME NEW u, NEW b \in BOOLEAN, Shown(u, b)
  PROVE  Known' = Known \cup {u}
  BY DEF Shown, Known

\* A step that takes no proof away, and stores nothing unproven, leaves every stored row
\* vouched for.
LEMMA FairKept ==
  ASSUME TypeInv, ProofInv, Fair
  PROVE  signed' \subseteq Known' /\ \A u \in Users : Vouched(user[u], u)'
  BY DEF ProofInv, Fair, Vouched

\* A handler may go on to save a row that is vouched for, or that its save vouches for.
LEMMA ProofMoves ==
  ASSUME TypeInv, ProofInv, Fair, NEW h \in Handlers, NEW l \in PC, NEW c \in Loc, Moved(h, l, c),
         l = "save" => c.vouch \/ (Trusted(c.row) => c.u \in Known),
         l = "sign" => c.u \in Known',
         l \in {"create", "restore"} => Made(c.row)
  PROVE  ProofInv'
<1>1. signed' \subseteq Known' /\ \A u \in Users : Vouched(user[u], u)'
  BY FairKept
<1>2. /\ pc'[h] = l /\ loc'[h] = c
      /\ \A k \in Handlers \ {h} : pc'[k] = pc[k] /\ loc'[k] = loc[k]
  BY MovedType
<1>3. ASSUME NEW k \in Handlers, pc'[k] = "save"
      PROVE  loc'[k].vouch \/ Vouched(loc[k].row, loc[k].u)'
  <2>1. CASE k = h
    BY <1>2, <1>3, <2>1 DEF Vouched, Fair
  <2>2. CASE k # h
    BY <1>2, <1>3, <2>2 DEF Vouched, Fair, ProofInv
  <2> QED
    BY <2>1, <2>2
<1>4. ASSUME NEW k \in Handlers, pc'[k] \in {"create", "restore"}
      PROVE  Made(loc'[k].row)
  BY <1>2, <1>4 DEF ProofInv
<1>5. ASSUME NEW k \in Handlers, pc'[k] = "sign" PROVE loc'[k].u \in Known'
  BY <1>2, <1>5 DEF ProofInv, Fair
<1> QED
  BY <1>1, <1>3, <1>4, <1>5 DEF ProofInv

\* If all handlers hold what they held, ProofInv is kept.
LEMMA ProofStays ==
  ASSUME TypeInv, ProofInv, Fair, UNCHANGED pc,
         \A h \in Handlers :
           loc'[h].row = loc[h].row /\ loc'[h].u = loc[h].u /\ loc'[h].vouch = loc[h].vouch
  PROVE  ProofInv'
<1>1. signed' \subseteq Known' /\ \A u \in Users : Vouched(user[u], u)'
  BY FairKept
<1>2. ASSUME NEW k \in Handlers, pc'[k] = "save"
      PROVE  loc'[k].vouch \/ Vouched(loc[k].row, loc[k].u)'
  BY <1>2 DEF Vouched, Fair, ProofInv
<1>3. ASSUME NEW k \in Handlers, pc'[k] \in {"create", "restore"}
      PROVE  Made(loc'[k].row)
  BY <1>3 DEF ProofInv
<1>4. ASSUME NEW k \in Handlers, pc'[k] = "sign" PROVE loc'[k].u \in Known'
  BY <1>4 DEF ProofInv, Fair
<1> QED
  BY <1>1, <1>2, <1>3, <1>4 DEF ProofInv

\* Steps that leave rows and those signed in as they are, or change neither role nor proof.
LEMMA FairIf ==
  ASSUME TypeInv, ProofInv, Known \subseteq Known', signed' \subseteq signed \cup Known',
         NEW u \in Users,
         \/ user' = user
         \/ \E a, b : user' = [user EXCEPT ![u].st = a] \/ user' = [user EXCEPT ![u].status = a]
                      \/ user' = [user EXCEPT ![u].st = a, ![u].status = b]
                      \/ user' = [user EXCEPT ![u].pw = a]
  PROVE  Fair
<1>1. user[u] \in Row
  BY DEF TypeInv
<1>2. \A v \in Users : user'[v].verified = user[v].verified /\ user'[v].role = user[v].role
  <2>1. CASE user' = user
    BY <2>1
  <2>2. ASSUME NEW a, user' = [user EXCEPT ![u].st = a]
        PROVE  \A v \in Users : user'[v].verified = user[v].verified /\ user'[v].role = user[v].role
    BY <1>1, <2>2 DEF TypeInv, Row
  <2>3. ASSUME NEW a, user' = [user EXCEPT ![u].status = a]
        PROVE  \A v \in Users : user'[v].verified = user[v].verified /\ user'[v].role = user[v].role
    BY <1>1, <2>3 DEF TypeInv, Row
  <2>4. ASSUME NEW a, NEW b, user' = [user EXCEPT ![u].st = a, ![u].status = b]
        PROVE  \A v \in Users : user'[v].verified = user[v].verified /\ user'[v].role = user[v].role
    BY <1>1, <2>4 DEF TypeInv, Row
  <2>5. ASSUME NEW a, user' = [user EXCEPT ![u].pw = a]
        PROVE  \A v \in Users : user'[v].verified = user[v].verified /\ user'[v].role = user[v].role
    BY <1>1, <2>5 DEF TypeInv, Row
  <2> QED
    BY <2>1, <2>2, <2>3, <2>4, <2>5
<1> QED
  BY <1>2 DEF Fair, Trusted

\* Every step keeps ProofInv.
LEMMA ProofStep == TypeInv /\ ProofInv /\ [Next]_vars => ProofInv'
<1> SUFFICES ASSUME TypeInv, ProofInv, [Next]_vars PROVE ProofInv'
  OBVIOUS
<1> USE DEF tables, history
<1>0. ASSUME UNCHANGED <<user, shown, signed>> PROVE Fair
  BY <1>0 DEF Fair, Known, shown
<1>1. ASSUME NEW h \in Handlers, NEW l \in PC, NEW x \in Users \cup {Nobody}, NEW r \in Row,
             NEW b \in BOOLEAN,
             NEW t \in Links \cup {Nothing}, Moved(h, l, Cell(x, r, b, t)), Fair,
             l = "save" => b \/ (Trusted(r) => x \in Known),
             l = "sign" => x \in Known',
             l \in {"create", "restore"} => Made(r)
      PROVE  ProofInv'
  <2> DEFINE c == Cell(x, r, b, t)
  <2>1. c \in Loc /\ c.u = x /\ c.row = r /\ c.vouch = b /\ Moved(h, l, c)
    BY <1>1, CellType
  <2> HIDE DEF c
  <2> QED
    BY <1>1, <2>1, ProofMoves
<1>2. ASSUME NEW h \in Handlers, Idle(h), Fair PROVE ProofInv'
  BY <1>2, IdleMoves, NoRowType, ProofMoves DEF PC
<1>3. ASSUME NEW h \in Handlers, NEW e \in Emails,
             Register(h, e) \/ (\E v \in BOOLEAN : HandleCallback(h, e, v))
               \/ \E r \in {"user", "admin"} : AdminCreate(h, e, r)
      PROVE  ProofInv'
  <2>1. UNCHANGED <<user, signed>>
    BY <1>3 DEF Register, HandleCallback, AdminCreate
  <2>2. /\ Account(e, "pending", FALSE, TRUE, "user") \in Row
        /\ Account(e, "active", TRUE, FALSE, "user") \in Row
        /\ Made(Account(e, "pending", FALSE, TRUE, "user"))
        /\ Made(Account(e, "active", TRUE, FALSE, "user"))
        /\ \A r \in {"user", "admin"} :
             Account(e, "active", TRUE, TRUE, r) \in Row
               /\ Made(Account(e, "active", TRUE, TRUE, r))
    BY AccountType DEF Statuses, Made, Account
  <2>3. CASE \E u \in Users, b \in BOOLEAN :
               Moved(h, "sign", Cell(u, NoRow, FALSE, Nothing)) /\ Shown(u, b)
    <3>1. PICK u \in Users, b \in BOOLEAN :
            Moved(h, "sign", Cell(u, NoRow, FALSE, Nothing)) /\ Shown(u, b)
      BY <2>3
    <3>2. Known' = Known \cup {u}
      BY <3>1, ShownKnown
    <3>3. Fair
      BY <2>1, <3>2 DEF Fair
    <3> QED
      BY <1>1, <3>1, <3>2, <3>3, NoRowType DEF PC
  <2>4. CASE /\ UNCHANGED shown
             /\ \E l \in {"create", "restore"}, x \in Users \cup {Nobody}, r \in Row,
                   b \in BOOLEAN :
                  Moved(h, l, Cell(x, r, b, Nothing)) /\ Made(r)
    <3>1. Fair
      BY <1>0, <2>1, <2>4
    <3> QED
      BY <1>1, <2>4, <3>1 DEF PC
  <2>5. ASSUME NEW v \in BOOLEAN, HandleCallback(h, e, v) PROVE ProofInv'
    <3>1. Having(e) \subseteq Users /\ Taken(e) \subseteq Users
      BY DEF Having, Taken
    <3> QED
      BY <2>2, <2>3, <2>4, <2>5, <3>1, StartsCreate
  <2>6. CASE Register(h, e) \/ \E r \in {"user", "admin"} : AdminCreate(h, e, r)
    <3>1. UNCHANGED shown
      BY <2>6 DEF Register, AdminCreate
    <3> QED
      BY <2>2, <2>4, <2>6, <3>1, StartsCreate
  <2> QED
    BY <1>3, <2>5, <2>6
<1>4. ASSUME NEW h \in Handlers, NEW u \in Users,
             VerifyEmail(h, u) \/ UpdateProfile(h, u) \/ PurgeUsers(h, u)
               \/ \E c \in Changes(user[u]) : UpdateUser(h, u, c)
      PROVE  ProofInv'
  <2>1. Fair
    BY <1>0, <1>4 DEF VerifyEmail, UpdateProfile, PurgeUsers, UpdateUser
  <2>2. user[u] \in Row /\ \A c \in Changes(user[u]) : c \in Row
    BY DEF TypeInv, Changes, Row
  <2>3. PICK l \in {"activate", "purge", "save"}, r \in Row, b \in BOOLEAN :
          Moved(h, l, Cell(u, r, b, Nothing)) /\ (l = "save" => b \/ r = user[u])
    BY <1>4, <2>2, StartsOn, NoRowType
  <2>4. Trusted(user[u]) => u \in Known
    BY DEF ProofInv, Vouched
  <2> QED
    BY <1>1, <2>1, <2>3, <2>4 DEF PC
<1>5. ASSUME NEW h \in Handlers, NEW t \in Links, ResetPassword(h, t) PROVE ProofInv'
  <2>1. Fair
    BY <1>0, <1>5 DEF ResetPassword
  <2>2. PICK u \in Users : u = link[t].owner
    BY <1>5 DEF ResetPassword, TypeInv
  <2>3. Moved(h, "reset", Cell(u, NoRow, FALSE, t))
    BY <1>5, <2>2, StartsOn
  <2> QED
    BY <1>1, <2>1, <2>3, NoRowType DEF PC
<1>6. ASSUME NEW h \in Handlers, NEW u \in Users, Create(h, u) PROVE ProofInv'
  <2>1. loc[h].row.role = "admin" => loc[h].row.verified
    BY <1>6 DEF Create, ProofInv, Made
  <2>0. loc[h].vouch \in BOOLEAN /\ UNCHANGED signed
    BY <1>6 DEF Create, TypeInv, Loc
  <2>a. Known' = IF loc[h].row.verified THEN Known \cup {u} ELSE Known
    BY <1>6, <2>0, ShownKnown DEF Create, Known, shown
  <2>2. Fair
    <3>1. user'[u] = loc[h].row /\ \A v \in Users \ {u} : user'[v] = user[v]
      BY <1>6 DEF Create, TypeInv
    <3> QED
      BY <2>0, <2>1, <2>a, <3>1 DEF Fair, Trusted
  <2>b. loc[h].row.verified \/ Idle(h)
    BY <1>6 DEF Create, ProofInv, Made
  <2>3. Idle(h) \/ Moved(h, "sign", Cell(u, NoRow, FALSE, Nothing))
    <3>1. [Blank EXCEPT !.u = u] = Cell(u, NoRow, FALSE, Nothing)
      BY Blanks, NoRowType
    <3> QED
      BY <1>6, <3>1 DEF Create, Goto, Moved
  <2> QED
    BY <1>1, <1>2, <1>6, <2>2, <2>a, <2>b, <2>3, NoRowType DEF PC
<1>7. ASSUME NEW h \in Handlers, Restore(h) PROVE ProofInv'
  <2>0. /\ loc[h].u \in Users /\ loc[h].row \in Row /\ Made(loc[h].row)
        /\ loc[h].vouch \in BOOLEAN /\ UNCHANGED signed
    BY <1>7 DEF Restore, TypeInv, Loc, ProofInv
  <2>1. user' = user \/ user' = [user EXCEPT ![loc[h].u].st = "live", ![loc[h].u].status = "active"]
    BY <1>7 DEF Restore
  <2>2. ASSUME Known \subseteq Known' PROVE Fair
    BY <2>0, <2>1, <2>2, FairIf
  <2>3. CASE \E w \in Users :
               Moved(h, "sign", Cell(w, NoRow, FALSE, Nothing)) /\ Shown(w, loc[h].vouch)
    <3>1. PICK w \in Users :
            Moved(h, "sign", Cell(w, NoRow, FALSE, Nothing)) /\ Shown(w, loc[h].vouch)
      BY <2>3
    <3>2. Known' = Known \cup {w}
      BY <2>0, <3>1, ShownKnown
    <3>3. Fair
      BY <2>2, <3>2
    <3> QED
      BY <1>1, <3>1, <3>2, <3>3, NoRowType DEF PC
  <2>4. CASE UNCHANGED shown
               /\ Moved(h, "create", Cell(Nobody, loc[h].row, loc[h].vouch, Nothing))
    <3>1. Known' = Known
      BY <2>4 DEF Known, shown
    <3>2. Fair
      BY <2>2, <3>1
    <3> QED
      BY <1>1, <2>0, <2>4, <3>2 DEF PC
  <2> QED
    BY <1>7, <2>3, <2>4, RestoreMoves
<1>8. ASSUME NEW h \in Handlers, CreateFails(h) \/ Fail(h) PROVE ProofInv'
  BY <1>0, <1>2, <1>8 DEF CreateFails, Fail
<1>9. ASSUME NEW h \in Handlers, Sign(h) PROVE ProofInv'
  <2>1. Known' = Known /\ user' = user /\ signed' = signed \cup {loc[h].u}
    BY <1>9 DEF Sign, Known, shown
  <2>2. loc[h].u \in Known
    BY <1>9 DEF Sign, ProofInv
  <2>3. Fair
    BY <2>1, <2>2 DEF Fair
  <2> QED
    BY <1>2, <1>9, <2>3 DEF Sign
<1>10. ASSUME NEW h \in Handlers, Activate(h) PROVE ProofInv'
  <2>1. loc[h].u \in Users /\ Known' = Known \cup {loc[h].u} /\ UNCHANGED signed
    BY <1>10, ShownKnown DEF Activate, TypeInv
  <2>2. \A v \in Users \ {loc[h].u} : user'[v] = user[v]
    BY <1>10, <2>1 DEF Activate, TypeInv
  <2>3. Fair
    BY <2>1, <2>2 DEF Fair
  <2> QED
    BY <1>2, <1>10, <2>3 DEF Activate
<1>11. ASSUME NEW h \in Handlers, ResetCommit(h) \/ PurgeCommit(h) PROVE ProofInv'
  <2>1. loc[h].u \in Users /\ UNCHANGED <<Known, signed>>
    BY <1>11 DEF ResetCommit, PurgeCommit, TypeInv, Known, shown
  <2>2. user' = user \/ user' = [user EXCEPT ![loc[h].u].pw = TRUE]
          \/ user' = [user EXCEPT ![loc[h].u].st = "purged"]
    BY <1>11 DEF ResetCommit, PurgeCommit
  <2>3. Fair
    BY <2>1, <2>2, FairIf
  <2> QED
    BY <1>2, <1>11, <2>3 DEF ResetCommit, PurgeCommit
<1>12. ASSUME NEW h \in Handlers, Save(h) PROVE ProofInv'
  <2>1. loc[h].u \in Users /\ (loc[h].vouch \/ Vouched(loc[h].row, loc[h].u))
    BY <1>12 DEF Save, TypeInv, ProofInv
  <2>2. \/ UNCHANGED <<user, Known>>
        \/ user' = [user EXCEPT ![loc[h].u] = loc[h].row]
             /\ Known' = IF loc[h].vouch THEN Known \cup {loc[h].u} ELSE Known
    BY <1>12, ShownKnown DEF Save, Known, shown
  <2>3. Fair
    BY <1>12, <2>1, <2>2 DEF Save, Fair, Vouched, TypeInv
  <2> QED
    BY <1>2, <1>12, <2>3 DEF Save
<1>13. ASSUME NEW h \in Handlers, PurgeTable(h) PROVE ProofInv'
  <2>1. PICK g, n : loc' = [loc EXCEPT ![h].k = n, ![h].gone = g]
    BY <1>13 DEF PurgeTable, Empties
  <2>2. \A k \in Handlers :
          loc'[k].row = loc[k].row /\ loc'[k].u = loc[k].u /\ loc'[k].vouch = loc[k].vouch
    BY <2>1 DEF TypeInv, Loc
  <2> QED
    BY <1>0, <1>13, <2>2, ProofStays DEF PurgeTable, Empties
<1>14. ASSUME NEW u \in Users, Login(u) \/ LoginAdmin(u) \/ TokenExpires(u) PROVE ProofInv'
  <2>1. user[u].verified \/ user[u].role = "admin" => u \in Known
    BY DEF ProofInv, Vouched, Trusted
  <2>2. Fair
    BY <1>14, <2>1 DEF Login, LoginAdmin, TokenExpires, Fair, Known, shown
  <2> QED
    BY <1>14, <2>2, ProofStays DEF Login, LoginAdmin, TokenExpires
<1>15. ASSUME NEW u \in Users, DeleteUser(u) \/ \E s \in Statuses : UpdateStatus(u, s)
       PROVE  ProofInv'
  <2>1. Known \subseteq Known' /\ UNCHANGED <<signed, pc, loc>>
    BY <1>15, ShownKnown DEF DeleteUser, UpdateStatus, Known, shown
  <2>2. \E a : user' = [user EXCEPT ![u].st = a] \/ user' = [user EXCEPT ![u].status = a]
    BY <1>15 DEF DeleteUser, UpdateStatus
  <2>3. Fair
    BY <2>1, <2>2, FairIf
  <2> QED
    BY <2>1, <2>3, ProofStays
<1>16. ASSUME NEW u \in Users,
              CodeExpires(u) \/ (\E t \in Links : ForgotPassword(u, t))
                \/ (\E t \in Tables : AddRow(u, t))
       PROVE  ProofInv'
  BY <1>0, <1>16, ProofStays DEF CodeExpires, ForgotPassword, AddRow
<1>17. ASSUME NEW t \in Links, LinkExpires(t) PROVE ProofInv'
  BY <1>0, <1>17, ProofStays DEF LinkExpires
<1>18. CASE UNCHANGED vars
  BY <1>0, <1>18, ProofStays DEF vars
<1> QED
  BY <1>3, <1>4, <1>5, <1>6, <1>7, <1>8, <1>9, <1>10, <1>11, <1>12, <1>13, <1>14, <1>15, <1>16,
     <1>17, <1>18
    DEF Next

-----------------------------------------------------------------------------
(* Accounts that were shut *)

\* Of an account that was barred, and of the requests on it: none may open it but an
\* admin's edit, and a profile edit holds the row as it is, shut.
BarInv ==
  /\ barred \subseteq Users
  /\ \A h \in Handlers : pc[h] = "save" => loc[h].row.st = "live"
  /\ \A u \in barred :
       /\ Live(u) /\ Shut(user[u].status) /\ code[u] # "live"
       /\ \A h \in Handlers : loc[h].u = u =>
            /\ pc[h] \notin {"activate", "restore"}
            /\ pc[h] = "save" => loc[h].vouch \/ Shut(loc[h].row.status)

\* A step leaves those that are barred after it shut.
StillShut == \A u \in barred' :
               u \in Users /\ user'[u].st = "live" /\ Shut(user'[u].status) /\ code'[u] # "live"

\* What a request may hold of an account that is barred.
Harmless(l, c) ==
  /\ l = "save" => c.row.st = "live"
  /\ c.u \in barred' =>
       l \notin {"activate", "restore"} /\ (l = "save" => c.vouch \/ Shut(c.row.status))

\* A handler may go on if its next statement opens no barred account.
LEMMA BarMoves ==
  ASSUME TypeInv, BarInv, StillShut, barred' \subseteq barred, NEW h \in Handlers, NEW l \in PC,
         NEW c \in Loc,
         Moved(h, l, c), Harmless(l, c)
  PROVE  BarInv'
<1>1. /\ pc'[h] = l /\ loc'[h] = c
      /\ \A k \in Handlers \ {h} : pc'[k] = pc[k] /\ loc'[k] = loc[k]
  BY MovedType
<1>2. \A k \in Handlers : pc'[k] = "save" => loc'[k].row.st = "live"
  BY <1>1 DEF BarInv, Harmless
<1>3. ASSUME NEW u \in barred', NEW k \in Handlers, loc'[k].u = u
      PROVE  /\ pc'[k] \notin {"activate", "restore"}
             /\ pc'[k] = "save" => loc'[k].vouch \/ Shut(loc'[k].row.status)
  BY <1>1, <1>3 DEF BarInv, Harmless
<1>4. barred' \subseteq Users
        /\ \A u \in barred' : Live(u)' /\ Shut(user'[u].status) /\ code'[u] # "live"
  BY DEF StillShut, Live
<1> QED
  BY <1>2, <1>3, <1>4 DEF BarInv

\* If all handlers hold what they held, BarInv is kept.
LEMMA BarStays ==
  ASSUME BarInv, StillShut, barred' \subseteq barred, UNCHANGED pc,
         \A h \in Handlers :
           loc'[h].u = loc[h].u /\ loc'[h].row = loc[h].row /\ loc'[h].vouch = loc[h].vouch
  PROVE  BarInv'
  BY DEF BarInv, StillShut, Live

\* Steps that touch one account, which is not barred after, or none.
LEMMA OthersShut ==
  ASSUME BarInv, NEW u, barred' \subseteq barred, u \notin barred',
         \A v \in Users \ {u} : user'[v] = user[v] /\ (code'[v] = code[v] \/ code'[v] # "live")
  PROVE  StillShut
  BY DEF BarInv, StillShut, Live

\* An account nobody touches stays shut.
LEMMA NoneTouched == ASSUME BarInv, UNCHANGED <<user, code, barred>> PROVE StillShut
  BY DEF BarInv, StillShut, Live

\* Every step keeps BarInv.
LEMMA BarStep == TypeInv /\ BarInv /\ [Next]_vars => BarInv'
<1> SUFFICES ASSUME TypeInv, BarInv, [Next]_vars PROVE BarInv'
  OBVIOUS
<1> USE DEF tables, history
<1>1. ASSUME NEW h \in Handlers, NEW l \in PC, NEW x \in Users \cup {Nobody}, NEW r \in Row,
             NEW b \in BOOLEAN,
             NEW t \in Links \cup {Nothing}, Moved(h, l, Cell(x, r, b, t)), StillShut,
             barred' \subseteq barred,
             l = "save" => r.st = "live",
             x \in barred' =>
               l \notin {"activate", "restore"} /\ (l = "save" => b \/ Shut(r.status))
      PROVE  BarInv'
  <2> DEFINE c == Cell(x, r, b, t)
  <2>1. c \in Loc /\ c.u = x /\ c.row = r /\ c.vouch = b /\ Moved(h, l, c)
    BY <1>1, CellType
  <2> HIDE DEF c
  <2>2. Harmless(l, c)
    BY <1>1, <2>1 DEF Harmless
  <2> QED
    BY <1>1, <2>1, <2>2, BarMoves
<1>2. ASSUME NEW h \in Handlers, Idle(h), StillShut, barred' \subseteq barred PROVE BarInv'
  <2>1. Moved(h, "idle", Blank) /\ Harmless("idle", Blank)
    BY <1>2, IdleMoves, AccountsAssumption DEF Harmless, BarInv, Blank
  <2> QED
    BY <1>2, <2>1, NoRowType, BarMoves DEF PC
<1>3. ASSUME NEW h \in Handlers, NEW e \in Emails,
             Register(h, e) \/ \E r \in {"user", "admin"} : AdminCreate(h, e, r)
      PROVE  BarInv'
  <2>1. StillShut /\ UNCHANGED barred
    BY <1>3, NoneTouched DEF Register, AdminCreate
  <2>2. PICK r \in Row, b \in BOOLEAN : Moved(h, "create", Cell(Nobody, r, b, Nothing))
    BY <1>3, StartsCreate, AccountType DEF Statuses
  <2> QED
    BY <1>1, <2>1, <2>2 DEF PC
<1>4. ASSUME NEW h \in Handlers, NEW e \in Emails, NEW v \in BOOLEAN, HandleCallback(h, e, v)
      PROVE  BarInv'
  <2>1. StillShut /\ UNCHANGED barred
    BY <1>4, NoneTouched DEF HandleCallback
  <2> DEFINE a == Account(e, "active", TRUE, FALSE, "user")
  <2>2. a \in Row
    BY AccountType DEF Statuses
  <2>3. PICK l \in {"sign", "restore", "create"}, x \in Users \cup {Nobody}, r \in Row,
             b \in BOOLEAN :
          Moved(h, l, Cell(x, r, b, Nothing)) /\ (l = "restore" => x \notin barred)
    <3>1. Having(e) \subseteq Users /\ Taken(e) \subseteq Users
            /\ (Having(e) = {} => \A u \in Taken(e) : u \notin barred)
      BY DEF Taken, Having, BarInv
    <3> QED
      BY <1>4, <2>2, <3>1, StartsCreate, NoRowType
  <2> QED
    BY <1>1, <2>1, <2>3 DEF PC
<1>5. ASSUME NEW h \in Handlers, NEW u \in Users,
             VerifyEmail(h, u) \/ UpdateProfile(h, u) \/ PurgeUsers(h, u)
               \/ \E c \in Changes(user[u]) : UpdateUser(h, u, c)
      PROVE  BarInv'
  <2>1. StillShut /\ UNCHANGED barred
    BY <1>5, NoneTouched DEF VerifyEmail, UpdateProfile, PurgeUsers, UpdateUser
  <2>2. user[u] \in Row /\ \A c \in Changes(user[u]) : c \in Row /\ c.st = user[u].st
    BY DEF TypeInv, Changes, Row
  <2>3. PICK l \in {"activate", "purge", "save"}, r \in Row, b \in BOOLEAN :
          /\ Moved(h, l, Cell(u, r, b, Nothing))
          /\ l = "activate" => code[u] = "live"
          /\ l = "save" => r.st = "live" /\ (b \/ r = user[u])
    <3>1. CASE VerifyEmail(h, u)
      BY <3>1, StartsOn, NoRowType DEF VerifyEmail
    <3>2. CASE PurgeUsers(h, u)
      BY <3>2, StartsOn, NoRowType
    <3>3. CASE UpdateProfile(h, u)
      BY <2>2, <3>3, StartsOn DEF UpdateProfile, Live
    <3>4. ASSUME NEW c \in Changes(user[u]), UpdateUser(h, u, c)
          PROVE  Moved(h, "save", Cell(u, c, TRUE, Nothing)) /\ c.st = "live" /\ c \in Row
      BY <2>2, <3>4, StartsOn DEF UpdateUser, Live
    <3> QED
      BY <1>5, <3>1, <3>2, <3>3, <3>4
  <2>4. u \in barred => code[u] # "live" /\ Shut(user[u].status)
    BY DEF BarInv
  <2> QED
    BY <1>1, <2>1, <2>3, <2>4 DEF PC
<1>6. ASSUME NEW h \in Handlers, NEW t \in Links, ResetPassword(h, t) PROVE BarInv'
  <2>1. StillShut /\ UNCHANGED barred
    BY <1>6, NoneTouched DEF ResetPassword
  <2>2. PICK u \in Users : u = link[t].owner
    BY <1>6 DEF ResetPassword, TypeInv
  <2>3. Moved(h, "reset", Cell(u, NoRow, FALSE, t))
    BY <1>6, <2>2, StartsOn
  <2> QED
    BY <1>1, <2>1, <2>3, NoRowType DEF PC
<1>7. ASSUME NEW h \in Handlers, NEW u \in Users, Create(h, u) PROVE BarInv'
  <2>1. u \notin barred /\ UNCHANGED barred
    BY <1>7 DEF Create, BarInv, Live
  <2>2. StillShut
    <3>1. \A v \in Users \ {u} : user'[v] = user[v] /\ (code'[v] = code[v] \/ code'[v] # "live")
      BY <1>7 DEF Create, TypeInv
    <3> QED
      BY <2>1, <3>1, OthersShut
  <2>3. Idle(h) \/ Moved(h, "sign", Cell(u, NoRow, FALSE, Nothing))
    <3>1. [Blank EXCEPT !.u = u] = Cell(u, NoRow, FALSE, Nothing)
      BY Blanks, NoRowType
    <3> QED
      BY <1>7, <3>1 DEF Create, Goto, Moved
  <2> QED
    BY <1>1, <1>2, <2>1, <2>2, <2>3, NoRowType DEF PC
<1>8. ASSUME NEW h \in Handlers, Restore(h) PROVE BarInv'
  <2>0. /\ loc[h].u \in Users /\ loc[h].row \in Row /\ loc[h].vouch \in BOOLEAN
        /\ loc[h].u \notin barred /\ UNCHANGED <<barred, code>>
    BY <1>8 DEF Restore, TypeInv, Loc, BarInv
  <2>1. StillShut
    <3>1. user' = user
            \/ user' = [user EXCEPT ![loc[h].u].st = "live", ![loc[h].u].status = "active"]
      BY <1>8 DEF Restore
    <3>2. \A v \in Users \ {loc[h].u} : user'[v] = user[v]
      BY <2>0, <3>1 DEF TypeInv
    <3> QED
      BY <2>0, <3>2, OthersShut
  <2>2. \/ \E w \in Users : Moved(h, "sign", Cell(w, NoRow, FALSE, Nothing))
        \/ Moved(h, "create", Cell(Nobody, loc[h].row, loc[h].vouch, Nothing))
    BY <1>8, RestoreMoves
  <2> QED
    BY <1>1, <2>0, <2>1, <2>2, NoRowType DEF PC
<1>9. ASSUME NEW h \in Handlers, CreateFails(h) \/ Fail(h) \/ Sign(h) PROVE BarInv'
  BY <1>2, <1>9, NoneTouched DEF CreateFails, Fail, Sign
<1>10. ASSUME NEW h \in Handlers, Activate(h) PROVE BarInv'
  <2>1. loc[h].u \notin barred /\ UNCHANGED barred
    BY <1>10 DEF Activate, BarInv
  <2>2. \A v \in Users \ {loc[h].u} :
          user'[v] = user[v] /\ (code'[v] = code[v] \/ code'[v] # "live")
    BY <1>10 DEF Activate, TypeInv
  <2> QED
    BY <1>2, <1>10, <2>1, <2>2, OthersShut DEF Activate
<1>11. ASSUME NEW h \in Handlers, ResetCommit(h) PROVE BarInv'
  <2>1. UNCHANGED <<barred, code>> /\ (user' = user \/ user' = [user EXCEPT ![loc[h].u].pw = TRUE])
          /\ Idle(h)
    BY <1>11 DEF ResetCommit
  <2>2. \A v \in Users : user'[v].st = user[v].st /\ user'[v].status = user[v].status
    BY <2>1 DEF TypeInv, Row
  <2>3. StillShut
    BY <2>1, <2>2 DEF BarInv, StillShut, Live
  <2> QED
    BY <1>2, <2>1, <2>3
<1>12. ASSUME NEW h \in Handlers, Save(h) PROVE BarInv'
  <2>1. PICK u, r : u = loc[h].u /\ r = loc[h].row
    OBVIOUS
  <2>2. /\ u \in Users /\ r \in Row /\ r.st = "live" /\ Idle(h) /\ UNCHANGED code /\ pc[h] = "save"
        /\ u \in barred => loc[h].vouch \/ Shut(r.status)
    BY <1>12, <2>1 DEF Save, TypeInv, Loc, BarInv
  <2>3. CASE UNCHANGED <<user, barred>>
    BY <1>2, <2>2, <2>3, NoneTouched
  <2>4. ASSUME user' = [user EXCEPT ![u] = r],
               barred' = IF loc[h].vouch THEN Barred(u, r.status, Handlers \ {h}) ELSE barred
        PROVE  BarInv'
    <3>1. user'[u] = r /\ \A v \in Users \ {u} : user'[v] = user[v]
      BY <2>2, <2>4 DEF TypeInv
    <3>2. CASE barred' = barred \ {u}
      BY <1>2, <2>2, <3>1, <3>2, OthersShut
    <3>3. CASE barred' = barred /\ (u \in barred => Shut(r.status))
      <4>1. StillShut
        BY <2>2, <3>1, <3>3 DEF BarInv, StillShut, Live
      <4> QED
        BY <1>2, <2>2, <3>3, <4>1
    <3>4. CASE barred' = barred \cup {u} /\ Shut(r.status) /\ code[u] # "live"
                 /\ ~\E k \in Handlers \ {h} : loc[k].u = u
      <4>1. StillShut
        BY <2>2, <3>1, <3>4 DEF BarInv, StillShut, Live
      <4>2. /\ pc'[h] = "idle"
            /\ \A k \in Handlers \ {h} : pc'[k] = pc[k] /\ loc'[k] = loc[k] /\ loc[k].u # u
        BY <2>2, <3>4, IdleMoves, NoRowType, MovedType DEF PC
      <4>3. \A k \in Handlers : pc'[k] = "save" => loc'[k].row.st = "live"
        BY <4>2 DEF BarInv
      <4>4. ASSUME NEW v \in barred', NEW k \in Handlers, loc'[k].u = v
            PROVE  /\ pc'[k] \notin {"activate", "restore"}
                   /\ pc'[k] = "save" => loc'[k].vouch \/ Shut(loc'[k].row.status)
        BY <3>4, <4>2, <4>4 DEF BarInv
      <4> QED
        BY <4>1, <4>3, <4>4 DEF BarInv, StillShut, Live
    <3> QED
      BY <2>2, <2>4, <3>2, <3>3, <3>4 DEF Barred
  <2> QED
    BY <1>12, <2>1, <2>3, <2>4 DEF Save
<1>13. ASSUME NEW h \in Handlers, PurgeTable(h) PROVE BarInv'
  <2>1. PICK g, n : loc' = [loc EXCEPT ![h].k = n, ![h].gone = g]
    BY <1>13 DEF PurgeTable, Empties
  <2>2. \A k \in Handlers :
          loc'[k].row = loc[k].row /\ loc'[k].u = loc[k].u /\ loc'[k].vouch = loc[k].vouch
    BY <2>1 DEF TypeInv, Loc
  <2>3. StillShut /\ UNCHANGED <<barred, pc>>
    BY <1>13, NoneTouched DEF PurgeTable, Empties
  <2> QED
    BY <2>2, <2>3, BarStays
<1>14. ASSUME NEW h \in Handlers, PurgeCommit(h) PROVE BarInv'
  <2>1. barred' = barred \ {loc[h].u}
          /\ \A v \in Users \ {loc[h].u} : user'[v] = user[v] /\ code'[v] = code[v]
    BY <1>14 DEF PurgeCommit, TypeInv
  <2> QED
    BY <1>2, <1>14, <2>1, OthersShut DEF PurgeCommit
<1>15. ASSUME NEW u \in Users, CodeExpires(u) PROVE BarInv'
  <2>1. UNCHANGED <<user, pc, loc, barred>>
          /\ \A v \in Users : code'[v] = code[v] \/ code'[v] = "expired"
    BY <1>15 DEF CodeExpires
  <2>2. StillShut
    BY <2>1 DEF BarInv, StillShut, Live
  <2> QED
    BY <2>1, <2>2, BarStays
<1>16. ASSUME NEW u \in Users, DeleteUser(u) PROVE BarInv'
  <2>1. /\ UNCHANGED <<pc, loc, code>> /\ barred' = barred \ {u}
        /\ \A v \in Users \ {u} : user'[v] = user[v]
    BY <1>16 DEF DeleteUser, TypeInv
  <2> QED
    BY <2>1, OthersShut, BarStays
<1>17. ASSUME NEW u \in Users, NEW s \in Statuses, UpdateStatus(u, s) PROVE BarInv'
  <2>1. /\ UNCHANGED <<pc, loc, code>> /\ barred' = Barred(u, s, Handlers)
        /\ user'[u].st = "live" /\ user'[u].status = s /\ \A v \in Users \ {u} : user'[v] = user[v]
    BY <1>17 DEF UpdateStatus, TypeInv, Live, Row
  <2>2. CASE ~Shut(s)
    BY <2>1, <2>2, OthersShut, BarStays DEF Barred
  <2>3. CASE Shut(s) /\ (code[u] = "live" \/ \E h \in Handlers : loc[h].u = u)
    <3>1. StillShut
      BY <2>1, <2>3 DEF BarInv, StillShut, Live, Barred
    <3> QED
      BY <2>1, <2>3, <3>1, BarStays DEF Barred
  <2>4. CASE Shut(s) /\ code[u] # "live" /\ ~\E h \in Handlers : loc[h].u = u
    BY <2>1, <2>4 DEF BarInv, Live, Barred
  <2> QED
    BY <2>2, <2>3, <2>4
<1>18. ASSUME UNCHANGED <<user, code, pc, loc, barred>> PROVE BarInv'
  BY <1>18, NoneTouched, BarStays
<1>19. ASSUME NEW u \in Users, \/ Login(u) \/ LoginAdmin(u) \/ TokenExpires(u)
                               \/ (\E t \in Links : ForgotPassword(u, t))
                               \/ \E t \in Tables : AddRow(u, t)
       PROVE  BarInv'
  BY <1>18, <1>19 DEF Login, LoginAdmin, TokenExpires, ForgotPassword, AddRow
<1>20. ASSUME NEW t \in Links, LinkExpires(t) PROVE BarInv'
  BY <1>18, <1>20 DEF LinkExpires
<1>21. CASE UNCHANGED vars
  BY <1>18, <1>21 DEF vars
<1> QED
  BY <1>3, <1>4, <1>5, <1>6, <1>7, <1>8, <1>9, <1>10, <1>11, <1>12, <1>13, <1>14, <1>15, <1>16,
     <1>17, <1>19,
     <1>20, <1>21 DEF Next

-----------------------------------------------------------------------------
(* What a purge has emptied *)

\* Of an account with rows in d: a purge come to the k-th table has found the rows of those
\* before it, and of no others.
Emptied(k, d, g) == \A i \in DOMAIN Order : /\ i < k /\ Order[i] \in d => Order[i] \in g
                                            /\ i >= k => Order[i] \notin g
Closed(d) == d \subseteq Written /\ \A t \in d : Via(t) \subseteq d

\* Rows by which others are found are there as long as those are.
PurgeInv ==
  /\ \A h \in Handlers : pc[h] \in {"create", "restore"} => loc[h].row.st = "live"
  /\ \A u \in Users \ late :
       /\ Closed(data[u]) /\ (user[u].st = "purged" => data[u] = {})
       /\ \A h \in Handlers :
            pc[h] = "purge" /\ loc[h].u = u => Emptied(loc[h].k, data[u], loc[h].gone)

\* No table comes twice, and what rows are found by is emptied after them.
LEMMA OrderSound ==
  /\ DOMAIN Order = 1 .. 10 /\ Len(Order) = 10
  /\ \A i, j \in DOMAIN Order : Order[i] = Order[j] => i = j
  /\ \A i \in DOMAIN Order : \A v \in Via(Order[i]) : \E j \in DOMAIN Order : j > i /\ Order[j] = v
<1>1. DOMAIN Order = 1 .. 10 /\ Len(Order) = 10
  BY DEF Order
<1>2. /\ Order[1] = "citations" /\ Order[2] = "messages" /\ Order[3] = "sessions"
      /\ Order[4] = "embeddings"
      /\ Order[5] = "notes" /\ Order[6] = "notebooks" /\ Order[7] = "refunds"
      /\ Order[8] = "cancellations"
      /\ Order[9] = "billing" /\ Order[10] = "subscriptions"
  BY DEF Order
<1>3. \A i \in 1 .. 10 :
        i = 1 \/ i = 2 \/ i = 3 \/ i = 4 \/ i = 5 \/ i = 6 \/ i = 7 \/ i = 8 \/ i = 9 \/ i = 10
  OBVIOUS
<1>4. \A i, j \in DOMAIN Order : Order[i] = Order[j] => i = j
  BY <1>1, <1>2, <1>3
<1>5. ASSUME NEW i \in DOMAIN Order, NEW v \in Via(Order[i])
      PROVE  \E j \in DOMAIN Order : j > i /\ Order[j] = v
  <2>1. CASE i = 1
    BY <1>1, <1>2, <1>5, <2>1 DEF Via
  <2>2. CASE i = 2
    BY <1>1, <1>2, <1>5, <2>2 DEF Via
  <2>3. CASE i = 4
    BY <1>1, <1>2, <1>5, <2>3 DEF Via
  <2>4. CASE i \notin {1, 2, 4}
    <3>1. Order[i] \notin {"citations", "messages", "embeddings"}
      BY <1>1, <1>2, <1>4, <2>4
    <3> QED
      BY <1>5, <3>1 DEF Via
  <2> QED
    BY <2>1, <2>2, <2>3, <2>4
<1> QED
  BY <1>1, <1>4, <1>5

\* The purge empties one more table: all tables before the next place are empty then.
LEMMA EmptiesNext ==
  ASSUME NEW k \in Nat \ {0}, NEW d, NEW g, Closed(d), Emptied(k, d, g),
         NEW i \in Rest(k), \A j \in Rest(k) : i <= j
  PROVE  Emptied(i + 1, d,
                 IF Via(Order[i]) \subseteq d \ g THEN g \cup ({Order[i]} \cap (d \ g)) ELSE g)
<1> DEFINE t == Order[i]
           n == IF Via(t) \subseteq d \ g THEN g \cup ({t} \cap (d \ g)) ELSE g
<1>1. i \in DOMAIN Order /\ i >= k /\ i \in Nat
  <2>1. i \in k .. Len(Order)
    BY DEF Rest
  <2>2. i \in k .. 10
    BY <2>1, OrderSound
  <2> QED
    BY <2>2, OrderSound
<1>2. ASSUME NEW j \in DOMAIN Order, j < i + 1, Order[j] \in d PROVE Order[j] \in n
  <2>1. CASE j < k
    BY <1>2, <2>1 DEF Emptied
  <2>2. CASE j >= k /\ j < i
    <3>1. j \notin Rest(k)
      BY <1>1, <2>2, OrderSound
    <3> QED
      BY <1>2, <2>2, <3>1, OrderSound DEF Rest, Closed
  <2>3. CASE j = i
    <3>1. Via(t) \subseteq d /\ t \in d
      BY <1>2, <2>3 DEF Closed
    <3>2. \A v \in Via(t) : v \notin g
      BY <1>1, OrderSound DEF Emptied
    <3>3. t \notin g
      BY <1>1 DEF Emptied
    <3> QED
      BY <2>3, <3>1, <3>2, <3>3
  <2> QED
    BY <1>1, <1>2, <2>1, <2>2, <2>3, OrderSound
<1>3. ASSUME NEW j \in DOMAIN Order, j >= i + 1 PROVE Order[j] \notin n
  BY <1>1, <1>3, OrderSound DEF Emptied
<1> QED
  BY <1>2, <1>3 DEF Emptied

\* At the end of the order all tables are empty.
LEMMA EmptiesAll ==
  ASSUME NEW k \in Nat \ {0}, NEW d, NEW g, Closed(d), Emptied(k, d, g), Rest(k) = {}
  PROVE  d \ g = {}
<1> SUFFICES ASSUME NEW t \in d, t \notin g PROVE FALSE
  OBVIOUS
<1>1. PICK i \in DOMAIN Order : Order[i] = t /\ t \in Written
  BY AccountsAssumption DEF Closed, Tables
<1>2. i >= k
  BY <1>1, OrderSound DEF Emptied
<1> QED
  BY <1>1, <1>2, OrderSound DEF Rest

\* A step that empties nothing, and purges nobody.
Unpurged == late \subseteq late' /\ data' = data
              /\ \A u \in Users : user'[u].st = "purged" => user[u].st = "purged"

\* A handler may go on to a purge that has emptied nothing yet, or to store an account that is
\* there.
LEMMA PurgeMoves ==
  ASSUME TypeInv, PurgeInv, Unpurged, NEW h \in Handlers, NEW l \in PC, NEW c \in Loc,
         Moved(h, l, c),
         l = "purge" => c.k = 1 /\ c.gone = {}, l \in {"create", "restore"} => c.row.st = "live"
  PROVE  PurgeInv'
<1>1. /\ pc'[h] = l /\ loc'[h] = c
      /\ \A k \in Handlers \ {h} : pc'[k] = pc[k] /\ loc'[k] = loc[k]
  BY MovedType
<1>2. \A k \in Handlers : pc'[k] \in {"create", "restore"} => loc'[k].row.st = "live"
  BY <1>1 DEF PurgeInv
<1>3. ASSUME NEW u \in Users \ late', NEW k \in Handlers, pc'[k] = "purge", loc'[k].u = u
      PROVE  Emptied(loc'[k].k, data'[u], loc'[k].gone)
  <2>1. CASE k = h
    BY <1>1, <1>3, <2>1, OrderSound DEF Emptied
  <2>2. CASE k # h
    BY <1>1, <1>3, <2>2 DEF PurgeInv, Unpurged
  <2> QED
    BY <2>1, <2>2
<1>4. \A u \in Users \ late' : Closed(data'[u]) /\ (user'[u].st = "purged" => data'[u] = {})
  BY DEF PurgeInv, Unpurged
<1> QED
  BY <1>2, <1>3, <1>4 DEF PurgeInv

\* If all handlers hold what they held, PurgeInv is kept.
LEMMA PurgeStays == ASSUME PurgeInv, Unpurged, UNCHANGED <<pc, loc>> PROVE PurgeInv'
  BY DEF PurgeInv, Unpurged

\* Every step keeps PurgeInv.
LEMMA PurgeStep == TypeInv /\ BarInv /\ PurgeInv /\ [Next]_vars => PurgeInv'
<1> SUFFICES ASSUME TypeInv, BarInv, PurgeInv, [Next]_vars PROVE PurgeInv'
  OBVIOUS
<1> USE DEF tables, history
<1>0. ASSUME UNCHANGED <<user, data, late>> PROVE Unpurged
  BY <1>0 DEF Unpurged
<1>1. ASSUME NEW h \in Handlers, NEW l \in PC, NEW x \in Users \cup {Nobody}, NEW r \in Row,
             NEW b \in BOOLEAN,
             NEW t \in Links \cup {Nothing}, Moved(h, l, Cell(x, r, b, t)), Unpurged,
             l \in {"create", "restore"} => r.st = "live"
      PROVE  PurgeInv'
  <2> DEFINE c == Cell(x, r, b, t)
  <2>1. c \in Loc /\ c.row = r /\ Moved(h, l, c)
    BY <1>1, CellType
  <2>2. c.k = 1 /\ c.gone = {}
    BY DEF Cell
  <2> HIDE DEF c
  <2> QED
    BY <1>1, <2>1, <2>2, PurgeMoves
<1>2. ASSUME NEW h \in Handlers, Idle(h), Unpurged PROVE PurgeInv'
  BY <1>2, IdleMoves, NoRowType, PurgeMoves DEF PC
<1>3. ASSUME NEW h \in Handlers, NEW e \in Emails,
             Register(h, e) \/ (\E v \in BOOLEAN : HandleCallback(h, e, v))
               \/ \E r \in {"user", "admin"} : AdminCreate(h, e, r)
      PROVE  PurgeInv'
  <2>1. Unpurged
    BY <1>0, <1>3 DEF Register, HandleCallback, AdminCreate
  <2>2. /\ Account(e, "pending", FALSE, TRUE, "user") \in Row
        /\ Account(e, "pending", FALSE, TRUE, "user").st = "live"
        /\ Account(e, "active", TRUE, FALSE, "user") \in Row
        /\ Account(e, "active", TRUE, FALSE, "user").st = "live"
        /\ \A r \in {"user", "admin"} :
             Account(e, "active", TRUE, TRUE, r) \in Row
               /\ Account(e, "active", TRUE, TRUE, r).st = "live"
    BY DEF Account, Row, Statuses
  <2>a. Having(e) \subseteq Users /\ Taken(e) \subseteq Users
    BY DEF Having, Taken
  <2>3. PICK l \in {"create", "sign", "restore"}, x \in Users \cup {Nobody}, r \in Row,
             b \in BOOLEAN :
          Moved(h, l, Cell(x, r, b, Nothing)) /\ (l \in {"create", "restore"} => r.st = "live")
    BY <1>3, <2>2, <2>a, StartsCreate, NoRowType
  <2> QED
    BY <1>1, <2>1, <2>3 DEF PC
<1>4. ASSUME NEW h \in Handlers, NEW u \in Users,
             VerifyEmail(h, u) \/ UpdateProfile(h, u) \/ PurgeUsers(h, u)
               \/ \E c \in Changes(user[u]) : UpdateUser(h, u, c)
      PROVE  PurgeInv'
  <2>1. Unpurged
    BY <1>0, <1>4 DEF VerifyEmail, UpdateProfile, PurgeUsers, UpdateUser
  <2>2. user[u] \in Row /\ \A c \in Changes(user[u]) : c \in Row
    BY DEF TypeInv, Changes, Row
  <2>3. PICK l \in {"activate", "purge", "save"}, r \in Row, b \in BOOLEAN :
          Moved(h, l, Cell(u, r, b, Nothing))
    BY <1>4, <2>2, StartsOn, NoRowType
  <2> QED
    BY <1>1, <2>1, <2>3 DEF PC
<1>5. ASSUME NEW h \in Handlers, NEW t \in Links, ResetPassword(h, t) PROVE PurgeInv'
  <2>1. Unpurged
    BY <1>0, <1>5 DEF ResetPassword
  <2>2. PICK u \in Users : u = link[t].owner
    BY <1>5 DEF ResetPassword, TypeInv
  <2>3. Moved(h, "reset", Cell(u, NoRow, FALSE, t))
    BY <1>5, <2>2, StartsOn
  <2> QED
    BY <1>1, <2>1, <2>3, NoRowType DEF PC
<1>6. ASSUME NEW h \in Handlers, NEW u \in Users, Create(h, u) PROVE PurgeInv'
  <2>1. Unpurged
    BY <1>6 DEF Create, Unpurged, PurgeInv, TypeInv
  <2>2. Idle(h) \/ Moved(h, "sign", Cell(u, NoRow, FALSE, Nothing))
    <3>1. [Blank EXCEPT !.u = u] = Cell(u, NoRow, FALSE, Nothing)
      BY Blanks, NoRowType
    <3> QED
      BY <1>6, <3>1 DEF Create, Goto, Moved
  <2> QED
    BY <1>1, <1>2, <2>1, <2>2, NoRowType DEF PC
<1>7. ASSUME NEW h \in Handlers, Restore(h) PROVE PurgeInv'
  <2>0. /\ loc[h].u \in Users /\ loc[h].row \in Row /\ loc[h].row.st = "live"
        /\ loc[h].vouch \in BOOLEAN
    BY <1>7 DEF Restore, TypeInv, Loc, PurgeInv
  <2>1. Unpurged
    <3>1. user' = user
            \/ user' = [user EXCEPT ![loc[h].u].st = "live", ![loc[h].u].status = "active"]
      BY <1>7 DEF Restore
    <3>2. \A v \in Users : user'[v].st = user[v].st \/ user'[v].st = "live"
      BY <2>0, <3>1 DEF TypeInv, Row
    <3> QED
      BY <1>7, <3>2 DEF Restore, Unpurged
  <2>2. \/ \E w \in Users : Moved(h, "sign", Cell(w, NoRow, FALSE, Nothing))
        \/ Moved(h, "create", Cell(Nobody, loc[h].row, loc[h].vouch, Nothing))
    BY <1>7, RestoreMoves
  <2> QED
    BY <1>1, <2>0, <2>1, <2>2, NoRowType DEF PC
<1>8. ASSUME NEW h \in Handlers, CreateFails(h) \/ Fail(h) \/ Sign(h) PROVE PurgeInv'
  BY <1>0, <1>2, <1>8 DEF CreateFails, Fail, Sign
<1>9. ASSUME NEW h \in Handlers, Activate(h) \/ ResetCommit(h) PROVE PurgeInv'
  <2>1. \/ user' = user
        \/ user' = [user EXCEPT ![loc[h].u].status = "active", ![loc[h].u].verified = TRUE]
        \/ user' = [user EXCEPT ![loc[h].u].pw = TRUE]
    BY <1>9 DEF Activate, ResetCommit
  <2>2. \A v \in Users : user'[v].st = user[v].st
    BY <2>1 DEF TypeInv, Row
  <2>3. Unpurged /\ Idle(h)
    BY <1>9, <2>2 DEF Activate, ResetCommit, Unpurged
  <2> QED
    BY <1>2, <2>3
<1>10. ASSUME NEW h \in Handlers, Save(h) PROVE PurgeInv'
  <2>1. Unpurged
    BY <1>10 DEF Save, Unpurged, BarInv, TypeInv
  <2> QED
    BY <1>2, <1>10, <2>1 DEF Save
<1>11. ASSUME NEW h \in Handlers, PurgeTable(h) PROVE PurgeInv'
  <2>1. PICK i \in DOMAIN Order : Empties(h, i, Order[i])
    BY <1>11 DEF PurgeTable
  <2> DEFINE g == IF Via(Order[i]) \subseteq View(h)
                  THEN loc[h].gone \cup ({Order[i]} \cap View(h))
                  ELSE loc[h].gone
  <2>2. PICK n : n = g
    OBVIOUS
  <2>3. loc' = [loc EXCEPT ![h].k = i + 1, ![h].gone = n] /\ pc[h] = "purge"
          /\ UNCHANGED <<user, data, late, pc>>
    BY <2>1, <2>2 DEF Empties
  <2>4. /\ loc'[h].k = i + 1 /\ loc'[h].gone = n /\ loc'[h].u = loc[h].u /\ loc'[h].row = loc[h].row
        /\ \A k \in Handlers \ {h} : loc'[k] = loc[k]
    BY <2>3 DEF TypeInv, Loc
  <2>5. ASSUME loc[h].u \in Users \ late PROVE Emptied(i + 1, data[loc[h].u], n)
    <3>1. /\ Emptied(loc[h].k, data[loc[h].u], loc[h].gone) /\ Closed(data[loc[h].u])
          /\ loc[h].k \in Nat \ {0}
          /\ i \in Rest(loc[h].k) /\ \A j \in Rest(loc[h].k) : i <= j
      BY <2>1, <2>3, <2>5 DEF PurgeInv, TypeInv, Loc, Empties
    <3> QED
      BY <2>2, <3>1, EmptiesNext DEF View
  <2>6. \A k \in Handlers : pc'[k] \in {"create", "restore"} => loc'[k].row.st = "live"
    BY <2>3, <2>4 DEF PurgeInv
  <2>7. ASSUME NEW v \in Users \ late', NEW k \in Handlers, pc'[k] = "purge", loc'[k].u = v
        PROVE  Emptied(loc'[k].k, data'[v], loc'[k].gone)
    <3>1. CASE k = h
      BY <2>3, <2>4, <2>5, <2>7, <3>1
    <3>2. CASE k # h
      BY <2>3, <2>4, <2>7, <3>2 DEF PurgeInv
    <3> QED
      BY <3>1, <3>2
  <2>8. \A v \in Users \ late' : Closed(data'[v]) /\ (user'[v].st = "purged" => data'[v] = {})
    BY <2>3 DEF PurgeInv
  <2> HIDE DEF g
  <2> QED
    BY <2>6, <2>7, <2>8 DEF PurgeInv
<1>12. ASSUME NEW h \in Handlers, PurgeCommit(h) PROVE PurgeInv'
  <2>1. PICK u \in Users : u = loc[h].u
    BY <1>12 DEF PurgeCommit, TypeInv
  <2>2. PICK d : d = View(h)
    OBVIOUS
  <2>3. /\ pc[h] = "purge" /\ Rest(loc[h].k) = {} /\ Idle(h) /\ late' = late
        /\ data'[u] = d /\ \A v \in Users \ {u} : data'[v] = data[v] /\ user'[v] = user[v]
    BY <1>12, <2>1, <2>2 DEF PurgeCommit, TypeInv
  <2>4. u \notin late => d = {}
    BY <2>1, <2>2, <2>3, EmptiesAll DEF PurgeInv, TypeInv, Loc, View
  <2>5. /\ pc'[h] = "idle"
        /\ \A k \in Handlers \ {h} : pc'[k] = pc[k] /\ loc'[k] = loc[k]
    BY <2>3, IdleMoves, NoRowType, MovedType DEF PC
  <2>6. \A k \in Handlers : pc'[k] \in {"create", "restore"} => loc'[k].row.st = "live"
    BY <2>5 DEF PurgeInv
  <2>7. ASSUME NEW v \in Users \ late'
        PROVE  Closed(data'[v]) /\ (user'[v].st = "purged" => data'[v] = {})
    BY <2>3, <2>4 DEF PurgeInv, Closed
  <2>8. ASSUME NEW v \in Users \ late', NEW k \in Handlers, pc'[k] = "purge", loc'[k].u = v
        PROVE  Emptied(loc'[k].k, data'[v], loc'[k].gone)
    <3>1. Emptied(loc[k].k, data[v], loc[k].gone) /\ loc'[k] = loc[k]
      BY <2>3, <2>5, <2>8 DEF PurgeInv
    <3> QED
      BY <2>3, <2>4, <3>1 DEF Emptied
  <2> QED
    BY <2>6, <2>7, <2>8 DEF PurgeInv
<1>13. ASSUME NEW u \in Users, DeleteUser(u) \/ \E s \in Statuses : UpdateStatus(u, s)
       PROVE  PurgeInv'
  <2>1. \E s : user' = [user EXCEPT ![u].st = "deleted"] \/ user' = [user EXCEPT ![u].status = s]
    BY <1>13 DEF DeleteUser, UpdateStatus
  <2>2. \A v \in Users : user'[v].st = user[v].st \/ user'[v].st = "deleted"
    BY <2>1 DEF TypeInv, Row
  <2> QED
    BY <1>13, <2>2, PurgeStays DEF DeleteUser, UpdateStatus, Unpurged
<1>14. ASSUME NEW u \in Users, NEW t \in Tables, AddRow(u, t) PROVE PurgeInv'
  <2>1. /\ t \in Written /\ Via(t) \subseteq data[u] /\ UNCHANGED <<user, pc, loc>>
        /\ data'[u] = data[u] \cup {t} /\ \A v \in Users \ {u} : data'[v] = data[v]
        /\ late \subseteq late'
        /\ u \notin late' => Exists(u) /\ ~\E h \in Handlers : pc[h] = "purge" /\ loc[h].u = u
    BY <1>14 DEF AddRow, TypeInv, At
  <2>2. u \notin late' => Closed(data'[u]) /\ user'[u].st # "purged"
    BY <2>1 DEF PurgeInv, Closed, Exists
  <2>3. ASSUME NEW v \in Users \ late', NEW k \in Handlers, pc'[k] = "purge", loc'[k].u = v
        PROVE  Emptied(loc'[k].k, data'[v], loc'[k].gone)
    BY <2>1, <2>3 DEF PurgeInv
  <2> QED
    BY <2>1, <2>2, <2>3 DEF PurgeInv
<1>15. ASSUME NEW u \in Users,
              CodeExpires(u) \/ Login(u) \/ LoginAdmin(u) \/ TokenExpires(u)
                \/ \E t \in Links : ForgotPassword(u, t)
       PROVE  PurgeInv'
  BY <1>0, <1>15, PurgeStays DEF CodeExpires, Login, LoginAdmin, TokenExpires, ForgotPassword
<1>16. ASSUME NEW t \in Links, LinkExpires(t) PROVE PurgeInv'
  BY <1>0, <1>16, PurgeStays DEF LinkExpires
<1>17. CASE UNCHANGED vars
  BY <1>0, <1>17, PurgeStays DEF vars
<1> QED
  BY <1>3, <1>4, <1>5, <1>6, <1>7, <1>8, <1>9, <1>10, <1>11, <1>12, <1>13, <1>14, <1>15, <1>16,
     <1>17
    DEF Next

-----------------------------------------------------------------------------
(* The theorems *)

IInv == TypeInv /\ LinkInv /\ ProofInv /\ BarInv /\ PurgeInv

\* The database begins with all parts of IInv.
LEMMA Start0 == Init => IInv
<1> SUFFICES ASSUME Init PROVE IInv
  OBVIOUS
<1>1. TypeInv
  <2>1. pc \in [Handlers -> PC] /\ loc \in [Handlers -> Loc] /\ \A h \in Handlers : pc[h] = "idle"
    BY NoRowType DEF Init, PC
  <2>2. user \in [Users -> Row] /\ data \in [Users -> SUBSET Tables]
    BY NoRowType DEF Init
  <2>3. link \in [Links -> Link] /\ \A t \in Links : link[t].st = "none"
    BY DEF Init, Link
  <2> QED
    BY <2>1, <2>2, <2>3 DEF TypeInv
<1>2. LinkInv
  BY DEF Init, LinkInv, Resets
<1>3. ProofInv
  <2>1. NoRow.verified = FALSE /\ NoRow.role = "user"
    BY DEF NoRow, Account
  <2> QED
    BY <2>1 DEF Init, ProofInv, Vouched, Trusted, Known
<1>4. BarInv
  BY DEF Init, BarInv
<1>5. PurgeInv
  BY DEF Init, PurgeInv, Closed
<1> QED
  BY <1>1, <1>2, <1>3, <1>4, <1>5 DEF IInv

\* All parts of IInv hold at all times.
LEMMA Invariant == Spec => []IInv
<1>1. IInv /\ [Next]_vars => IInv'
  BY TypeStep, LinkStep, ProofStep, BarStep, PurgeStep DEF IInv
<1> QED
  BY Start0, <1>1, PTL DEF Spec

\* However many requests of any kind overlap, a link two of them were not using at once
\* changes one password (ResetPassword tests before it hashes, and marks after).
THEOREM ALinkWorksOnce == Spec => []ResetOnce
<1>1. IInv => ResetOnce
  BY DEF IInv, LinkInv, ResetOnce
<1> QED
  BY <1>1, Invariant, PTL

\* Nobody is signed in to an account that was never proven, unless by way of Google for an
\* address Google does not call verified: no stale copy of a row, put back by a profile edit,
\* verifies an account or makes an admin of it, and Restore's second lookup signs in to no
\* account that was not shown.
THEOREM NobodyInUnproven == Spec => []NoAccessUnproven
<1>1. IInv => NoAccessUnproven
  BY DEF IInv, ProofInv, Known, NoAccessUnproven
<1> QED
  BY <1>1, Invariant, PTL

\* An account that was shut while nothing under way could open it stays shut until an admin
\* opens it or it is deleted: no profile edit, code, reset link or sign-in does.
THEOREM ShutStaysShut == Spec => []BlockHolds
<1>1. IInv => BlockHolds
  BY DEF IInv, BarInv, BlockHolds
<1> QED
  BY <1>1, Invariant, PTL

\* However many requests purge accounts while others read and save them, a purge leaves no
\* row it should have found, if none was written while it ran or later.
THEOREM PurgedIsGone == Spec => []PurgeComplete
<1>1. IInv => PurgeComplete
  BY DEF IInv, PurgeInv, PurgeComplete
<1> QED
  BY <1>1, Invariant, PTL
=============================================================================
