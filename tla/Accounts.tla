------------------------------ MODULE Accounts ------------------------------
(***************************************************************************)
(* Accounts: registration and its mail code, signing in, password reset,   *)
(* sign-in with Google, profile edits, what admins do to accounts, and the *)
(* purge.  A handler is a run of statements; what it read may be old when  *)
(* it writes.  Profile edits and admin edits save the whole row, and the   *)
(* save inserts the row if it finds none that is not deleted.              *)
(***************************************************************************)
EXTENDS Naturals, Sequences, FiniteSets

CONSTANTS
  Users,        \* ids of accounts
  Emails,
  Links,        \* ids of password reset tokens
  Handlers,     \* requests of several statements that may be in progress at once
  Written,      \* the tables in which users have rows, of those the purge empties
  Nobody, Nothing,
  MaxRequests   \* bound: requests that write, of all kinds

\* The tables a purge empties, in its order; those with no rows of users make no difference.
Order == <<"citations", "messages", "sessions", "embeddings", "notes", "notebooks",
           "refunds", "cancellations", "billing", "subscriptions">>
Tables == {Order[i] : i \in DOMAIN Order}
\* What a purge that has come to the k-th table has still to do.
Rest(k) == {i \in k .. Len(Order) : Order[i] \in Written}

ASSUME AccountsAssumption ==
  /\ IsFiniteSet(Users) /\ Nobody \notin Users /\ Nothing \notin Links
  /\ Emails # {} /\ Written \subseteq Tables
  /\ MaxRequests \in Nat

Statuses == {"pending", "active", "blocked"}

VARIABLES
  user,         \* rows of users
  code,         \* the mail code of each: none (also once used), live, or expired
  link,         \* rows of password_reset_tokens, with how often each was used
  signed,       \* users somebody holds a valid access token for
  data,         \* the tables in which each has rows
  pc, loc,      \* the requests
  requests,
  proven,       \* history: the address was proven, by code or Google, or an admin vouched
  unsure,       \* history: signed in to by way of Google, its address not proven since
  barred,       \* history: blocked while no code was live and no request under way
  doubled,      \* history: links two requests were using at once
  late          \* history: rows were written while the account was purged, or after

tables  == <<user, code, link, data>>
shown   == <<proven, unsure>>
history == <<shown, barred, doubled, late>>
vars    == <<tables, signed, pc, loc, requests, history>>

Row     == [st : {"none", "live", "deleted", "purged"}, email : Emails, status : Statuses,
            verified : BOOLEAN, pw : BOOLEAN, role : {"user", "admin"}]
Account(e, s, v, p, r) ==
  [st |-> "live", email |-> e, status |-> s, verified |-> v, pw |-> p, role |-> r]
NoRow   ==
  [Account(CHOOSE e \in Emails : TRUE, "pending", FALSE, FALSE, "user") EXCEPT !.st = "none"]
Blank   == [u |-> Nobody, row |-> NoRow, vouch |-> FALSE, t |-> Nothing,
            k |-> 1, gone |-> {}]

Init ==
  /\ user = [u \in Users |-> NoRow] /\ code = [u \in Users |-> "none"]
  /\ link = [t \in Links |-> [st |-> "none", owner |-> Nobody, uses |-> 0]]
  /\ signed = {} /\ data = [u \in Users |-> {}]
  /\ pc = [h \in Handlers |-> "idle"] /\ loc = [h \in Handlers |-> Blank]
  /\ requests = 0
  /\ proven = {} /\ unsure = {} /\ barred = {}
  /\ doubled = {} /\ late = {}

Live(u)    == user[u].st = "live"
Exists(u)  == user[u].st \in {"live", "deleted"}
Having(e)  == {u \in Users : Live(u) /\ user[u].email = e}
\* The unique index counts deleted rows too.
Taken(e)   == {u \in Users : Exists(u) /\ user[u].email = e}

Counted          == requests < MaxRequests /\ requests' = requests + 1
Start(h, l, rec) == /\ pc[h] = "idle" /\ Counted
                    /\ pc' = [pc EXCEPT ![h] = l] /\ loc' = [loc EXCEPT ![h] = rec]
Idle(h)          == pc' = [pc EXCEPT ![h] = "idle"] /\ loc' = [loc EXCEPT ![h] = Blank]
Goto(h, l, rec)  == pc' = [pc EXCEPT ![h] = l] /\ loc' = [loc EXCEPT ![h] = rec]
At(l)            == {h \in Handlers : pc[h] = l}
Shut(s)          == s = "blocked"
\* What an address is worth that Google names, or an admin enters: these vouch for it.
Shown(u, vouch)  == /\ proven' = IF vouch THEN proven \cup {u} ELSE proven
                    /\ unsure' = (unsure \cup {u}) \ proven'
\* An account is barred if it is shut while nothing is under way that may open it.
Barred(u, s, others) == IF ~Shut(s) THEN barred \ {u}
                        ELSE IF code[u] = "live" \/ \E h \in others : loc[h].u = u THEN barred
                        ELSE barred \cup {u}

-----------------------------------------------------------------------------
\* No live account has the address.
Register(h, e) ==
  /\ Having(e) = {}
  /\ Start(h, "create", [Blank EXCEPT !.row = Account(e, "pending", FALSE, TRUE, "user")])
  /\ UNCHANGED <<tables, signed, history>>

\* An admin's new account needs no code; a bulk creation is many of these.
AdminCreate(h, e, r) ==
  /\ Having(e) = {}
  /\ Start(h, "create", [Blank EXCEPT !.row = Account(e, "active", TRUE, TRUE, r), !.vouch = TRUE])
  /\ UNCHANGED <<tables, signed, history>>

\* The account, with its code if it needs one, in one transaction.
Create(h, u) ==
  LET r == loc[h].row IN
  /\ pc[h] = "create" /\ user[u].st = "none" /\ Taken(r.email) = {}
  /\ user' = [user EXCEPT ![u] = r]
  /\ code' = IF r.status = "pending" THEN [code EXCEPT ![u] = "live"] ELSE code
  /\ IF r.verified THEN Shown(u, loc[h].vouch) ELSE UNCHANGED shown
  /\ IF r.pw THEN Idle(h) ELSE Goto(h, "sign", [Blank EXCEPT !.u = u])
  /\ UNCHANGED <<link, data, signed, requests, barred, doubled, late>>

\* The address is taken after all, or was by a deleted account all the time.
CreateFails(h) ==
  /\ pc[h] = "create" /\ Taken(loc[h].row.email) # {} /\ Idle(h)
  /\ UNCHANGED <<tables, signed, requests, history>>

\* Fault: the code is not tested for its age.
FaultVerifyEmail(h, u) ==
  /\ Live(u) /\ user[u].status # "active" /\ code[u] # "none"
  /\ Start(h, "activate", [Blank EXCEPT !.u = u])
  /\ UNCHANGED <<tables, signed, history>>

\* An active account is left as it is; any other is activated with its code.
VerifyEmail(h, u) ==
  /\ Live(u) /\ user[u].status # "active" /\ code[u] = "live"
  /\ Start(h, "activate", [Blank EXCEPT !.u = u])
  /\ UNCHANGED <<tables, signed, history>>

Activate(h) ==
  LET u == loc[h].u IN
  /\ pc[h] = "activate" /\ Idle(h)
  /\ user' = IF Live(u) THEN [user EXCEPT ![u].status = "active", ![u].verified = TRUE] ELSE user
  /\ code' = [code EXCEPT ![u] = "none"] /\ Shown(u, TRUE)
  /\ UNCHANGED <<link, data, signed, requests, barred, doubled, late>>

\* A quarter of an hour after registration.
CodeExpires(u) ==
  /\ code[u] = "live" /\ code' = [code EXCEPT ![u] = "expired"]
  /\ UNCHANGED <<user, link, data, signed, pc, loc, requests, history>>

-----------------------------------------------------------------------------
\* Fault: the address need not be verified.
FaultLogin(u) ==
  /\ Live(u) /\ user[u].pw /\ user[u].status # "blocked"
  /\ signed' = signed \cup {u}
  /\ UNCHANGED <<tables, pc, loc, requests, history>>

\* With the right password.
Login(u) ==
  /\ Live(u) /\ user[u].pw
  /\ user[u].status # "pending" /\ user[u].verified /\ user[u].status # "blocked"
  /\ signed' = signed \cup {u}
  /\ UNCHANGED <<tables, pc, loc, requests, history>>

LoginAdmin(u) ==
  /\ Live(u) /\ user[u].role = "admin" /\ user[u].pw /\ user[u].status # "blocked"
  /\ signed' = signed \cup {u}
  /\ UNCHANGED <<tables, pc, loc, requests, history>>

\* A day after signing in; nothing else ends an access token.
TokenExpires(u) ==
  /\ signed' = signed \ {u}
  /\ UNCHANGED <<tables, pc, loc, requests, history>>

\* Google names an address and says if it is verified, which is read and not asked again:
\* the account with the address, or the deleted one, or a new one.
HandleCallback(h, e, verified) ==
  /\ \/ \E u \in Having(e) : Start(h, "sign", [Blank EXCEPT !.u = u]) /\ Shown(u, verified)
     \/ /\ Having(e) = {} /\ UNCHANGED shown
        /\ \E u \in Taken(e) :
             Start(h, "restore", [Blank EXCEPT !.u = u, !.vouch = verified,
                                               !.row = Account(e, "active", TRUE, FALSE, "user")])
     \/ /\ Taken(e) = {} /\ UNCHANGED shown
        /\ Start(h, "create", [Blank EXCEPT !.vouch = verified,
                                            !.row = Account(e, "active", TRUE, FALSE, "user")])
  /\ UNCHANGED <<tables, signed, barred, doubled, late>>

\* The deleted row comes back active, and the address is looked up again: it may be another
\* account's by now, or nobody's, and then a new account is made.
Restore(h) ==
  LET u == loc[h].u r == loc[h].row
      now   == IF Exists(u) THEN [user EXCEPT ![u].st = "live", ![u].status = "active"] ELSE user
      found == {w \in Users : now[w].st = "live" /\ now[w].email = r.email}
  IN
  /\ pc[h] = "restore" /\ user' = now
  /\ \/ \E w \in found : Goto(h, "sign", [Blank EXCEPT !.u = w]) /\ Shown(w, loc[h].vouch)
     \/ /\ found = {} /\ UNCHANGED shown
        /\ Goto(h, "create", [Blank EXCEPT !.row = r, !.vouch = loc[h].vouch])
  /\ UNCHANGED <<code, link, data, signed, requests, barred, doubled, late>>

\* The provider is noted, and the user is in, whatever the account's status.
Sign(h) ==
  /\ pc[h] = "sign" /\ Idle(h)
  /\ signed' = signed \cup {loc[h].u}
  /\ UNCHANGED <<tables, requests, history>>

-----------------------------------------------------------------------------
ForgotPassword(u, t) ==
  /\ Live(u) /\ link[t].st = "none" /\ Counted
  /\ link' = [link EXCEPT ![t] = [st |-> "live", owner |-> u, uses |-> 0]]
  /\ UNCHANGED <<user, code, data, signed, pc, loc, history>>

\* Neither used nor an hour old; the password is hashed after the test.
ResetPassword(h, t) ==
  /\ link[t].st = "live"
  /\ Start(h, "reset", [Blank EXCEPT !.u = link[t].owner, !.t = t])
  /\ doubled' = IF \E k \in At("reset") : loc[k].t = t THEN doubled \cup {t} ELSE doubled
  /\ UNCHANGED <<tables, signed, shown, barred, late>>

\* Fault: the token is not marked.
FaultResetCommit(h) ==
  LET u == loc[h].u t == loc[h].t IN
  /\ pc[h] = "reset" /\ Idle(h)
  /\ user' = IF Live(u) THEN [user EXCEPT ![u].pw = TRUE] ELSE user
  /\ link' = [link EXCEPT ![t].uses = @ + 1]
  /\ UNCHANGED <<code, data, signed, requests, history>>

ResetCommit(h) ==
  LET u == loc[h].u t == loc[h].t IN
  /\ pc[h] = "reset" /\ Idle(h)
  /\ user' = IF Live(u) THEN [user EXCEPT ![u].pw = TRUE] ELSE user
  /\ link' = [link EXCEPT ![t].st = "used", ![t].uses = @ + 1]
  /\ UNCHANGED <<code, data, signed, requests, history>>

LinkExpires(t) ==
  /\ link[t].st = "live" /\ link' = [link EXCEPT ![t].st = "expired"]
  /\ UNCHANGED <<user, code, data, signed, pc, loc, requests, history>>

-----------------------------------------------------------------------------
\* A signed-in user's row is read, to be saved with another name.
UpdateProfile(h, u) ==
  /\ u \in signed /\ Live(u)
  /\ Start(h, "save", [Blank EXCEPT !.u = u, !.row = user[u]])
  /\ UNCHANGED <<tables, signed, history>>

\* An admin's edit: the status, the role or the address.
UpdateUser(h, u, change) ==
  /\ Live(u)
  /\ Start(h, "save", [Blank EXCEPT !.u = u, !.row = change, !.vouch = TRUE])
  /\ UNCHANGED <<tables, signed, history>>
Changes(r) == {[r EXCEPT !.status = s] : s \in Statuses}
                \cup {[r EXCEPT !.role = "admin"]} \cup {[r EXCEPT !.email = e] : e \in Emails}

\* Save updates the row, or puts it back; another account may have the address by now.
Save(h) ==
  LET u == loc[h].u r == loc[h].row IN
  /\ pc[h] = "save" /\ Idle(h)
  /\ IF Taken(r.email) \subseteq {u}
     THEN /\ user' = [user EXCEPT ![u] = r]
          /\ IF loc[h].vouch
             THEN Shown(u, TRUE) /\ barred' = Barred(u, r.status, Handlers \ {h})
             ELSE UNCHANGED <<shown, barred>>
     ELSE UNCHANGED <<user, shown, barred>>
  /\ UNCHANGED <<code, link, data, signed, requests, doubled, late>>

UpdateStatus(u, s) ==
  /\ Live(u) /\ Counted
  /\ user' = [user EXCEPT ![u].status = s] /\ barred' = Barred(u, s, Handlers)
  /\ Shown(u, TRUE)
  /\ UNCHANGED <<code, link, data, signed, pc, loc, doubled, late>>

\* By the user or by an admin: the row is marked deleted.
DeleteUser(u) ==
  /\ Live(u) /\ Counted
  /\ user' = [user EXCEPT ![u].st = "deleted"] /\ barred' = barred \ {u}
  /\ UNCHANGED <<code, link, data, signed, pc, loc, shown, doubled, late>>

-----------------------------------------------------------------------------
\* Rows by which a table's rows are found to be the user's; rows that must not be left
\* when those they refer to are deleted.
Via(t)    == CASE t = "citations" -> {"messages", "sessions"}
               [] t = "messages" -> {"sessions"}
               [] t = "embeddings" -> {"notes"}
               [] OTHER -> {}
Claims(t) == IF t \in {"subscriptions", "users"} THEN {"refunds", "cancellations"} ELSE {}

\* Signed in, a user writes rows; a request of an account just purged writes them too,
\* unless they refer to the account by a foreign key.
AddRow(u, t) ==
  /\ u \in signed /\ t \in Written \ data[u] /\ Via(t) \subseteq data[u]
  /\ t \in Claims("users") => Exists(u)
  /\ data' = [data EXCEPT ![u] = @ \cup {t}]
  /\ late' = IF Exists(u) /\ ~\E h \in At("purge") : loc[h].u = u THEN late ELSE late \cup {u}
  /\ UNCHANGED <<user, code, link, signed, pc, loc, requests, shown, barred, doubled>>

\* One transaction for each account.
PurgeUsers(h, u) ==
  /\ Exists(u)
  /\ Start(h, "purge", [Blank EXCEPT !.u = u])
  /\ UNCHANGED <<tables, signed, history>>

View(h) == data[loc[h].u] \ loc[h].gone

\* The user's rows in t, the i-th table, are deleted, those that are found.
Empties(h, i, t) ==
  /\ pc[h] = "purge" /\ i \in Rest(loc[h].k) /\ \A j \in Rest(loc[h].k) : i <= j
  /\ View(h) \cap Claims(t) = {}
  /\ loc' = [loc EXCEPT ![h].k = i + 1,
                        ![h].gone = @ \cup {x \in {t} : x \in View(h) /\ Via(t) \subseteq View(h)}]
  /\ UNCHANGED <<tables, signed, pc, requests, history>>

\* Fault: the sessions before the messages found by them.
FaultPurgeTable(h) ==
  \E i \in DOMAIN Order :
    Empties(h, i, CASE i = 2 -> Order[3] [] i = 3 -> Order[2] [] OTHER -> Order[i])

\* The next table.
PurgeTable(h) == \E i \in DOMAIN Order : Empties(h, i, Order[i])

\* At last the account itself.
PurgeCommit(h) ==
  LET u == loc[h].u IN
  /\ pc[h] = "purge" /\ Rest(loc[h].k) = {} /\ View(h) \cap Claims("users") = {} /\ Idle(h)
  /\ user' = IF Exists(u) THEN [user EXCEPT ![u].st = "purged"] ELSE user
  /\ data' = [data EXCEPT ![u] = View(h)] /\ barred' = barred \ {u}
  /\ UNCHANGED <<code, link, signed, requests, shown, doubled, late>>

\* A statement of any of them fails, as one does whose rows are referred to: the
\* transaction is rolled back, or there was none.
Fail(h) ==
  /\ pc[h] # "idle" /\ Idle(h)
  /\ UNCHANGED <<tables, signed, requests, history>>

Next ==
  \/ \E h \in Handlers :
       \/ \E e \in Emails : \/ Register(h, e)
                            \/ \E verified \in BOOLEAN : HandleCallback(h, e, verified)
                            \/ \E r \in {"user", "admin"} : AdminCreate(h, e, r)
       \/ \E u \in Users : \/ Create(h, u) \/ VerifyEmail(h, u) \/ UpdateProfile(h, u)
                           \/ PurgeUsers(h, u)
                           \/ \E c \in Changes(user[u]) : UpdateUser(h, u, c)
       \/ \E t \in Links : ResetPassword(h, t)
       \/ CreateFails(h) \/ Activate(h) \/ Restore(h) \/ Sign(h) \/ ResetCommit(h) \/ Save(h)
       \/ PurgeTable(h) \/ PurgeCommit(h) \/ Fail(h)
  \/ \E u \in Users :
       \/ CodeExpires(u) \/ Login(u) \/ LoginAdmin(u) \/ TokenExpires(u) \/ DeleteUser(u)
       \/ \E s \in Statuses : UpdateStatus(u, s)
       \/ \E t \in Links : ForgotPassword(u, t)
       \/ \E t \in Tables : AddRow(u, t)
  \/ \E t \in Links : LinkExpires(t)

Spec == Init /\ [][Next]_vars

-----------------------------------------------------------------------------
(* Properties *)

\* Nobody is signed in to an account whose address was not proven by its code or by
\* Google, unless an admin has vouched for the account (auth_service.go:193-196, "Check
\* if email is verified"), or it was signed in to once by way of Google for an address that
\* Google itself did not call verified: that is let through (oauth_service.go:114-131).
NoAccessUnproven == signed \subseteq proven \cup unsure

\* An account shut by an admin while no code for it was live and no request on it under way
\* stays shut until an admin opens it or it is deleted, whatever else is done.
BlockHolds == \A u \in barred : Live(u) /\ Shut(user[u].status)

\* A reset link changes a password once (auth_service.go:429, "this password reset link has
\* already been used"), unless two requests were using it at once.
ResetOnce == \A t \in Links \ doubled : link[t].uses <= 1

\* A purge leaves none of the account's rows in the tables it empties, unless some were
\* written while it ran or later (docs/changelog/v1.7.0_admin_purge_user.md).
PurgeComplete == \A u \in Users \ late : user[u].st = "purged" => data[u] = {}
=============================================================================
