----------------------------- MODULE Catalogue -----------------------------
(***************************************************************************)
(* Catalogue: the rows that admins edit, and the addresses that users keep. *)
(* An edit reads a row, changes what the request names, and writes all of  *)
(* it back with Save, which inserts the row if it finds none to update;    *)
(* of a plan it writes the features it read with it as well.  An insert    *)
(* stores the default of a column in the place of a zero or a false.       *)
(***************************************************************************)
EXTENDS Naturals, Sequences, Functions

CONSTANTS
  Editors,           \* requests that may be under way at once
  Plans, Features,    \* rows that are deleted for good
  Nuances, Configs,   \* rows that are marked as deleted
  AddressOrder,       \* the addresses of a user, in the order of their keys
  Keys,               \* slugs of plans, keys of features and of nuances
  Seeded,             \* the rows there are at first, with the key of each
  None,
  MaxRequests         \* bound: requests

Addresses == Range(AddressOrder)
Rows      == Plans \cup Features \cup Nuances \cup Configs \cup Addresses
Soft      == Nuances \cup Configs
ASSUME CatalogueAssumption ==
  /\ DOMAIN Seeded \subseteq Rows /\ \A i \in DOMAIN Seeded : Seeded[i] \in Keys
  /\ AddressOrder \in Seq(Addresses) /\ IsInjective(AddressOrder)
  /\ Addresses \cap (Plans \cup Features \cup Soft) = {}
  /\ MaxRequests \in Nat /\ None \notin Rows \cup Keys

VARIABLES
  rows,      \* whether each is there, its key, its text, whether it is active (or the default),
             \* and the limit of a plan
  links,     \* subscription_plan_features
  request,   \* the edit each of them has read a row for
  requests,
  meant,     \* history: what was asked for of each, if every request came after the one before
  replaced,  \* history: what of each an insert stored the default of, and no edit named since
  settings,  \* history: the text the user saved last, as long as no other address was written since
  calm       \* history: no two requests were ever under way at once

catalogue == <<rows, links, request, requests, meant, replaced, settings, calm>>

\* max_notebooks has the default 3 (and max_notes_per_notebook, which is like it, 10).
DefaultLimit == 3
Unused == [st |-> "unused", key |-> None, text |-> 0, active |-> FALSE, limit |-> DefaultLimit]
New(key, text, active) ==
  [st |-> "live", key |-> key, text |-> text, active |-> active, limit |-> DefaultLimit]
IsLive(i) == rows[i].st = "live"
\* The features a plan is read with.
LinksOf(p) == {f \in Features : <<p, f>> \in links /\ IsLive(f)}

CatalogueInit ==
  /\ rows = [i \in Rows |-> IF i \in DOMAIN Seeded THEN New(Seeded[i], 0, TRUE) ELSE Unused]
  /\ links = {} /\ request = [h \in Editors |-> None] /\ requests = 0
  /\ meant = rows /\ replaced = [i \in Rows |-> {}] /\ settings = None /\ calm = TRUE

-----------------------------------------------------------------------------
(* What the database and the repositories do. *)

\* A unique index counts the rows that are marked as deleted, too.
Taken(table, key, but) ==
  \E i \in table \ {but} :
    rows[i].key = key /\ (IsLive(i) \/ (i \in Soft /\ rows[i].st = "deleted"))

FeatureByKey(key) == {f \in Features : IsLive(f) /\ rows[f].key = key}
\* Only an active nuance is found by its key.
NuanceByKey(key)  == {n \in Nuances : IsLive(n) /\ rows[n].key = key /\ rows[n].active}
FindNuanceById(n)      == IsLive(n)
\* The first of the default addresses, by their keys.
DefaultAddress == {a \in Addresses : IsLive(a) /\ rows[a].active
                     /\ \A i, j \in DOMAIN AddressOrder :
                          AddressOrder[i] = a /\ j < i =>
                            ~(IsLive(AddressOrder[j]) /\ rows[AddressOrder[j]].active)}

\* A false or a zero that an insert takes for nothing, since the column has another default.
Defaults(i, r) ==
  (IF i \in Plans \cup Features \cup Nuances /\ ~r.active THEN {"active"} ELSE {})
  \cup (IF i \in Plans /\ r.limit = 0 THEN {"limit"} ELSE {})
Filled(r, z) == [r EXCEPT !.active = @ \/ "active" \in z,
                          !.limit = IF "limit" \in z THEN DefaultLimit ELSE @]
Stored(i, r) == Filled(r, Defaults(i, r))

Insert(i, r) == rows' = [rows EXCEPT ![i] = Stored(i, r)]
\* Save: an update of the whole row or, where there is none, an insert.
Saved(i, r)  == LET live == [r EXCEPT !.st = "live"] IN IF IsLive(i) THEN live ELSE Stored(i, live)
Save(i, r)   == rows' = [rows EXCEPT ![i] = Saved(i, r)]
Remove(i)    == rows' = IF IsLive(i) THEN [rows EXCEPT ![i].st = "deleted"] ELSE rows
Fails        == UNCHANGED <<rows, links>>

\* Fault: the features of the plan are replaced by those that were read.
FaultUpdatePlanRow(p, r, read) ==
  /\ rows' = [i \in Rows |-> IF i = p THEN Saved(p, r) ELSE rows[i]]
  /\ links' = {l \in links : l[1] # p} \cup {<<p, f>> : f \in DOMAIN read}

\* Save of a plan inserts what is missing of the features it was read with, and of its links.
UpdatePlanRow(p, r, read) ==
  /\ rows' = [i \in Rows |-> IF i = p THEN Saved(p, r)
                            ELSE IF i \in DOMAIN read /\ ~IsLive(i) THEN Stored(i, read[i])
                            ELSE rows[i]]
  /\ links' = links \cup {<<p, f>> : f \in DOMAIN read}

Clashes(f, r) == ~IsLive(f) /\ Taken(Features, r.key, f)

\* A row that is linked is not deleted.
DeletePlanRow(p) ==
  IF \E f \in Features : <<p, f>> \in links THEN Fails ELSE Remove(p) /\ UNCHANGED links
DeleteFeatureRow(f) ==
  IF \E p \in Plans : <<p, f>> \in links THEN Fails ELSE Remove(f) /\ UNCHANGED links

Blank == New("", 0, FALSE)
\* To append a feature inserts it, with nothing but its id, if it is gone.
AddFeatureToPlan(p, f) ==
  IF ~IsLive(p) \/ Clashes(f, Blank) THEN Fails
  ELSE /\ links' = links \cup {<<p, f>>}
       /\ IF IsLive(f) THEN UNCHANGED rows ELSE Insert(f, Blank)
RemoveFeatureFromPlan(p, f) == links' = links \ {<<p, f>>} /\ UNCHANGED rows

-----------------------------------------------------------------------------
(* Requests.  What a request writes in one statement is one step; what it has read before it *)
(* is kept by its handler.                                                                   *)

Fresh    == requests + 1
Under    == {h \in Editors : request[h] # None}
Arrives  == requests < MaxRequests /\ requests' = requests + 1 /\ calm' = (calm /\ Under = {})
Idle(h)  == request[h] = None
Read(h, op, i, more) ==
  /\ Idle(h) /\ Arrives
  /\ request' = [request EXCEPT ![h] = [op |-> op, id |-> i, row |-> rows[i], more |-> more]]
  /\ UNCHANGED <<rows, links, meant, replaced, settings>>
Doing(h, op) == request[h] # None /\ request[h].op = op
Done(h)      == request' = [request EXCEPT ![h] = None] /\ UNCHANGED <<requests, calm>>
\* A request that is one statement.
AtOnce(h)    == Idle(h) /\ Arrives /\ UNCHANGED request

\* What an edit names: a new text, whether the row is active, or both; or the limits of a plan.
Nothing     == [text |-> 0, active |-> <<>>, limit |-> <<>>]
Edits       == [text : {0, Fresh}, active : {<<>>, <<TRUE>>, <<FALSE>>}, limit : {<<>>}] \ {Nothing}
LimitEdits  == {[Nothing EXCEPT !.limit = <<l>>] : l \in {0, DefaultLimit}}
NamedBy(e)  ==
  (IF e.active = <<>> THEN {} ELSE {"active"}) \cup (IF e.limit = <<>> THEN {} ELSE {"limit"})
\* Fault: what is not named is cleared.
FaultApply(r, e) ==
  [r EXCEPT !.text = IF e.text = 0 THEN r.text ELSE e.text, !.active = (e.active = <<TRUE>>)]

Apply(r, e) == [r EXCEPT !.text = IF e.text = 0 THEN @ ELSE e.text,
                         !.active = IF e.active = <<>> THEN @ ELSE e.active[1],
                         !.limit = IF e.limit = <<>> THEN @ ELSE e.limit[1]]

Named(r, e) == [r EXCEPT !.st = "live",
                         !.text = IF e.text = 0 THEN @ ELSE e.text,
                         !.active = IF e.active = <<>> THEN @ ELSE e.active[1],
                         !.limit = IF e.limit = <<>> THEN @ ELSE e.limit[1]]
\* The histories: a row is made as r, its parts that e names are changed, it may be gone.
Intend(i, r, z)  == meant' = [meant EXCEPT ![i] = r] /\ replaced' = [replaced EXCEPT ![i] = z]
IntendNew(i, r)  == Intend(i, r, Defaults(i, r))
IntendEdit(i, e) == Intend(i, Named(meant[i], e), replaced[i] \ NamedBy(e))
IntendGone(i)    == Intend(i, [meant[i] EXCEPT !.st = rows'[i].st], replaced[i])
Unasked          == UNCHANGED <<meant, replaced>>
Kept             == UNCHANGED settings

CreatePlan(h, p, key, limit) ==
  /\ AtOnce(h) /\ rows[p] = Unused /\ Kept
  /\ IF Taken(Plans, key, p) THEN Fails /\ Unasked
     ELSE LET r == [New(key, Fresh, TRUE) EXCEPT !.limit = limit]
          IN  Insert(p, r) /\ IntendNew(p, r) /\ UNCHANGED links

ReadPlan(h, p, e) ==
  IsLive(p) /\ Read(h, "UpdatePlan", p, [edit |-> e, features |-> [f \in LinksOf(p) |-> rows[f]]])
UpdatePlan(h) ==
  /\ Doing(h, "UpdatePlan") /\ Done(h) /\ Kept
  /\ LET q == request[h] IN
       IF \/ Taken(Plans, q.row.key, q.id)
          \/ \E f \in DOMAIN q.more.features : Clashes(f, q.more.features[f])
       THEN Fails /\ Unasked
       ELSE /\ UpdatePlanRow(q.id, Apply(q.row, q.more.edit), q.more.features)
            /\ IntendEdit(q.id, q.more.edit)

DeletePlan(h, p) == AtOnce(h) /\ DeletePlanRow(p) /\ IntendGone(p) /\ Kept

ReadFeature(h, p, key) == \E f \in FeatureByKey(key) : IsLive(p) /\ Read(h, "AddFeature", f, p)
AddFeature(h) ==
  /\ Doing(h, "AddFeature") /\ Done(h) /\ Kept
  /\ AddFeatureToPlan(request[h].more, request[h].id) /\ Unasked
RemoveFeature(h, p, f) == AtOnce(h) /\ RemoveFeatureFromPlan(p, f) /\ Unasked /\ Kept

CheckFeature(h, f, key, active) ==
  /\ rows[f] = Unused /\ FeatureByKey(key) = {}
  /\ Read(h, "CreateFeature", f, [key |-> key, active |-> active])
CreateFeature(h) ==
  /\ Doing(h, "CreateFeature") /\ Done(h) /\ Kept
  /\ LET f == request[h].id   q == request[h].more   r == New(q.key, requests, q.active) IN
       IF Taken(Features, q.key, f) \/ rows[f] # Unused THEN Fails /\ Unasked
       ELSE Insert(f, r) /\ IntendNew(f, r) /\ UNCHANGED links

ReadFeatureRow(h, f, e) == IsLive(f) /\ Read(h, "UpdateFeature", f, e)
UpdateFeature(h) ==
  /\ Doing(h, "UpdateFeature") /\ Done(h) /\ Kept
  /\ LET q == request[h] IN
       IF Taken(Features, q.row.key, q.id) THEN Fails /\ Unasked
       ELSE /\ Save(q.id, Apply(q.row, q.more)) /\ UNCHANGED links
            /\ IntendEdit(q.id, q.more)

FindFeature(h, f) == IsLive(f) /\ Read(h, "DeleteFeature", f, None)
DeleteFeature(h)  ==
  /\ Doing(h, "DeleteFeature") /\ Done(h) /\ Kept
  /\ DeleteFeatureRow(request[h].id) /\ IntendGone(request[h].id)

UpdateRow(h, op) ==
  /\ Doing(h, op) /\ Done(h) /\ Kept /\ UNCHANGED links
  /\ LET q == request[h] IN Save(q.id, Apply(q.row, q.more)) /\ IntendEdit(q.id, q.more)

ReadConfig(h, c) ==
  IsLive(c) /\ Read(h, "UpdateConfiguration", c, [Nothing EXCEPT !.text = Fresh])
UpdateConfiguration(h) == UpdateRow(h, "UpdateConfiguration")

\* Whatever is asked for, a nuance is active at first.
CheckNuance(h, n, key) ==
  /\ rows[n] = Unused /\ NuanceByKey(key) = {}
  /\ Read(h, "CreateNuance", n, [key |-> key, active |-> TRUE])
CreateNuance(h) ==
  /\ Doing(h, "CreateNuance") /\ Done(h) /\ Kept /\ UNCHANGED links
  /\ LET n == request[h].id   q == request[h].more   r == New(q.key, requests, q.active) IN
       IF Taken(Nuances, q.key, n) \/ rows[n] # Unused THEN UNCHANGED rows /\ Unasked
       ELSE Insert(n, r) /\ IntendNew(n, r)

ReadNuance(h, n, e) == FindNuanceById(n) /\ Read(h, "UpdateNuance", n, e)
UpdateNuance(h)     == UpdateRow(h, "UpdateNuance")
FindNuance(h, n)    == FindNuanceById(n) /\ Read(h, "DeleteNuance", n, None)
DeleteNuance(h)     ==
  /\ Doing(h, "DeleteNuance") /\ Done(h) /\ Kept /\ UNCHANGED links
  /\ Remove(request[h].id) /\ IntendGone(request[h].id)

\* Fault: an address made for the settings is not marked as the default.
FaultNewDefault(text) == New(None, text, FALSE)
NewDefault(text)      == New(None, text, TRUE)

Ids                   == {a \in Addresses : rows[a] = Unused}
Others                == settings' = None /\ UNCHANGED links

\* The settings edit the default address, or make one.
ReadDefault(h) ==
  \/ \E a \in DefaultAddress : Read(h, "UpdateBillingInfo", a, Fresh)
  \/ DefaultAddress = {} /\ \E a \in Ids : Read(h, "UpdateBillingInfo", a, Fresh)
UpdateBillingInfo(h) ==
  /\ Doing(h, "UpdateBillingInfo") /\ Done(h) /\ UNCHANGED links
  /\ LET q == request[h] IN
       /\ IF q.row # Unused THEN /\ Save(q.id, [q.row EXCEPT !.text = q.more])
                                 /\ IntendEdit(q.id, [Nothing EXCEPT !.text = q.more])
          ELSE \E a \in Ids : Insert(a, NewDefault(q.more)) /\ IntendNew(a, NewDefault(q.more))
       /\ settings' = q.more

\* A checkout leaves an address of its own, marked as the default.
CreateSubscription(h, a) ==
  /\ AtOnce(h) /\ a \in Ids /\ Others
  /\ Insert(a, New(None, Fresh, TRUE)) /\ IntendNew(a, New(None, Fresh, TRUE))
CreateBillingAddress(h, a, default) ==
  /\ AtOnce(h) /\ a \in Ids /\ Others
  /\ Insert(a, New(None, Fresh, default)) /\ IntendNew(a, New(None, Fresh, default))
ReadAddress(h, a, e) == IsLive(a) /\ Read(h, "UpdateBillingAddress", a, e)
UpdateBillingAddress(h) ==
  /\ Doing(h, "UpdateBillingAddress") /\ Done(h) /\ Others
  /\ LET q == request[h] IN Save(q.id, Apply(q.row, q.more)) /\ IntendEdit(q.id, q.more)
DeleteBillingAddress(h, a) == AtOnce(h) /\ IsLive(a) /\ Remove(a) /\ IntendGone(a) /\ Others

PlanRequests(h) ==
  \/ \E p \in Plans, k \in Keys : ReadFeature(h, p, k)
                                \/ \E l \in {0, DefaultLimit} : CreatePlan(h, p, k, l)
  \/ \E p \in Plans : DeletePlan(h, p) \/ \E e \in Edits \cup LimitEdits : ReadPlan(h, p, e)
  \/ \E p \in Plans, f \in Features : RemoveFeature(h, p, f)
  \/ UpdatePlan(h) \/ AddFeature(h)
FeatureRequests(h) ==
  \/ \E f \in Features : FindFeature(h, f)
                         \/ \E k \in Keys, a \in BOOLEAN : CheckFeature(h, f, k, a)
  \/ \E f \in Features, e \in Edits : ReadFeatureRow(h, f, e)
  \/ CreateFeature(h) \/ UpdateFeature(h) \/ DeleteFeature(h)
AiRequests(h) ==
  \/ \E c \in Configs : ReadConfig(h, c)
  \/ \E n \in Nuances : FindNuance(h, n) \/ \E k \in Keys : CheckNuance(h, n, k)
  \/ \E n \in Nuances, e \in Edits : ReadNuance(h, n, e)
  \/ UpdateConfiguration(h) \/ CreateNuance(h) \/ UpdateNuance(h) \/ DeleteNuance(h)
AddressRequests(h) ==
  \/ ReadDefault(h) \/ UpdateBillingInfo(h) \/ UpdateBillingAddress(h)
  \/ \E a \in Addresses : CreateSubscription(h, a) \/ DeleteBillingAddress(h, a)
  \/ \E a \in Addresses, d \in BOOLEAN : CreateBillingAddress(h, a, d)
  \/ \E a \in Addresses, e \in Edits : ReadAddress(h, a, e)

CatalogueNext ==
  \E h \in Editors : PlanRequests(h) \/ FeatureRequests(h) \/ AiRequests(h) \/ AddressRequests(h)
CatalogueSpec == CatalogueInit /\ [][CatalogueNext]_catalogue

-----------------------------------------------------------------------------
(* Properties. *)

\* A feature is taken out of a plan by the request that does so and by nothing else, however an
\* edit that read the plan without it or with it overlaps (subscription_repository_impl.go:47).
LinksKept ==
  [][\/ links \subseteq links'
     \/ \E h \in Editors, p \in Plans, f \in Features : RemoveFeature(h, p, f)]_catalogue

\* As long as requests come one after the other every row holds what was asked for last of each of
\* its parts, although each edit writes all of them (plan/manager.go:49-101,
\* feature/manager.go:56-86).  Except, as the code has it, that a row is made with the default
\* where it should be made with a false or a zero (feature_model.go:18,
\* subscription_model.go:19-20): it has the default then, until an edit names that part, and only
\* there.
EditsAreKept == calm => rows = [i \in Rows |-> Filled(meant[i], replaced[i])]

\* The address in the settings is the one saved there last, if none was written elsewhere since,
\* although checkouts leave any number of default addresses (user_service.go:346-419).
SettingsShowWhatWasSaved ==
  calm /\ settings # None => \E a \in DefaultAddress : rows[a].text = settings
=============================================================================
