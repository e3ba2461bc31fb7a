------------------------ MODULE NotificationsProofs ------------------------
(***************************************************************************)
(* That nobody has an event more often than it was delivered, and that an  *)
(* acknowledged event has reached whom it concerns.  Both properties speak *)
(* of the end of the work; their invariants of every moment in it: what is *)
(* stored, still to be stored and still waiting is not more than what was  *)
(* delivered, and whom an event concerns is served or still on the list.   *)
(***************************************************************************)
EXTENDS Notifications, FiniteSetTheorems, TLAPS

Targets == {"SELF", "ADMIN", "BROADCAST", "none", "off"}
Busy    == work.pc # "idle"

TypeInv ==
  /\ target \in [Events -> Targets]
  /\ rows \in [Events -> [Users -> Nat]] /\ pushed \in [Events -> [Users -> Nat]]
  /\ aired \in [Events -> Nat] /\ tries \in [Events -> Nat]
  /\ stream \in [Events -> {"absent", "stored", "lost", "acked"}]
  /\ inbox \in Seq(Events)
  /\ work.pc \in {"idle", "config", "resolve", "save", "push", "ack"}
  /\ Busy => work.e \in Events
  /\ work.pc \in {"save", "push"} => work.todo \subseteq Users
  /\ work.pc = "push" => work.u \in Users
  /\ admins \subseteq Users
  /\ work = [pc |-> work.pc, e |-> work.e, todo |-> work.todo, u |-> work.u]

-----------------------------------------------------------------------------
(* Whom an event concerns *)

Concerned(e, u) == u \in Recipients(e) /\ (target[e] = "ADMIN" => u \in steady)
                     /\ <<e, u>> \notin dropped
Has(e, u)       == pushed[e][u] >= 1 /\ rows[e][u] >= 1
Served(e) ==
  /\ target[e] \in {"SELF", "ADMIN"} => \A u \in Users : Concerned(e, u) => Has(e, u)
  /\ target[e] = "BROADCAST" => aired[e] >= 1

\* What the work on an event has come to.
WorkInv ==
  /\ work.pc \in {"save", "push"} =>
       /\ target[work.e] \in {"SELF", "ADMIN"}
       /\ \A u \in Users : Concerned(work.e, u) => u \in work.todo \/ Has(work.e, u)
  /\ work.pc = "push" => rows[work.e][work.u] >= 1
  /\ work.pc = "resolve" => target[work.e] \in {"SELF", "ADMIN", "BROADCAST"}
  /\ work.pc = "ack" => work.e \in missed \/ Served(work.e)

AckedInv == \A e \in Events : stream[e] = "acked" => e \in missed \/ Served(e)

\* No step takes back what was stored or sent, or concerns anybody anew: only SetRole
\* changes who is an admin, and whoever it is about is not steady any more.
Grows ==
  /\ target' = target /\ missed \subseteq missed'
  /\ \A e \in Events, u \in Users : rows'[e][u] >= rows[e][u] /\ pushed'[e][u] >= pushed[e][u]
  /\ \A e \in Events : aired'[e] >= aired[e]
  /\ \A e \in Events, u \in Users :
       target[e] \in {"SELF", "ADMIN"} /\ Concerned(e, u)' => Concerned(e, u)

\* Whom an event concerned and who had it has it still.
LEMMA GrowsServes ==
  ASSUME TypeInv, TypeInv', Grows, NEW e \in Events, Served(e)
  PROVE  Served(e)'
<1>1. target'[e] = target[e]
  BY DEF Grows
<1>2. \A u \in Users : Has(e, u) => Has(e, u)'
  BY DEF Grows, Has, TypeInv
<1>3. aired[e] >= 1 => aired'[e] >= 1
  BY DEF Grows, TypeInv
<1>4. target[e] \in {"SELF", "ADMIN"} => \A u \in Users : Concerned(e, u)' => Concerned(e, u)
  BY DEF Grows
<1> QED
  BY <1>1, <1>2, <1>3, <1>4 DEF Served

-----------------------------------------------------------------------------
(* Deliveries that wait *)

Places(s, e) == {i \in DOMAIN s : s[i] = e}
Copies(s, e) == Cardinality(Places(s, e))
One(b)       == IF b THEN 1 ELSE 0

\* How often an event waits is a number.
LEMMA CopiesType ==
  ASSUME NEW s \in Seq(Events), NEW e
  PROVE  IsFiniteSet(Places(s, e)) /\ Copies(s, e) \in Nat
<1>1. DOMAIN s = 1..Len(s) /\ Len(s) \in Nat
  OBVIOUS
<1>2. IsFiniteSet(1..Len(s))
  BY <1>1, FS_Interval
<1>3. Places(s, e) \in SUBSET (1..Len(s))
  BY <1>1 DEF Places
<1> QED
  BY <1>2, <1>3, FS_Subset, FS_CardinalityType DEF Copies

\* Nothing waits in an empty inbox.
LEMMA CopiesEmpty == \A e : Copies(<<>>, e) = 0
<1>1. \A e : Places(<<>>, e) = {}
  BY DEF Places
<1> QED
  BY <1>1, FS_EmptySet DEF Copies

\* An event that arrives is one copy more of it.
LEMMA CopiesAppend ==
  ASSUME NEW s \in Seq(Events), NEW x \in Events, NEW e
  PROVE  Copies(Append(s, x), e) = Copies(s, e) + One(x = e)
<1> DEFINE n == Len(s) + 1   t == Append(s, x)
<1>1. /\ Len(s) \in Nat /\ DOMAIN s = 1..Len(s) /\ DOMAIN t = 1..n
      /\ t[n] = x /\ \A i \in 1..Len(s) : t[i] = s[i]
  OBVIOUS
<1>2. n \notin Places(s, e)
  BY <1>1 DEF Places
<1>3. Places(t, e) = IF x = e THEN Places(s, e) \cup {n} ELSE Places(s, e)
  BY <1>1 DEF Places
<1>4. IsFiniteSet(Places(s, e)) /\ Cardinality(Places(s, e)) \in Nat
  BY CopiesType DEF Copies
<1>5. Cardinality(Places(s, e) \cup {n}) = Cardinality(Places(s, e)) + 1
  <2> HIDE DEF n
  <2> QED
    BY <1>2, <1>4, FS_AddElement
<1> HIDE DEF n, t
<1>6. Cardinality(Places(t, e)) = Cardinality(Places(s, e)) + One(x = e)
  BY <1>3, <1>4, <1>5 DEF One
<1> QED
  BY <1>6 DEF Copies, t

\* The event that is taken is one copy less of it.
LEMMA CopiesTail ==
  ASSUME NEW s \in Seq(Events), s # <<>>, NEW e
  PROVE  Copies(s, e) = Copies(Tail(s), e) + One(Head(s) = e)
<1> DEFINE t == Tail(s)
           S == Places(t, e)
           T == Places(s, e) \ {1}
           f == [i \in S |-> i + 1]
<1>1. /\ Len(s) \in Nat \ {0} /\ DOMAIN s = 1..Len(s) /\ DOMAIN t = 1..(Len(s) - 1)
      /\ s[1] = Head(s) /\ \A i \in 1..(Len(s) - 1) : t[i] = s[i + 1]
  OBVIOUS
<1>2. t \in Seq(Events)
  OBVIOUS
<1>3. S \subseteq 1..(Len(s) - 1) /\ T \subseteq 2..Len(s)
  BY <1>1 DEF Places
<1>4. \A i \in S : i + 1 \in T
  BY <1>1, <1>3 DEF Places
<1>5. \A j \in T : j - 1 \in S /\ j = (j - 1) + 1
  BY <1>1, <1>3 DEF Places
<1>6. f \in Bijection(S, T)
  <2>1. f \in [S -> T] /\ \A i \in S : f[i] = i + 1
    BY <1>4
  <2>2. \A i, j \in S : f[i] = f[j] => i = j
    BY <1>3, <2>1
  <2>3. \A j \in T : \E i \in S : f[i] = j
    BY <1>5, <2>1
  <2> HIDE DEF f, S, T
  <2> QED
    BY <2>1, <2>2, <2>3 DEF Bijection, Injection, Surjection, IsInjective
<1>a. IsFiniteSet(S)
  BY <1>2, CopiesType
<1>7. Cardinality(T) = Copies(t, e)
  <2>1. ExistsBijection(S, T)
    BY <1>6 DEF ExistsBijection
  <2>2. Cardinality(T) = Cardinality(S)
    <3> HIDE DEF S, T
    <3> QED
      BY <1>a, <2>1, FS_Bijection
  <2> QED
    BY <2>2 DEF Copies
<1>8. 1 \in Places(s, e) <=> Head(s) = e
  BY <1>1 DEF Places
<1>9. Cardinality(T)
        = IF 1 \in Places(s, e) THEN Cardinality(Places(s, e)) - 1 ELSE Cardinality(Places(s, e))
  BY CopiesType, FS_RemoveElement
<1> QED
  BY <1>7, <1>8, <1>9, CopiesType DEF Copies, One

-----------------------------------------------------------------------------
(* Types *)

\* A record with one or two fields changed.
LEMMA Changed ==
  ASSUME NEW w, w = [pc |-> w.pc, e |-> w.e, todo |-> w.todo, u |-> w.u], NEW x, NEW y
  PROVE  /\ [w EXCEPT !.pc = x] = [pc |-> x, e |-> w.e, todo |-> w.todo, u |-> w.u]
         /\ [w EXCEPT !.pc = x, !.e = y] = [pc |-> x, e |-> y, todo |-> w.todo, u |-> w.u]
         /\ [w EXCEPT !.pc = x, !.todo = y] = [pc |-> x, e |-> w.e, todo |-> y, u |-> w.u]
         /\ [w EXCEPT !.pc = x, !.u = y] = [pc |-> x, e |-> w.e, todo |-> w.todo, u |-> y]
<1> DEFINE w1 == [w EXCEPT !.pc = x]
           w2 == [w EXCEPT !.pc = x, !.e = y]
           w3 == [w EXCEPT !.pc = x, !.todo = y]
           w4 == [w EXCEPT !.pc = x, !.u = y]
<1>1. w1 = [w EXCEPT !.pc = x] /\ w2 = [w EXCEPT !.pc = x, !.e = y]
  OBVIOUS
<1>2. w3 = [w EXCEPT !.pc = x, !.todo = y] /\ w4 = [w EXCEPT !.pc = x, !.u = y]
  OBVIOUS
<1> HIDE DEF w1, w2, w3, w4
<1>3. w1 = [pc |-> x, e |-> w.e, todo |-> w.todo, u |-> w.u]
  BY <1>1
<1>4. w2 = [pc |-> x, e |-> y, todo |-> w.todo, u |-> w.u]
  BY <1>1
<1>5. w3 = [pc |-> x, e |-> w.e, todo |-> y, u |-> w.u]
  BY <1>2
<1>6. w4 = [pc |-> x, e |-> w.e, todo |-> w.todo, u |-> y]
  BY <1>2
<1> QED
  BY <1>3, <1>4, <1>5, <1>6 DEF w1, w2, w3, w4

\* The consumer at rest, and when it has taken a message.
LEMMA WorkRecord ==
  /\ Rest.pc = "idle" /\ Rest = [pc |-> Rest.pc, e |-> Rest.e, todo |-> Rest.todo, u |-> Rest.u]
  /\ \A e :
       [Rest EXCEPT !.pc = "config", !.e = e]
         = [pc |-> "config", e |-> e, todo |-> Rest.todo, u |-> Rest.u]
<1> DEFINE e0 == CHOOSE e \in Events : TRUE   u0 == CHOOSE u \in Users : TRUE
<1>1. Rest = [pc |-> "idle", e |-> e0, todo |-> {}, u |-> u0]
  BY DEF Rest
<1> HIDE DEF e0, u0
<1>2. Rest.pc = "idle" /\ Rest = [pc |-> Rest.pc, e |-> Rest.e, todo |-> Rest.todo, u |-> Rest.u]
  BY <1>1
<1>3. ASSUME NEW e
      PROVE  [Rest EXCEPT !.pc = "config", !.e = e]
               = [pc |-> "config", e |-> e, todo |-> Rest.todo, u |-> Rest.u]
  <2> DEFINE z == [Rest EXCEPT !.pc = "config", !.e = e]
  <2>1. z = [Rest EXCEPT !.pc = "config", !.e = e]
    OBVIOUS
  <2> HIDE DEF z
  <2>2. z = [pc |-> "config", e |-> e, todo |-> Rest.todo, u |-> Rest.u]
    BY <1>2, <2>1
  <2> QED
    BY <2>2 DEF z
<1> QED
  BY <1>2, <1>3

\* What the goroutine does to its work: it goes on, perhaps with other recipients.
LEMMA WorkGoesOn ==
  ASSUME TypeInv, NEW c, NEW t, NEW u
  PROVE  /\ [work EXCEPT !.pc = c] = [pc |-> c, e |-> work.e, todo |-> work.todo, u |-> work.u]
         /\ [work EXCEPT !.pc = c, !.todo = t] = [pc |-> c, e |-> work.e, todo |-> t, u |-> work.u]
         /\ [work EXCEPT !.pc = c, !.u = u] = [pc |-> c, e |-> work.e, todo |-> work.todo, u |-> u]
<1>1. work = [pc |-> work.pc, e |-> work.e, todo |-> work.todo, u |-> work.u]
  BY DEF TypeInv
<1> QED
  BY <1>1, Changed

\* Recipients are users.
LEMMA RecipientsType ==
  ASSUME TypeInv, NEW e \in Events
  PROVE  Recipients(e) \subseteq Users
  BY NotificationsAssumption DEF Recipients, TypeInv

\* Every step keeps the types.
LEMMA TypeStep == TypeInv /\ [Next]_vars => TypeInv'
<1> SUFFICES ASSUME TypeInv, [Next]_vars PROVE TypeInv'
  OBVIOUS
<1> USE DEF Busy
<1>1. CASE UNCHANGED vars
  BY <1>1 DEF vars, effects, server, TypeInv
<1>2. ASSUME NEW e \in Events, Publish(e) PROVE TypeInv'
  BY <1>2 DEF Publish, Sent, effects, TypeInv
<1>3. ASSUME NEW e \in Events, Deliver(e) PROVE TypeInv'
  <2>1. inbox' \in Seq(Events)
    BY <1>3 DEF Deliver, TypeInv
  <2>2. tries' \in [Events -> Nat]
    BY <1>3 DEF Deliver, TypeInv
  <2> QED
    BY <1>3, <2>1, <2>2 DEF Deliver, effects, TypeInv
<1>4. ASSUME NEW e \in Events, AckWait(e) PROVE TypeInv'
  BY <1>4 DEF AckWait, effects, TypeInv
<1>5. CASE Take
  <2>1. Head(inbox) \in Events /\ Tail(inbox) \in Seq(Events)
    BY <1>5 DEF Take, TypeInv
  <2>2. work'.pc = "config" /\ work'.e = Head(inbox)
          /\ work' = [pc |-> work'.pc, e |-> work'.e, todo |-> work'.todo, u |-> work'.u]
    BY <1>5, WorkRecord DEF Take
  <2> QED
    BY <1>5, <2>1, <2>2 DEF Take, effects, server, TypeInv
<1>6. CASE GetConfig
  <2>1. PICK c \in {"ack", "resolve"} : work' = [work EXCEPT !.pc = c]
    BY <1>6 DEF GetConfig
  <2>2. work' = [pc |-> c, e |-> work.e, todo |-> work.todo, u |-> work.u]
    BY <2>1, WorkGoesOn
  <2> QED
    BY <1>6, <2>2 DEF GetConfig, effects, server, TypeInv
<1>7. CASE Broadcast
  <2>1. work' = [pc |-> "ack", e |-> work.e, todo |-> work.todo, u |-> work.u]
    BY <1>7, WorkGoesOn DEF Broadcast
  <2>2. aired' \in [Events -> Nat]
    BY <1>7 DEF Broadcast, TypeInv
  <2> QED
    BY <1>7, <2>1, <2>2 DEF Broadcast, server, TypeInv
<1>8. CASE ResolveRecipients
  <2>0. work.e \in Events
    BY <1>8 DEF ResolveRecipients, TypeInv
  <2>1. PICK c \in {"ack", "save"} : work' = [work EXCEPT !.pc = c, !.todo = Recipients(work.e)]
                                     /\ (c = "save" => Recipients(work.e) \subseteq Users)
    BY <1>8, <2>0, RecipientsType DEF ResolveRecipients
  <2>2. work' = [pc |-> c, e |-> work.e, todo |-> Recipients(work.e), u |-> work.u]
    BY <2>1, WorkGoesOn
  <2> QED
    BY <1>8, <2>1, <2>2 DEF ResolveRecipients, effects, server, TypeInv
<1>9. CASE ResolveFails
  BY <1>9, WorkRecord DEF ResolveFails, effects, TypeInv
<1>10. CASE Save
  <2>1. PICK u \in work.todo :
          \/ Create(work.e, u) /\ work' = [work EXCEPT !.pc = "push", !.u = u]
          \/ UNCHANGED rows /\ work' = [work EXCEPT !.pc = After(u), !.todo = work.todo \ {u}]
    BY <1>10 DEF Save
  <2>2. u \in Users /\ work.e \in Events /\ After(u) \in {"ack", "save"}
    BY <1>10 DEF Save, TypeInv, After
  <2>3. CASE Create(work.e, u) /\ work' = [work EXCEPT !.pc = "push", !.u = u]
    <3>1. work' = [pc |-> "push", e |-> work.e, todo |-> work.todo, u |-> u]
      BY <2>3, WorkGoesOn
    <3>2. rows' \in [Events -> [Users -> Nat]]
      BY <2>2, <2>3 DEF Create, TypeInv
    <3> QED
      BY <1>10, <2>2, <3>1, <3>2 DEF Save, server, TypeInv
  <2>4. CASE UNCHANGED rows /\ work' = [work EXCEPT !.pc = After(u), !.todo = work.todo \ {u}]
    <3>1. work' = [pc |-> After(u), e |-> work.e, todo |-> work.todo \ {u}, u |-> work.u]
      BY <2>4, WorkGoesOn
    <3> QED
      BY <1>10, <2>2, <2>4, <3>1 DEF Save, server, TypeInv
  <2> QED
    BY <2>1, <2>3, <2>4
<1>11. CASE Push
  <2>1. work' = [pc |-> After(work.u), e |-> work.e, todo |-> work.todo \ {work.u}, u |-> work.u]
    BY <1>11, WorkGoesOn DEF Push
  <2>2. work.u \in Users /\ work.e \in Events /\ After(work.u) \in {"ack", "save"}
    BY <1>11 DEF Push, TypeInv, After
  <2>3. pushed' \in [Events -> [Users -> Nat]]
    BY <1>11, <2>2 DEF Push, TypeInv
  <2> QED
    BY <1>11, <2>1, <2>2, <2>3 DEF Push, server, TypeInv
<1>12. CASE Ack
  <2>1. work.e \in Events
    BY <1>12 DEF Ack, TypeInv
  <2>2. stream' \in [Events -> {"absent", "stored", "lost", "acked"}]
    BY <1>12, <2>1 DEF Ack, TypeInv
  <2> QED
    BY <1>12, <2>2, WorkRecord DEF Ack, effects, TypeInv
<1>13. CASE Crash
  <2>1. inbox' \in Seq(Events)
    BY <1>13 DEF Crash
  <2>2. work'.pc = "idle"
          /\ work' = [pc |-> work'.pc, e |-> work'.e, todo |-> work'.todo, u |-> work'.u]
    BY <1>13, WorkRecord DEF Crash
  <2> QED
    BY <1>13, <2>1, <2>2 DEF Crash, effects, server, TypeInv
<1>14. ASSUME NEW u \in Users, SetRole(u) PROVE TypeInv'
  BY <1>14 DEF SetRole, effects, server, TypeInv
<1>16. CASE GiveUp
  <2>1. inbox' \in Seq(Events)
    BY <1>16 DEF GiveUp
  <2> QED
    BY <1>16, <2>1 DEF GiveUp, effects, TypeInv
<1>15. ASSUME NEW u \in Users, MarkAllAsRead(u) \/ \E e \in Events : MarkAsRead(e, u) PROVE TypeInv'
  BY <1>15 DEF MarkAllAsRead, MarkAsRead, server, TypeInv
<1> QED
  BY <1>1, <1>2, <1>3, <1>4, <1>5, <1>6, <1>7, <1>8, <1>9, <1>10, <1>11, <1>12, <1>13, <1>14, <1>15,
     <1>16
  DEF Next, Handle

-----------------------------------------------------------------------------
(* What is stored or sent stays so *)

\* No step takes back what was stored or sent.
LEMMA GrowsStep == TypeInv /\ [Next]_vars => Grows
<1> SUFFICES ASSUME TypeInv, [Next]_vars PROVE Grows
  OBVIOUS
<1> USE DEF TypeInv
<1>1. ASSUME UNCHANGED <<target, admins, effects, history>> PROVE Grows
  BY <1>1 DEF effects, history, Grows, Concerned, Recipients
<1>2. ASSUME NEW e \in Events, Publish(e) \/ Deliver(e) \/ AckWait(e) PROVE Grows
  BY <1>1, <1>2 DEF Publish, Deliver, AckWait
<1>3. CASE Take \/ ResolveRecipients \/ ResolveFails \/ Ack \/ GiveUp \/ Crash
  BY <1>1, <1>3 DEF Take, ResolveRecipients, ResolveFails, Ack, GiveUp, Crash
<1>4. CASE GetConfig
  BY <1>4 DEF GetConfig, effects, Grows, Concerned, Recipients
<1>5. CASE Broadcast
  BY <1>5 DEF Broadcast, history, Busy, Grows, Concerned, Recipients
<1>6. CASE Save
  <2>1. work.e \in Events /\ dropped \subseteq dropped'
          /\ UNCHANGED <<target, admins, pushed, aired, missed, steady>>
    BY <1>6 DEF Save, Busy
  <2>2. \E u \in Users : rows' = rows \/ rows' = [rows EXCEPT ![work.e][u] = @ + 1]
    BY <1>6 DEF Save, Create
  <2>3. ASSUME NEW e \in Events, NEW u \in Users PROVE rows'[e][u] >= rows[e][u]
    <3>1. PICK v \in Users : rows' = rows \/ rows' = [rows EXCEPT ![work.e][v] = @ + 1]
      BY <2>2
    <3>2. rows[e] \in [Users -> Nat] /\ rows[work.e] \in [Users -> Nat] /\ rows[e][u] \in Nat
      BY <2>1
    <3>3. CASE rows' = [rows EXCEPT ![work.e][v] = @ + 1]
      <4>1. rows'[e][u] \in {rows[e][u], rows[e][u] + 1}
        BY <2>1, <3>2, <3>3
      <4> QED
        BY <3>2, <4>1
    <3> QED
      BY <3>1, <3>2, <3>3
  <2> QED
    BY <2>1, <2>3 DEF Grows, Concerned, Recipients
<1>7. CASE Push
  <2>1. work.e \in Events /\ work.u \in Users
    BY <1>7 DEF Push, Busy
  <2>2. ASSUME NEW e \in Events, NEW u \in Users PROVE pushed'[e][u] >= pushed[e][u]
    BY <1>7, <2>1 DEF Push
  <2> QED
    BY <1>7, <2>2 DEF Push, history, Grows, Concerned, Recipients
<1>8. ASSUME NEW u \in Users, SetRole(u) PROVE Grows
  <2>1. ASSUME NEW e \in Events, NEW v \in Users, target[e] \in {"SELF", "ADMIN"}, Concerned(e, v)'
        PROVE  Concerned(e, v)
    BY <1>8, <2>1 DEF SetRole, Concerned, Recipients
  <2> QED
    BY <1>8, <2>1 DEF SetRole, effects, Grows
<1>9. ASSUME NEW u \in Users, MarkAllAsRead(u) \/ \E e \in Events : MarkAsRead(e, u) PROVE Grows
  BY <1>9 DEF MarkAllAsRead, MarkAsRead, history, Grows, Concerned, Recipients
<1>10. CASE UNCHANGED vars
  BY <1>1, <1>10 DEF vars
<1> QED
  BY <1>2, <1>3, <1>4, <1>5, <1>6, <1>7, <1>8, <1>9, <1>10 DEF Next, Handle

-----------------------------------------------------------------------------
(* The work, and what has come of it *)

\* If the work is left alone, everybody it concerns is still on its list or served.
LEMMA WorkKept ==
  ASSUME TypeInv, TypeInv', Grows, WorkInv, UNCHANGED work
  PROVE  WorkInv'
<1>1. Busy => work.e \in Events /\ target'[work.e] = target[work.e]
  BY DEF TypeInv, Grows
<1>2. work.pc \in {"save", "push"} =>
        \A u \in Users : Concerned(work.e, u)' => u \in work.todo \/ Has(work.e, u)'
  <2> SUFFICES ASSUME work.pc \in {"save", "push"}, NEW u \in Users, Concerned(work.e, u)'
               PROVE  u \in work.todo \/ Has(work.e, u)'
    OBVIOUS
  <2>1. work.e \in Events /\ target[work.e] \in {"SELF", "ADMIN"}
    BY <1>1 DEF Busy, WorkInv
  <2>2. Concerned(work.e, u)
    BY <2>1 DEF Grows
  <2>3. u \in work.todo \/ Has(work.e, u)
    BY <2>2 DEF WorkInv
  <2>4. rows'[work.e][u] >= rows[work.e][u] /\ pushed'[work.e][u] >= pushed[work.e][u]
    BY <2>1 DEF Grows
  <2> QED
    BY <2>1, <2>3, <2>4 DEF Has, TypeInv
<1>3. work.pc = "push" => rows'[work.e][work.u] >= 1
  BY <1>1 DEF Busy, WorkInv, Grows, TypeInv
<1>4. work.pc = "ack" => work.e \in missed' \/ Served(work.e)'
  BY <1>1, GrowsServes DEF Busy, WorkInv, Grows
<1> QED
  BY <1>1, <1>2, <1>3, <1>4 DEF Busy, WorkInv

\* Every step keeps WorkInv.
LEMMA WorkStep == TypeInv /\ TypeInv' /\ WorkInv /\ [Next]_vars => WorkInv'
<1> SUFFICES ASSUME TypeInv, TypeInv', WorkInv, [Next]_vars, NEW e, e = work.e PROVE WorkInv'
  OBVIOUS
<1>0. Grows
  BY GrowsStep
<1>1. ASSUME UNCHANGED work PROVE WorkInv'
  BY <1>0, <1>1, WorkKept
<1>2. ASSUME work' = Rest \/ work'.pc = "config" PROVE WorkInv'
  BY <1>2, WorkRecord DEF WorkInv
<1>3. CASE Take
  BY <1>2, <1>3, WorkRecord DEF Take
<1>4. CASE GetConfig
  <2>1. e \in Events /\ target[e] \in Targets /\ target' = target
    BY <1>4 DEF GetConfig, TypeInv, Busy
  <2>2. CASE work' = [work EXCEPT !.pc = "ack"] /\ (target[e] \in {"none", "off"} \/ e \in missed')
    <3>1. work'.pc = "ack" /\ work'.e = e
      BY <2>2, WorkGoesOn
    <3>2. target[e] \in {"none", "off"} => Served(e)'
      BY <2>1 DEF Served
    <3> QED
      BY <2>2, <3>1, <3>2 DEF WorkInv
  <2>3. CASE work' = [work EXCEPT !.pc = "resolve"] /\ target[e] \notin {"none", "off"}
    <3>1. work'.pc = "resolve" /\ work'.e = e
      BY <2>3, WorkGoesOn
    <3> QED
      BY <2>1, <2>3, <3>1 DEF WorkInv, Targets
  <2> QED
    BY <1>4, <2>2, <2>3 DEF GetConfig
<1>5. CASE Broadcast
  <2>1. work'.pc = "ack" /\ work'.e = e
    BY <1>5, WorkGoesOn DEF Broadcast
  <2>2. e \in Events /\ target'[e] = "BROADCAST" /\ aired'[e] >= 1
    BY <1>5 DEF Broadcast, TypeInv, Busy
  <2> QED
    BY <2>1, <2>2 DEF WorkInv, Served
<1>6. CASE ResolveRecipients
  <2>1. /\ e \in Events /\ target' = target /\ target[e] \in {"SELF", "ADMIN"}
        /\ \A u : Concerned(e, u)' => u \in Recipients(e)
    BY <1>6 DEF ResolveRecipients, TypeInv, Busy, WorkInv, Concerned, Recipients
  <2>2. work'.pc = (IF Recipients(e) = {} THEN "ack" ELSE "save") /\ work'.e = e
        /\ work'.todo = Recipients(e)
    BY <1>6, WorkGoesOn DEF ResolveRecipients
  <2>3. Recipients(e) = {} => Served(e)'
    BY <2>1 DEF Served
  <2> QED
    BY <2>1, <2>2, <2>3 DEF WorkInv
<1>7. CASE Save
  <2>0. /\ e \in Events /\ target' = target /\ target[e] \in {"SELF", "ADMIN"}
        /\ work.todo \subseteq Users
    BY <1>7 DEF Save, TypeInv, Busy, WorkInv
  <2>1. \A u \in Users : Concerned(e, u)' => u \in work.todo \/ Has(e, u)'
    <3> SUFFICES ASSUME NEW u \in Users, Concerned(e, u)' PROVE u \in work.todo \/ Has(e, u)'
      OBVIOUS
    <3>1. Concerned(e, u) /\ rows'[e][u] >= rows[e][u] /\ pushed'[e][u] >= pushed[e][u]
      BY <1>0, <2>0 DEF Grows
    <3>2. u \in work.todo \/ Has(e, u)
      BY <1>7, <3>1 DEF Save, WorkInv
    <3> QED
      BY <2>0, <3>1, <3>2 DEF Has, TypeInv
  <2>2. PICK u \in work.todo :
          \/ Create(e, u) /\ work' = [work EXCEPT !.pc = "push", !.u = u]
          \/ dropped' = dropped \cup {<<e, u>>}
               /\ work' = [work EXCEPT !.pc = After(u), !.todo = work.todo \ {u}]
    BY <1>7 DEF Save
  <2>3. CASE Create(e, u) /\ work' = [work EXCEPT !.pc = "push", !.u = u]
    <3>1. work'.pc = "push" /\ work'.e = e /\ work'.todo = work.todo /\ work'.u = u
      BY <2>3, WorkGoesOn
    <3>2. rows'[e][u] >= 1
      BY <2>0, <2>3 DEF Create, TypeInv
    <3> QED
      BY <2>0, <2>1, <3>1, <3>2 DEF WorkInv
  <2>4. CASE dropped' = dropped \cup {<<e, u>>}
               /\ work' = [work EXCEPT !.pc = After(u), !.todo = work.todo \ {u}]
    <3>1. work'.pc = After(u) /\ work'.e = e /\ work'.todo = work.todo \ {u}
      BY <2>4, WorkGoesOn
    <3>2. ~ Concerned(e, u)'
      BY <2>4 DEF Concerned
    <3>3. \A v \in Users : Concerned(e, v)' => v \in work.todo \ {u} \/ Has(e, v)'
      BY <2>1, <3>2
    <3>4. work.todo = {u} => Served(e)'
      BY <2>0, <3>3 DEF Served
    <3> QED
      BY <2>0, <3>1, <3>3, <3>4 DEF WorkInv, After
  <2> QED
    BY <2>2, <2>3, <2>4
<1>8. CASE Push
  <2>p. PICK u : u = work.u
    OBVIOUS
  <2>0. /\ e \in Events /\ u \in Users /\ target' = target /\ target[e] \in {"SELF", "ADMIN"}
        /\ rows[e][u] >= 1 /\ rows' = rows
    BY <1>8, <2>p DEF Push, TypeInv, Busy, WorkInv
  <2>1. work'.pc = After(u) /\ work'.e = e /\ work'.todo = work.todo \ {u}
    BY <1>8, <2>p, WorkGoesOn DEF Push
  <2>2. Has(e, u)'
    <3>1. pushed'[e][u] >= 1
      BY <1>8, <2>p, <2>0 DEF Push, TypeInv
    <3> QED
      BY <2>0, <2>1, <3>1 DEF Has
  <2>3. ASSUME NEW v \in Users, Concerned(e, v)' PROVE v \in work.todo \ {u} \/ Has(e, v)'
    <3>1. Concerned(e, v) /\ rows'[e][v] >= rows[e][v] /\ pushed'[e][v] >= pushed[e][v]
      BY <1>0, <2>0, <2>3 DEF Grows
    <3>2. v \in work.todo \/ Has(e, v)
      BY <1>8, <3>1 DEF Push, WorkInv
    <3>3. Has(e, v) => Has(e, v)'
      BY <2>0, <3>1 DEF Has, TypeInv
    <3> QED
      BY <2>2, <3>2, <3>3
  <2>4. work.todo = {u} => Served(e)'
    BY <2>0, <2>3 DEF Served
  <2> QED
    BY <2>0, <2>1, <2>3, <2>4 DEF WorkInv, After
<1>9. CASE ResolveFails \/ Ack \/ Crash
  BY <1>2, <1>9 DEF ResolveFails, Ack, Crash
<1>10. ASSUME NEW x \in Events, Publish(x) \/ Deliver(x) \/ AckWait(x) PROVE WorkInv'
  BY <1>1, <1>10 DEF Publish, Deliver, AckWait
<1>11. ASSUME NEW u \in Users, SetRole(u) \/ MarkAllAsRead(u) \/ \E x \in Events : MarkAsRead(x, u)
       PROVE  WorkInv'
  BY <1>1, <1>11 DEF SetRole, MarkAllAsRead, MarkAsRead
<1>12. CASE GiveUp \/ UNCHANGED vars
  BY <1>1, <1>12 DEF GiveUp, vars
<1> QED
  BY <1>3, <1>4, <1>5, <1>6, <1>7, <1>8, <1>9, <1>10, <1>11, <1>12 DEF Next, Handle

\* Every step keeps AckedInv.
LEMMA AckedStep == TypeInv /\ TypeInv' /\ WorkInv /\ AckedInv /\ [Next]_vars => AckedInv'
<1> SUFFICES ASSUME TypeInv, TypeInv', WorkInv, AckedInv, [Next]_vars,
                    NEW e \in Events, stream'[e] = "acked"
             PROVE  e \in missed' \/ Served(e)'
  BY DEF AckedInv
<1>1. stream[e] = "acked" \/ (work.pc = "ack" /\ e = work.e)
  <2>1. CASE \E x \in Events : Publish(x)
    BY <2>1 DEF Publish, Sent, TypeInv
  <2>2. CASE Ack
    BY <2>2 DEF Ack, TypeInv, Busy
  <2>3. CASE UNCHANGED stream
    BY <2>3
  <2>4. ASSUME NEW x \in Events, Deliver(x) \/ AckWait(x) PROVE UNCHANGED stream
    BY <2>4 DEF Deliver, AckWait
  <2>5. CASE Take \/ GetConfig \/ Broadcast \/ ResolveRecipients \/ Save \/ Push \/ ResolveFails
               \/ GiveUp \/ Crash
    BY <2>3, <2>5
      DEF Take, GetConfig, Broadcast, ResolveRecipients, Save, Push, ResolveFails, GiveUp, Crash,
          server
  <2>6. ASSUME NEW u \in Users, SetRole(u) \/ MarkAllAsRead(u) \/ \E x \in Events : MarkAsRead(x, u)
        PROVE  UNCHANGED stream
    BY <2>6 DEF SetRole, MarkAllAsRead, MarkAsRead, server
  <2>7. CASE UNCHANGED vars
    BY <2>3, <2>7 DEF vars, server
  <2> QED
    BY <2>1, <2>2, <2>3, <2>4, <2>5, <2>6, <2>7 DEF Next, Handle
<1>2. e \in missed \/ Served(e)
  BY <1>1 DEF AckedInv, WorkInv
<1>3. Grows
  BY GrowsStep
<1> QED
  BY <1>2, <1>3, GrowsServes DEF Grows

-----------------------------------------------------------------------------
(* Nobody has an event more often than it was delivered *)

\* The work will store the event for a user, if nothing stops it.
Soon(e, u) ==
  /\ Busy /\ work.e = e
  /\ \/ work.pc \in {"config", "resolve"}
     \/ work.pc = "save" /\ u \in work.todo
     \/ work.pc = "push" /\ u \in work.todo \ {work.u}

CountInv == \A e \in Events, u \in Users :
              rows[e][u] + Copies(inbox, e) + One(Soon(e, u)) <= tries[e]

\* Every step keeps CountInv.
LEMMA CountStep == TypeInv /\ TypeInv' /\ CountInv /\ [Next]_vars => CountInv'
<1> SUFFICES ASSUME TypeInv, TypeInv', CountInv, [Next]_vars, NEW e \in Events, NEW u \in Users
             PROVE  (rows[e][u] + Copies(inbox, e) + One(Soon(e, u)) <= tries[e])'
  BY DEF CountInv
<1> DEFINE c == Copies(inbox, e)   d == Copies(inbox', e)
<1>1. /\ rows[e][u] \in Nat /\ rows'[e][u] \in Nat /\ tries[e] \in Nat /\ tries'[e] \in Nat
      /\ c \in Nat /\ d \in Nat
  BY CopiesType DEF TypeInv
<1>2. rows[e][u] + c + One(Soon(e, u)) <= tries[e]
  BY DEF CountInv
<1> HIDE DEF c, d
<1>3. ASSUME rows'[e][u] <= rows[e][u], d <= c, tries'[e] >= tries[e], Soon(e, u)' => Soon(e, u)
      PROVE  rows'[e][u] + d + One(Soon(e, u)') <= tries'[e]
  <2>1. One(Soon(e, u)') \in {0, 1} /\ One(Soon(e, u)) \in {0, 1}
          /\ One(Soon(e, u)') <= One(Soon(e, u))
    BY <1>3 DEF One
  <2> QED
    BY <1>1, <1>2, <1>3, <2>1
<1>4. ASSUME UNCHANGED <<rows, inbox, tries>>, Soon(e, u)' => Soon(e, u)
      PROVE  rows'[e][u] + d + One(Soon(e, u)') <= tries'[e]
  <2>1. d = c
    BY <1>4 DEF c, d
  <2> QED
    BY <1>1, <1>3, <1>4, <2>1
<1> SUFFICES rows'[e][u] + d + One(Soon(e, u)') <= tries'[e]
  BY DEF d
<1>5. ASSUME UNCHANGED <<rows, inbox, tries, work>>
      PROVE  rows'[e][u] + d + One(Soon(e, u)') <= tries'[e]
  BY <1>4, <1>5 DEF Soon, Busy
<1>6. ASSUME NEW x \in Events, Deliver(x) PROVE rows'[e][u] + d + One(Soon(e, u)') <= tries'[e]
  <2>1. d = c + One(x = e)
    BY <1>6, CopiesAppend DEF Deliver, c, d, TypeInv
  <2>2. tries'[e] = tries[e] + One(x = e)
    BY <1>6 DEF Deliver, One, TypeInv
  <2>3. Soon(e, u)' = Soon(e, u) /\ rows' = rows
    BY <1>6 DEF Deliver, effects, Soon, Busy
  <2>4. One(x = e) \in {0, 1} /\ One(Soon(e, u)) \in {0, 1}
    BY DEF One
  <2> QED
    BY <1>1, <1>2, <2>1, <2>2, <2>3, <2>4
<1>7. CASE Take
  <2>1. c = d + One(Head(inbox) = e)
    BY <1>7, CopiesTail DEF Take, c, d, TypeInv
  <2>2. Soon(e, u)' = (Head(inbox) = e) /\ ~ Soon(e, u)
    BY <1>7, WorkRecord DEF Take, Soon, Busy
  <2>3. One(Head(inbox) = e) \in {0, 1} /\ One(Soon(e, u)) = 0
          /\ One(Soon(e, u)') = One(Head(inbox) = e)
    BY <2>2 DEF One
  <2> QED
    BY <1>1, <1>2, <1>7, <2>1, <2>3 DEF Take, effects, server
<1>8. CASE GetConfig \/ Broadcast \/ ResolveRecipients
  <2>1. Soon(e, u)' => Soon(e, u)
    <3>1. work.pc \in {"config", "resolve"} /\ Busy
      BY <1>8 DEF GetConfig, Broadcast, ResolveRecipients, Busy
    <3>2. work'.e = work.e
      BY <1>8, WorkGoesOn DEF GetConfig, Broadcast, ResolveRecipients
    <3> QED
      BY <3>1, <3>2 DEF Soon
  <2> QED
    BY <1>4, <1>8, <2>1 DEF GetConfig, Broadcast, ResolveRecipients, effects, server
<1>9. CASE ResolveFails \/ Ack \/ Crash
  <2>1. ~ Soon(e, u)'
    BY <1>9, WorkRecord DEF ResolveFails, Ack, Crash, Soon, Busy
  <2>2. d <= c
    BY <1>1, <1>9, CopiesEmpty DEF ResolveFails, Ack, Crash, c, d
  <2> QED
    BY <1>1, <1>3, <1>9, <2>1, <2>2 DEF ResolveFails, Ack, Crash, effects, server
<1>10. CASE Save
  <2>1. PICK v \in work.todo :
          \/ rows' = [rows EXCEPT ![work.e][v] = @ + 1]
               /\ work' = [work EXCEPT !.pc = "push", !.u = v]
          \/ UNCHANGED rows /\ work' = [work EXCEPT !.pc = After(v), !.todo = work.todo \ {v}]
    BY <1>10 DEF Save, Create
  <2>2. work.pc = "save" /\ work.e \in Events /\ v \in Users /\ UNCHANGED <<inbox, tries>>
    BY <1>10 DEF Save, server, TypeInv, Busy
  <2>3. CASE rows' = [rows EXCEPT ![work.e][v] = @ + 1]
               /\ work' = [work EXCEPT !.pc = "push", !.u = v]
    <3>1. work'.pc = "push" /\ work'.e = work.e /\ work'.todo = work.todo /\ work'.u = v
      BY <2>3, WorkGoesOn
    <3>2. Soon(e, u) = (work.e = e /\ u \in work.todo)
      BY <2>2 DEF Soon, Busy
    <3>3. Soon(e, u)' = (work.e = e /\ u \in work.todo \ {v})
      BY <3>1 DEF Soon, Busy
    <3>4. d = c
      BY <2>2 DEF c, d
    <3>5. rows[e] \in [Users -> Nat] /\ rows[work.e] \in [Users -> Nat]
      BY <2>2 DEF TypeInv
    <3>6. CASE work.e = e /\ u = v
      <4>1. rows'[e][u] = rows[e][u] + 1
        BY <2>2, <2>3, <3>5, <3>6 DEF TypeInv
      <4>2. One(Soon(e, u)) = 1 /\ One(Soon(e, u)') = 0
        BY <3>2, <3>3, <3>6 DEF One
      <4> QED
        BY <1>1, <1>2, <2>2, <3>4, <4>1, <4>2
    <3>7. CASE ~ (work.e = e /\ u = v)
      <4>1. rows'[e][u] = rows[e][u]
        BY <2>2, <2>3, <3>5, <3>7 DEF TypeInv
      <4>2. Soon(e, u)' => Soon(e, u)
        BY <3>2, <3>3
      <4>3. rows'[e][u] <= rows[e][u] /\ d <= c /\ tries'[e] >= tries[e]
        BY <1>1, <2>2, <3>4, <4>1
      <4> QED
        BY <1>3, <4>2, <4>3
    <3> QED
      BY <3>6, <3>7
  <2>4. CASE UNCHANGED rows /\ work' = [work EXCEPT !.pc = After(v), !.todo = work.todo \ {v}]
    <3>1. work'.pc \in {"ack", "save"} /\ work'.e = work.e /\ work'.todo = work.todo \ {v}
      BY <2>4, WorkGoesOn DEF After
    <3>2. Soon(e, u)' => Soon(e, u)
      BY <2>2, <3>1 DEF Soon, Busy
    <3> QED
      BY <1>4, <2>2, <2>4, <3>2
  <2> QED
    BY <2>1, <2>3, <2>4
<1>11. CASE Push
  <2>1. work'.pc \in {"ack", "save"} /\ work'.e = work.e /\ work'.todo = work.todo \ {work.u}
    BY <1>11, WorkGoesOn DEF Push, After
  <2>2. Soon(e, u)' => Soon(e, u)
    BY <1>11, <2>1 DEF Push, Soon, Busy
  <2> QED
    BY <1>4, <1>11, <2>2 DEF Push, server
<1>12. ASSUME NEW x \in Events, Publish(x) \/ AckWait(x)
       PROVE  UNCHANGED <<rows, inbox, tries, work>>
  BY <1>12 DEF Publish, AckWait, effects
<1>13. ASSUME NEW v \in Users, SetRole(v) \/ MarkAllAsRead(v) \/ \E x \in Events : MarkAsRead(x, v)
       PROVE  UNCHANGED <<rows, inbox, tries, work>>
  BY <1>13 DEF SetRole, MarkAllAsRead, MarkAsRead, effects, server
<1>14. CASE UNCHANGED vars
  BY <1>5, <1>14 DEF vars, effects, server
<1>15. CASE GiveUp
  <2>1. UNCHANGED <<rows, tries>> /\ (Soon(e, u)' => Soon(e, u))
    BY <1>15 DEF GiveUp, effects, Soon, Busy
  <2>2. d <= c
    BY <1>1, <1>15, CopiesEmpty DEF GiveUp, d
  <2> QED
    BY <1>1, <1>3, <2>1, <2>2
<1> QED
  BY <1>5, <1>6, <1>7, <1>8, <1>9, <1>10, <1>11, <1>12, <1>13, <1>14, <1>15 DEF Next, Handle

-----------------------------------------------------------------------------
(* The theorems *)

IInv == TypeInv /\ WorkInv /\ AckedInv /\ CountInv

\* The consumer begins with all parts of IInv.
LEMMA Start == Init => IInv
<1> SUFFICES ASSUME Init PROVE IInv
  OBVIOUS
<1> USE NotificationsAssumption DEF Init
<1>1. TypeInv
  <2>1. target \in [Events -> Targets] /\ admins \subseteq Users /\ inbox \in Seq(Events)
    BY DEF Targets
  <2>2. rows \in [Events -> [Users -> Nat]] /\ pushed \in [Events -> [Users -> Nat]]
    BY DEF None
  <2>3. /\ aired \in [Events -> Nat] /\ tries \in [Events -> Nat]
        /\ stream \in [Events -> {"absent", "stored", "lost", "acked"}]
    OBVIOUS
  <2>4. work.pc = "idle" /\ work = [pc |-> work.pc, e |-> work.e, todo |-> work.todo, u |-> work.u]
    BY WorkRecord
  <2> QED
    BY <2>1, <2>2, <2>3, <2>4 DEF TypeInv, Busy
<1>2. WorkInv /\ AckedInv
  BY WorkRecord DEF WorkInv, AckedInv
<1>3. CountInv
  <2>1. \A e, u : One(Soon(e, u)) = 0
    BY WorkRecord DEF Soon, Busy, One
  <2> QED
    BY <2>1, CopiesEmpty DEF CountInv, None
<1> QED
  BY <1>1, <1>2, <1>3 DEF IInv

\* All parts of IInv hold at all times.
LEMMA Invariant == Spec => []IInv
<1>1. IInv /\ [Next]_vars => IInv'
  BY TypeStep, WorkStep, AckedStep, CountStep DEF IInv
<1> QED
  BY Start, <1>1, PTL DEF Spec

\* What is stored for a user is bounded by the deliveries of its message: redelivery, an
\* early one too, is the only source of doubles (CreateNotification has no key of its own).
THEOREM OnceEachDelivery == Spec => []OncePerDelivery
<1>1. IInv => OncePerDelivery
  <2> SUFFICES ASSUME IInv, NEW e \in Events, NEW u \in Users PROVE rows[e][u] <= tries[e]
    BY DEF OncePerDelivery
  <2>1. /\ rows[e][u] \in Nat /\ tries[e] \in Nat /\ Copies(inbox, e) \in Nat
        /\ rows[e][u] + Copies(inbox, e) + One(Soon(e, u)) <= tries[e]
    BY CopiesType DEF IInv, TypeInv, CountInv
  <2>2. One(Soon(e, u)) \in {0, 1}
    BY DEF One
  <2> QED
    BY <2>1, <2>2
<1> QED
  BY <1>1, Invariant, PTL

\* A message deleted from the stream has reached whom it concerns, wherever crashes,
\* redeliveries and changes of role fell between (handleMessage acknowledges last).
THEOREM AckedHasServed == Spec => []AckedIsServed
<1>1. IInv => AckedIsServed
  BY DEF IInv, AckedInv, Served, Concerned, Has, AckedIsServed
<1> QED
  BY <1>1, Invariant, PTL
=============================================================================
