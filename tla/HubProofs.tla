----------------------------- MODULE HubProofs -----------------------------
(***************************************************************************)
(* Proofs about Hub, for any number of users, clients, pushes and buffer   *)
(* sizes.  The slices of the hub are sound whatever happens: each holds    *)
(* the user's connected clients, each once, but for the place that is      *)
(* being shifted.  What a push walks is as sound as long as no client of   *)
(* the user it is for has been taken out under it; and as long as no       *)
(* buffer was full, who is in a slice has an open channel.                 *)
(*                                                                         *)
(* That nobody is missed needs the converse, that every connected client   *)
(* is in its slice; that no message is pushed twice by the same way; and,  *)
(* while a push is under way, that a client whose turn is yet to come has  *)
(* not got the message, and any other it is due to has got it once.        *)
(***************************************************************************)
EXTENDS Hub, FiniteSetTheorems, WellFoundedInduction, TLAPS

Pos   == Nat \ {0}
Slice == [arr : Seq(Clients \cup {Nobody}), len : Nat]

TypeOK ==
  /\ list \in [Users -> Slice]
  /\ mu \in [readers : SUBSET Senders, writer : {"none", "waiting", "held"}]
  /\ run \in [pc : {"select", "add", "remove", "shift"}, c : Clients \cup {Nobody}, i : Nat]
  /\ snd \in [Senders -> Push]
  /\ reader \in [Clients -> {"absent", "reading", "leaving", "gone"}]
  /\ writer \in [Clients -> {"absent", "writing", "gone"}]
  /\ got \in [Clients -> Seq(Message)] /\ box \in [Clients -> Seq(Message)]
  /\ closed \subseteq Clients /\ joined \subseteq Clients /\ torn \subseteq Users
  /\ bus \in Seq(Message)
  /\ pushes \in [here : Nat, there : Nat]
  /\ down \in BOOLEAN /\ full \in BOOLEAN

\* Run has a client in hand whenever it waits for the lock or holds it.
RunInv ==
  /\ run.pc # "select" => run.c \in Clients
  /\ run.pc = "select" => mu.writer = "none"
  /\ run.pc \in {"add", "remove"} => mu.writer = "waiting"
  /\ run.pc = "shift" => mu.writer = "held" /\ mu.readers = {}

\* A slice lies within its array and holds connected clients of the user, each once.  The
\* place Run has reached in shifting is not counted, and the client to go is nowhere else.
SliceOK(u, s, r, there) ==
  LET shifting == r.pc = "shift" /\ Owner[r.c] = u IN
  /\ s.len <= Len(s.arr)
  /\ \A j \in 1..s.len : s.arr[j] \in there /\ Owner[s.arr[j]] = u
  /\ \A j, k \in 1..s.len : s.arr[j] = s.arr[k] /\ j # k => shifting /\ r.i \in {j, k}
  /\ shifting => r.i \in 1..s.len /\ \A j \in 1..s.len : s.arr[j] = r.c => j = r.i
ListOK(u) == SliceOK(u, list[u], run, joined)

\* A client is added once, when it comes, and counts as connected until it is out.
ListInv ==
  /\ \A u \in Users : ListOK(u)
  /\ run.pc = "shift" => run.c \in joined
  /\ \A c \in Clients : reader[c] = "absent" => c \notin joined
  /\ run.pc = "add" => run.c \notin joined /\ reader[run.c] # "absent"

\* The array a push walks holds a client wherever the push may get to.
Walked(s) == IF snd[s].shared THEN list[snd[s].u].arr ELSE snd[s].arr
Walkable(s) ==
  LET p == snd[s] IN
  /\ p.i \in Pos /\ p.len <= Len(Walked(s))
  /\ \A j \in 1..p.len : Walked(s)[j] \in Clients
  /\ p.pc = "handoff" => p.c \in Clients
WalkType == \A s \in Senders : snd[s].pc # "idle" => Walkable(s)

\* Whoever visits several users keeps the read lock.
HeldInv ==
  \A s \in Senders : /\ snd[s].users # {} => snd[s].held
                     /\ snd[s].held => snd[s].pc # "idle" /\ s \in mu.readers

\* While no buffer was full, the channel of whoever is connected, or will be, is open.
OpenInv ==
  ~full =>
    /\ joined \cap closed = {}
    /\ \A c \in Clients : reader[c] = "absent" => c \notin closed
    /\ run.pc = "add" => run.c \notin closed
    /\ \A s \in Senders : snd[s].pc # "handoff"

\* And a push to a user none of whose clients was removed under it has connected clients
\* of that user before it, each once.
Fit(s) ==
  LET p == snd[s] IN
  /\ p.shared => p.len <= list[p.u].len
  /\ \A j \in 1..p.len : Walked(s)[j] \in joined /\ Owner[Walked(s)[j]] = p.u
  /\ \A j, k \in 1..p.len : Walked(s)[j] = Walked(s)[k] => j = k
FitInv == ~full => \A s \in Senders : snd[s].pc = "next" /\ snd[s].u \notin torn => Fit(s)
-----------------------------------------------------------------------------
(* What the steps of Run do to a slice *)

\* The user of a push that has no user is one of the users (a value like any other).
LEMMA NoUserIsUser == ASSUME HubAssumption PROVE NoUser \in Users
BY DEF HubAssumption, NoUser

\* A client that is in a slice has a first place in it.
LEMMA ListFirst ==
  ASSUME NEW n \in Nat, NEW at \in SUBSET (1..n), at # {}
  PROVE  \E j \in at : \A k \in at : j <= k
<1> DEFINE R == OpToRel(<, Nat)
<1>1. IsWellFoundedOn(R, Nat)
  BY NatLessThanWellFounded
<1>2. at \subseteq Nat /\ at # {}
  OBVIOUS
<1>3. PICK j \in at : \A k \in at : ~(<<k, j>> \in R)
  BY <1>1, <1>2, WFMin
<1>4. ASSUME NEW k \in at PROVE j <= k
  <2>1. j \in Nat /\ k \in Nat
    BY <1>2
  <2>2. ~(k < j)
    BY <1>3, <2>1 DEF OpToRel
  <2>3. QED BY <2>1, <2>2
<1>5. QED BY <1>4

\* append into a new array: the old clients, the new one behind them, and room left over.
LEMMA GrownSeq ==
  ASSUME NEW s \in Slice, NEW c \in Clients, s.len = Len(s.arr)
  PROVE  /\ Grown(s, c) \in Seq(Clients \cup {Nobody})
         /\ Len(Grown(s, c)) >= s.len + 1
         /\ \A j \in 1..s.len : Grown(s, c)[j] = s.arr[j]
         /\ Grown(s, c)[s.len + 1] = c
<1> DEFINE cap == IF s.len = 0 THEN 1 ELSE 2 * s.len
<1>1. cap \in Nat /\ cap >= s.len + 1 /\ s.len \in Nat
  BY DEF Slice
<1>2. Grown(s, c)
        = [j \in 1..cap |-> IF j <= s.len THEN s.arr[j] ELSE IF j = s.len + 1 THEN c ELSE Nobody]
  BY DEF Grown
<1>3. \A j \in 1..s.len : s.arr[j] \in Clients \cup {Nobody}
  BY DEF Slice
<1> HIDE DEF cap
<1>4. QED BY <1>1, <1>2, <1>3

\* append, into the array there is or a new one: one more client, the others as they were, and
\* in place nothing else of the array is touched.
LEMMA AppendedSlice ==
  ASSUME NEW s \in Slice, NEW c \in Clients, s.len <= Len(s.arr)
  PROVE  LET t == Appended(s, c) IN
         /\ t \in Slice
         /\ t.len = s.len + 1 /\ t.len <= Len(t.arr) /\ Len(s.arr) <= Len(t.arr)
         /\ \A j \in 1..s.len : t.arr[j] = s.arr[j]
         /\ t.arr[t.len] = c
         /\ InPlace(s) => \A j \in 1..Len(s.arr) : j # s.len + 1 => t.arr[j] = s.arr[j]
<1>1. s.arr \in Seq(Clients \cup {Nobody}) /\ s.len \in Nat
  BY DEF Slice
<1>2. CASE s.len < Len(s.arr)
  <2>1. Appended(s, c) = [arr |-> [s.arr EXCEPT ![s.len + 1] = c], len |-> s.len + 1]
    BY <1>2 DEF Appended
  <2>2. [s.arr EXCEPT ![s.len + 1] = c] \in Seq(Clients \cup {Nobody})
    BY <1>1, <1>2
  <2>3. QED BY <1>1, <1>2, <2>1, <2>2 DEF Slice
<1>3. CASE ~(s.len < Len(s.arr))
  <2>1. Appended(s, c) = [arr |-> Grown(s, c), len |-> s.len + 1] /\ s.len = Len(s.arr)
    BY <1>1, <1>3 DEF Appended
  <2>2. QED BY <1>1, <1>3, <2>1, GrownSeq DEF Slice, InPlace
<1>4. QED BY <1>2, <1>3

\* What registering does to the slice of the client's user.
LEMMA AddEffect ==
  ASSUME HubAssumption, TypeOK, RunInv, ListInv, Add
  PROVE  LET u == Owner[run.c] IN
         /\ run.c \in Clients /\ u \in Users /\ run.c \notin joined
         /\ list' = [list EXCEPT ![u] = Appended(list[u], run.c)]
         /\ list[u].len <= Len(list[u].arr)
         /\ \A j \in 1..list[u].len : list[u].arr[j] \in joined /\ Owner[list[u].arr[j]] = u
         /\ list'[u] \in Slice
         /\ list'[u].len = list[u].len + 1 /\ list'[u].len <= Len(list'[u].arr)
         /\ Len(list[u].arr) <= Len(list'[u].arr)
         /\ \A j \in 1..list[u].len : list'[u].arr[j] = list[u].arr[j]
         /\ list'[u].arr[list'[u].len] = run.c
         /\ InPlace(list[u]) =>
              \A j \in 1..Len(list[u].arr) : j # list[u].len + 1 => list'[u].arr[j] = list[u].arr[j]
         /\ \A v \in Users : v # u => list'[v] = list[v]
<1> DEFINE u == Owner[run.c]
<1>1. run.c \in Clients /\ u \in Users /\ run.c \notin joined
  BY DEF Add, RunInv, ListInv, HubAssumption
<1>2. list[u] \in Slice /\ ListOK(u)
  BY <1>1 DEF TypeOK, ListInv
<1>3. list' = [list EXCEPT ![u] = Appended(list[u], run.c)]
  BY DEF Add
<1>4. list'[u] = Appended(list[u], run.c) /\ \A v \in Users : v # u => list'[v] = list[v]
  BY <1>1, <1>3 DEF TypeOK
<1>5. list[u].len <= Len(list[u].arr)
      /\ \A j \in 1..list[u].len : list[u].arr[j] \in joined /\ Owner[list[u].arr[j]] = u
  BY <1>2 DEF ListOK, SliceOK
<1> DEFINE t == Appended(list[u], run.c)
<1>6. /\ t \in Slice
      /\ t.len = list[u].len + 1 /\ t.len <= Len(t.arr) /\ Len(list[u].arr) <= Len(t.arr)
      /\ \A j \in 1..list[u].len : t.arr[j] = list[u].arr[j]
      /\ t.arr[t.len] = run.c
      /\ InPlace(list[u]) =>
           \A j \in 1..Len(list[u].arr) : j # list[u].len + 1 => t.arr[j] = list[u].arr[j]
  <2> HIDE DEF u
  <2>1. QED BY <1>1, <1>2, <1>5, AppendedSlice
<1> HIDE DEF t
<1>7. list'[u] = t
  BY <1>4 DEF t
<1>8. QED BY <1>1, <1>3, <1>4, <1>5, <1>6, <1>7

\* What one step of closing the gap does: the place behind the gap is copied down, one place
\* only.
LEMMA ShiftEffect ==
  ASSUME HubAssumption, TypeOK, RunInv, ListInv, Shift
  PROVE  LET u == Owner[run.c] IN
         /\ run.c \in Clients /\ u \in Users
         /\ run.i \in 1..list[u].len /\ run.i < list[u].len /\ list[u].len <= Len(list[u].arr)
         /\ list' \in [Users -> Slice]
         /\ list'[u].len = list[u].len /\ Len(list'[u].arr) = Len(list[u].arr)
         /\ \A j \in 1..Len(list[u].arr) :
              list'[u].arr[j] = IF j = run.i THEN list[u].arr[run.i + 1] ELSE list[u].arr[j]
         /\ \A v \in Users : v # u => list'[v] = list[v]
<1> DEFINE u == Owner[run.c] i == run.i
<1>1. run.c \in Clients /\ u \in Users
  BY DEF Shift, RunInv, HubAssumption
<1>2. list[u] \in Slice /\ ListOK(u) /\ list[u].len \in Nat
        /\ list[u].arr \in Seq(Clients \cup {Nobody})
  BY <1>1 DEF TypeOK, ListInv, Slice
<1>3. i \in 1..list[u].len /\ i < list[u].len /\ list[u].len <= Len(list[u].arr)
  BY <1>2 DEF ListOK, SliceOK, Shift
<1>4. list' = [list EXCEPT ![u].arr[i] = list[u].arr[i + 1]]
  BY DEF Shift
<1> DEFINE a == [list[u].arr EXCEPT ![i] = list[u].arr[i + 1]]
           t == [list[u] EXCEPT !.arr = a]
<1>5. /\ a \in Seq(Clients \cup {Nobody}) /\ Len(a) = Len(list[u].arr)
      /\ \A j \in 1..Len(list[u].arr) : a[j] = IF j = i THEN list[u].arr[i + 1] ELSE list[u].arr[j]
  BY <1>2, <1>3
<1>6. list' = [list EXCEPT ![u] = t]
  BY <1>4
<1>7. t \in Slice /\ t.len = list[u].len /\ t.arr = a
  BY <1>2, <1>5 DEF Slice
<1> HIDE DEF u, i, a, t
<1>8. list'[u] = t /\ list' \in [Users -> Slice] /\ \A v \in Users : v # u => list'[v] = list[v]
  BY <1>1, <1>6, <1>7 DEF TypeOK
<1>9. QED BY <1>1, <1>3, <1>5, <1>7, <1>8 DEF u, i

\* What cutting the last place off does: the length shrinks, the array stays, or is dropped
\* with its last client.
LEMMA RemoveEffect ==
  ASSUME HubAssumption, TypeOK, RunInv, ListInv, Remove
  PROVE  LET u == Owner[run.c] n == list[u].len IN
         /\ run.c \in Clients /\ u \in Users
         /\ n \in Pos /\ run.i = n /\ n <= Len(list[u].arr)
         /\ list' \in [Users -> Slice]
         /\ list'[u].len = n - 1
         /\ n = 1 => list'[u].arr = <<>>
         /\ n # 1 => list'[u].arr = list[u].arr
         /\ \A v \in Users : v # u => list'[v] = list[v]
<1> DEFINE u == Owner[run.c] n == list[u].len
           s == [list[u] EXCEPT !.len = n - 1]
<1>1. run.c \in Clients /\ u \in Users
  BY DEF Remove, RunInv, HubAssumption
<1>2. list[u] \in Slice /\ ListOK(u) /\ n \in Nat /\ list[u].arr \in Seq(Clients \cup {Nobody})
  BY <1>1 DEF TypeOK, ListInv, Slice
<1>3. run.i = n /\ n \in Pos /\ n <= Len(list[u].arr)
  BY <1>2 DEF ListOK, SliceOK, Remove, Pos
<1>4. s \in Slice /\ s.len = n - 1 /\ s.arr = list[u].arr
  <2>1. n - 1 \in Nat
    BY <1>3 DEF Pos
  <2> HIDE DEF n
  <2>2. QED BY <1>2, <2>1 DEF Slice
<1>5. list' = [list EXCEPT ![u] = IF s.len = 0 THEN Empty ELSE s]
  BY DEF Remove
<1>6. Empty \in Slice /\ Empty.len = 0 /\ Empty.arr = <<>>
  BY DEF Empty, Slice
<1> HIDE DEF u, n, s
<1>7. list'[u] = (IF s.len = 0 THEN Empty ELSE s) /\ \A v \in Users : v # u => list'[v] = list[v]
  BY <1>1, <1>5 DEF TypeOK
<1>8. list' \in [Users -> Slice]
  BY <1>1, <1>4, <1>5, <1>6 DEF TypeOK
<1>9. QED BY <1>1, <1>3, <1>4, <1>6, <1>7, <1>8 DEF u, n, Pos
-----------------------------------------------------------------------------
(* What the steps of Run do to the array a push walks *)

\* All of a push but the array it walks, and the clients it should reach.
Kept(s) ==
  /\ snd'[s].pc = snd[s].pc /\ snd'[s].m = snd[s].m /\ snd'[s].held = snd[s].held
  /\ snd'[s].users = snd[s].users /\ snd'[s].u = snd[s].u /\ snd'[s].len = snd[s].len
  /\ snd'[s].i = snd[s].i /\ snd'[s].c = snd[s].c

\* When the hub drops an array, a push that walks it keeps it; nothing else of the push
\* changes.
LEMMA DetachedPush ==
  ASSUME TypeOK, NEW u \in Users, NEW s \in Senders
  PROVE  LET d == Detached(u)[s] p == snd[s] IN
         /\ d \in Push
         /\ d.pc = p.pc /\ d.m = p.m /\ d.held = p.held /\ d.users = p.users /\ d.u = p.u
         /\ d.len = p.len /\ d.i = p.i /\ d.c = p.c /\ d.due = p.due
         /\ d.shared = (p.shared /\ p.u # u)
         /\ d.arr = IF p.shared /\ p.u = u THEN list[u].arr ELSE p.arr
<1>1. snd[s] \in Push /\ list[u].arr \in Seq(Clients \cup {Nobody})
  BY DEF TypeOK, Slice
<1>2. CASE snd[s].shared /\ snd[s].u = u
  <2>1. Detached(u)[s] = [snd[s] EXCEPT !.shared = FALSE, !.arr = list[u].arr]
    BY <1>2 DEF Detached
  <2> DEFINE p == snd[s] d == Detached(u)[s]
  <2>2. p \in Push /\ d = [p EXCEPT !.shared = FALSE, !.arr = list[u].arr]
    BY <1>1, <2>1
  <2> HIDE DEF p, d
  <2>3. d \in Push
    BY <1>1, <2>2 DEF Push
  <2>4. /\ d.pc = p.pc /\ d.m = p.m /\ d.held = p.held /\ d.users = p.users /\ d.u = p.u
        /\ d.len = p.len /\ d.i = p.i /\ d.c = p.c /\ d.due = p.due
        /\ d.shared = FALSE /\ d.arr = list[u].arr
    BY <2>2 DEF Push
  <2>5. QED BY <1>2, <2>3, <2>4 DEF p, d
<1>3. CASE ~(snd[s].shared /\ snd[s].u = u)
  <2>1. Detached(u)[s] = snd[s]
    BY <1>3 DEF Detached
  <2>2. snd[s].shared \in BOOLEAN
    BY <1>1 DEF Push
  <2>3. QED BY <1>1, <1>3, <2>1, <2>2
<1>4. QED BY <1>2, <1>3

\* Under a push, registering changes the array it walks at most at the place behind the slice.
LEMMA AddWalked ==
  ASSUME HubAssumption, TypeOK, RunInv, ListInv, Add, NEW s \in Senders
  PROVE  LET u == Owner[run.c] IN
         /\ snd'[s] \in Push /\ Kept(s) /\ snd'[s].due = snd[s].due
         /\ snd'[s].shared => snd[s].shared
         /\ Len(Walked(s)) <= Len(Walked(s)')
         /\ \A j \in 1..Len(Walked(s)) :
              \/ Walked(s)'[j] = Walked(s)[j]
              \/ snd[s].shared /\ snd[s].u = u /\ j = list[u].len + 1 /\ Walked(s)'[j] = run.c
<1> DEFINE u == Owner[run.c]
<1>1. run.c \in Clients /\ u \in Users
  BY AddEffect
<1>2. /\ snd[s] \in Push /\ snd[s].u \in Users /\ list[u] \in Slice /\ list'[u] \in Slice
      /\ list[u].arr \in Seq(Clients \cup {Nobody}) /\ list'[u].arr \in Seq(Clients \cup {Nobody})
      /\ snd[s].arr \in Seq(Clients \cup {Nobody})
      /\ list[snd[s].u].arr \in Seq(Clients \cup {Nobody})
  BY <1>1, AddEffect DEF TypeOK, Push, Slice
<1>3. snd' = IF InPlace(list[u]) THEN snd ELSE Detached(u)
  BY DEF Add
<1>4. /\ Len(list[u].arr) <= Len(list'[u].arr)
      /\ \A j \in 1..list[u].len : list'[u].arr[j] = list[u].arr[j]
      /\ list'[u].len = list[u].len + 1 /\ list'[u].arr[list'[u].len] = run.c
      /\ InPlace(list[u]) =>
              \A j \in 1..Len(list[u].arr) : j # list[u].len + 1 => list'[u].arr[j] = list[u].arr[j]
      /\ \A v \in Users : v # u => list'[v] = list[v]
  BY AddEffect
<1> HIDE DEF u
<1>5. CASE InPlace(list[u])
  <2>1. snd' = snd
    BY <1>3, <1>5
  <2>2. Walked(s)' = IF snd[s].shared THEN list'[snd[s].u].arr ELSE snd[s].arr
    BY <2>1 DEF Walked
  <2>3. CASE snd[s].shared /\ snd[s].u = u
    BY <1>2, <1>4, <1>5, <2>1, <2>2, <2>3 DEF Walked, Kept, u
  <2>4. CASE ~(snd[s].shared /\ snd[s].u = u)
    <3>1. Walked(s)' = Walked(s)
      BY <1>2, <1>4, <2>2, <2>4 DEF Walked
    <3>2. Len(Walked(s)) \in Nat
      BY <1>2 DEF Walked
    <3>3. QED BY <1>2, <2>1, <3>1, <3>2 DEF Kept
  <2>5. QED BY <2>3, <2>4
<1>6. CASE ~InPlace(list[u])
  <2>1. snd'[s] = Detached(u)[s]
    BY <1>3, <1>6
  <2>2. /\ snd'[s] \in Push /\ Kept(s) /\ snd'[s].due = snd[s].due
        /\ snd'[s].shared = (snd[s].shared /\ snd[s].u # u)
        /\ snd'[s].arr = IF snd[s].shared /\ snd[s].u = u THEN list[u].arr ELSE snd[s].arr
    BY <1>1, <2>1, DetachedPush DEF Kept, u
  <2>3. Walked(s)' = Walked(s)
    BY <1>2, <1>4, <2>2 DEF Walked, Kept
  <2>4. Len(Walked(s)) \in Nat
    BY <1>2 DEF Walked
  <2>5. Len(Walked(s)) <= Len(Walked(s)')
          /\ \A j \in 1..Len(Walked(s)) : Walked(s)'[j] = Walked(s)[j]
    BY <2>3, <2>4
  <2>6. snd'[s].shared => snd[s].shared
    BY <2>2
  <2>7. QED BY <2>2, <2>5, <2>6
<1>7. QED BY <1>5, <1>6

\* Under a push, a shift puts a joined client of the same user into some place, or nothing.
LEMMA ShiftWalked ==
  ASSUME HubAssumption, TypeOK, RunInv, ListInv, Shift, NEW s \in Senders
  PROVE  LET u == Owner[run.c] IN
         /\ snd' = snd
         /\ Len(Walked(s)') = Len(Walked(s))
         /\ ~(snd[s].shared /\ snd[s].u = u) => Walked(s)' = Walked(s)
         /\ \A j \in 1..Len(Walked(s)) :
              \/ Walked(s)'[j] = Walked(s)[j]
              \/ Walked(s)'[j] \in joined /\ snd[s].u = u /\ Owner[Walked(s)'[j]] = u
<1> DEFINE u == Owner[run.c]
<1>1. /\ run.c \in Clients /\ u \in Users /\ snd' = snd
      /\ list'[u].len = list[u].len /\ Len(list'[u].arr) = Len(list[u].arr)
      /\ run.i \in 1..list[u].len /\ run.i < list[u].len
      /\ \A j \in 1..Len(list[u].arr) :
              list'[u].arr[j] = IF j = run.i THEN list[u].arr[run.i + 1] ELSE list[u].arr[j]
      /\ \A v \in Users : v # u => list'[v] = list[v]
  BY ShiftEffect DEF Shift
<1>2. snd[s].u \in Users /\ list[u] \in Slice /\ ListOK(u)
  BY <1>1 DEF TypeOK, Push, ListInv
<1>3. list[u].arr[run.i + 1] \in joined /\ Owner[list[u].arr[run.i + 1]] = u
  <2>1. list[u].len \in Nat
    BY <1>2 DEF Slice
  <2>2. run.i + 1 \in 1..list[u].len
    BY <1>1, <2>1
  <2>3. QED BY <1>2, <2>2 DEF ListOK, SliceOK
<1>4. Walked(s)' = IF snd[s].shared THEN list'[snd[s].u].arr ELSE snd[s].arr
  BY <1>1 DEF Walked
<1> HIDE DEF u
<1>5. CASE snd[s].shared /\ snd[s].u = u
  <2>1. Walked(s)' = list'[u].arr /\ Walked(s) = list[u].arr
    BY <1>4, <1>5 DEF Walked
  <2>2. \A j \in 1..Len(Walked(s)) :
          Walked(s)'[j] = Walked(s)[j] \/ Walked(s)'[j] = list[u].arr[run.i + 1]
    BY <1>1, <2>1
  <2>3. QED BY <1>1, <1>3, <1>5, <2>1, <2>2 DEF u
<1>6. CASE ~(snd[s].shared /\ snd[s].u = u)
  <2>1. Walked(s)' = Walked(s)
    BY <1>1, <1>2, <1>4, <1>6 DEF Walked
  <2>2. QED BY <1>1, <1>6, <2>1 DEF u
<1>7. QED BY <1>5, <1>6

\* Under a push, cutting off leaves the array it walks as it is.
LEMMA RemoveWalked ==
  ASSUME HubAssumption, TypeOK, RunInv, ListInv, Remove, NEW s \in Senders
  PROVE  LET u == Owner[run.c] IN
         /\ snd'[s] \in Push /\ Kept(s) /\ snd'[s].due = snd[s].due \ {run.c}
         /\ snd'[s].shared = (snd[s].shared /\ ~(snd[s].u = u /\ list[u].len = 1))
         /\ Walked(s)' = Walked(s)
<1> DEFINE u == Owner[run.c] t == [list[u] EXCEPT !.len = @ - 1]
           d == IF t.len = 0 THEN Detached(u) ELSE snd
<1>1. run.c \in Clients /\ u \in Users /\ list[u] \in Slice /\ list[u].len \in Nat \ {0}
  BY RemoveEffect DEF TypeOK, Pos
<1>2. t.len = list[u].len - 1
  BY <1>1 DEF Slice
<1>3. snd'[s] = [d[s] EXCEPT !.due = @ \ {run.c}]
  BY DEF Remove
<1>4. snd[s] \in Push /\ snd[s].u \in Users
  BY DEF TypeOK, Push
<1>5. /\ list[u].len = 1 => list'[u].arr = <<>>
      /\ list[u].len # 1 => list'[u].arr = list[u].arr
      /\ \A v \in Users : v # u => list'[v] = list[v]
  BY RemoveEffect
<1> HIDE DEF t
<1>6. CASE list[u].len = 1
  <2>1. d[s] = Detached(u)[s]
    BY <1>2, <1>6
  <2> HIDE DEF d, u
  <2>2. /\ d[s] \in Push /\ d[s].pc = snd[s].pc /\ d[s].m = snd[s].m /\ d[s].held = snd[s].held
        /\ d[s].users = snd[s].users /\ d[s].u = snd[s].u
        /\ d[s].len = snd[s].len /\ d[s].i = snd[s].i /\ d[s].c = snd[s].c /\ d[s].due = snd[s].due
        /\ d[s].shared = (snd[s].shared /\ snd[s].u # u)
        /\ d[s].arr = IF snd[s].shared /\ snd[s].u = u THEN list[u].arr ELSE snd[s].arr
    BY <1>1, <2>1, DetachedPush
  <2>3. /\ snd'[s] \in Push /\ Kept(s) /\ snd'[s].due = snd[s].due \ {run.c}
        /\ snd'[s].shared = (snd[s].shared /\ snd[s].u # u)
        /\ snd'[s].arr = IF snd[s].shared /\ snd[s].u = u THEN list[u].arr ELSE snd[s].arr
    <3>1. snd'[s] = [d[s] EXCEPT !.due = snd[s].due \ {run.c}]
      BY <1>3, <2>2
    <3>2. snd[s].due \ {run.c} \in SUBSET Clients
      BY <1>4 DEF Push
    <3>3. QED BY <2>2, <3>1, <3>2 DEF Push, Kept
  <2>4. Walked(s)' = Walked(s)
    <3>1. CASE snd[s].shared /\ snd[s].u = u
      BY <2>3, <3>1 DEF Walked
    <3>2. CASE snd[s].shared /\ snd[s].u # u
      <4>1. snd'[s].shared /\ snd'[s].u = snd[s].u
        BY <2>3, <3>2 DEF Kept
      <4>2. list'[snd[s].u] = list[snd[s].u]
        BY <1>4, <1>5, <3>2
      <4>3. QED BY <3>2, <4>1, <4>2 DEF Walked
    <3>3. CASE ~snd[s].shared
      BY <2>3, <3>3 DEF Walked, Kept
    <3>4. QED BY <3>1, <3>2, <3>3
  <2>5. QED BY <1>6, <2>3, <2>4 DEF u
<1>7. CASE list[u].len # 1
  <2>1. d[s] = snd[s]
    BY <1>1, <1>2, <1>7
  <2> HIDE DEF d, u
  <2>2. snd'[s] = [snd[s] EXCEPT !.due = @ \ {run.c}]
    BY <1>3, <2>1
  <2>3. /\ snd'[s] \in Push /\ Kept(s) /\ snd'[s].due = snd[s].due \ {run.c}
        /\ snd'[s].shared = snd[s].shared /\ snd'[s].arr = snd[s].arr
    BY <1>4, <2>2 DEF Push, Kept
  <2>4. Walked(s)' = Walked(s)
    BY <1>4, <1>5, <1>7, <2>3 DEF Walked, Kept
  <2>5. snd[s].shared \in BOOLEAN
    BY <1>4 DEF Push
  <2>6. QED BY <1>7, <2>3, <2>4, <2>5 DEF u
<1>8. QED BY <1>6, <1>7
-----------------------------------------------------------------------------
(* What a push does to itself *)

\* A push that has not begun is a push, and no message a message: values to begin with.
LEMMA IdlePush ==
  ASSUME HubAssumption
  PROVE  Idle \in Push /\ NoMsg \in Message
BY NoUserIsUser DEF Idle, Push, NoMsg, Message

\* A push that turns to the next user takes the header of the slice as it is.
LEMMA WalkPush ==
  ASSUME TypeOK, NEW p \in Push, NEW u \in Users
  PROVE  /\ Walk(p, u) \in Push
         /\ Walk(p, u).pc = "next" /\ Walk(p, u).m = p.m /\ Walk(p, u).held = p.held
         /\ Walk(p, u).users = p.users \ {u} /\ Walk(p, u).u = u /\ Walk(p, u).shared = TRUE
         /\ Walk(p, u).len = list[u].len /\ Walk(p, u).i = 1 /\ Walk(p, u).c = p.c
         /\ Walk(p, u).due = p.due
<1>1. list[u].len \in Nat
  BY DEF TypeOK, Slice
<1>2. QED BY <1>1 DEF Walk, Push

\* Send walks the slice of one user and lets go of the lock.
LEMMA SendEffect ==
  ASSUME HubAssumption, TypeOK, NEW s \in Senders, NEW m \in Message, m.to \in Users, SendTo(s, m)
  PROVE  LET q == snd'[s] IN
         /\ snd' \in [Senders -> Push] /\ mu' = mu /\ mu.writer = "none"
         /\ q.pc = "next" /\ q.m = m /\ q.held = FALSE /\ q.users = {} /\ q.u = m.to
         /\ q.shared = TRUE /\ q.len = list[m.to].len /\ q.i = 1
         /\ q.due = {c \in joined : Owner[c] = m.to}
         /\ \A r \in Senders : r # s => snd'[r] = snd[r]
<1> DEFINE due == {c \in joined : Owner[c] = m.to}
           p == [Idle EXCEPT !.m = m, !.due = due]
           q == Walk(p, m.to)
<1>1. due \in SUBSET Clients
  BY DEF TypeOK
<1> HIDE DEF due
<1>2. p \in Push /\ p.m = m /\ p.held = FALSE /\ p.users = {} /\ p.due = due
  BY <1>1, IdlePush DEF Idle, Push
<1> HIDE DEF p
<1>3. /\ q \in Push /\ q.pc = "next" /\ q.m = m /\ q.held = FALSE /\ q.users = {} /\ q.u = m.to
      /\ q.shared = TRUE /\ q.len = list[m.to].len /\ q.i = 1 /\ q.due = due
  <2>1. PICK v \in Users : v = m.to
    OBVIOUS
  <2>2. Walk(p, v) = q
    BY <2>1
  <2>3. list[v].len \in Nat
    BY DEF TypeOK, Slice
  <2>4. /\ Walk(p, v) \in Push /\ Walk(p, v).pc = "next" /\ Walk(p, v).m = m
        /\ Walk(p, v).held = FALSE
        /\ Walk(p, v).users = {} /\ Walk(p, v).u = v
        /\ Walk(p, v).shared = TRUE /\ Walk(p, v).len = list[v].len /\ Walk(p, v).i = 1
        /\ Walk(p, v).due = due
    BY <1>2, <2>3 DEF Walk, Push
  <2> HIDE DEF q
  <2>5. QED BY <2>1, <2>2, <2>4
<1>4. snd' = [snd EXCEPT ![s] = q] /\ mu' = mu /\ mu.writer = "none"
  BY DEF SendTo, Lockable, due, p
<1> HIDE DEF q
<1>5. snd'[s] = q /\ snd' \in [Senders -> Push] /\ \A r \in Senders : r # s => snd'[r] = snd[r]
  BY <1>3, <1>4 DEF TypeOK
<1>6. QED BY <1>3, <1>4, <1>5 DEF due

\* A broadcast takes the read lock and has every user with a device before it.
LEMMA BroadcastEffect ==
  ASSUME HubAssumption, TypeOK, NEW s \in Senders, NEW m \in Message, BroadcastAll(s, m)
  PROVE  LET q == snd'[s] IN
         /\ snd' \in [Senders -> Push] /\ mu' = [mu EXCEPT !.readers = @ \cup {s}]
         /\ mu.writer = "none"
         /\ q.pc = "next" /\ q.m = m /\ q.held = TRUE /\ q.users = {u \in Users : list[u].len > 0}
         /\ q.shared = FALSE /\ q.arr = <<>> /\ q.len = 0 /\ q.i = 1 /\ q.due = joined
         /\ \A r \in Senders : r # s => snd'[r] = snd[r]
<1> DEFINE us == {u \in Users : list[u].len > 0}
           q == [Idle EXCEPT !.pc = "next", !.m = m, !.held = TRUE, !.users = us, !.due = joined]
<1>1. us \in SUBSET Users /\ joined \in SUBSET Clients
  BY DEF TypeOK
<1> HIDE DEF us
<1>2. /\ q \in Push /\ q.pc = "next" /\ q.m = m /\ q.held = TRUE /\ q.users = us
      /\ q.shared = FALSE /\ q.arr = <<>> /\ q.len = 0 /\ q.i = 1 /\ q.due = joined
  BY <1>1, IdlePush DEF Idle, Push
<1>3. /\ snd' = [snd EXCEPT ![s] = q] /\ mu' = [mu EXCEPT !.readers = @ \cup {s}]
      /\ mu.writer = "none"
  BY DEF BroadcastAll, Lockable, us
<1> HIDE DEF q
<1>4. snd'[s] = q /\ snd' \in [Senders -> Push] /\ \A r \in Senders : r # s => snd'[r] = snd[r]
  BY <1>2, <1>3 DEF TypeOK
<1>5. QED BY <1>2, <1>3, <1>4 DEF us

\* A broadcast turns to one of the users it has left.
LEMMA NextUserEffect ==
  ASSUME HubAssumption, TypeOK, NEW s \in Senders, NextUser(s)
  PROVE  LET p == snd[s] q == snd'[s] IN
         \E u \in p.users :
         /\ u \in Users
         /\ snd' \in [Senders -> Push]
         /\ q.pc = "next" /\ q.m = p.m /\ q.held = p.held /\ q.users = p.users \ {u} /\ q.u = u
         /\ q.shared = TRUE /\ q.len = list[u].len /\ q.i = 1 /\ q.c = p.c /\ q.due = p.due
         /\ \A r \in Senders : r # s => snd'[r] = snd[r]
<1>1. PICK u \in snd[s].users : snd' = [snd EXCEPT ![s] = Walk(snd[s], u)]
  BY DEF NextUser
<1>2. snd[s] \in Push /\ u \in Users
  BY <1>1 DEF TypeOK, Push
<1> DEFINE q == Walk(snd[s], u)
<1>3. /\ q \in Push
      /\ q.pc = "next" /\ q.m = snd[s].m /\ q.held = snd[s].held /\ q.users = snd[s].users \ {u}
      /\ q.u = u /\ q.shared = TRUE /\ q.len = list[u].len /\ q.i = 1 /\ q.c = snd[s].c
      /\ q.due = snd[s].due
  <2>1. q \in Push
    BY <1>2, WalkPush
  <2>2. q.pc = "next" /\ q.m = snd[s].m /\ q.held = snd[s].held
    BY <1>2, WalkPush
  <2>3. q.users = snd[s].users \ {u}
    BY <1>2, WalkPush
  <2>4. q.u = u /\ q.shared = TRUE /\ q.len = list[u].len /\ q.i = 1
    BY <1>2, WalkPush
  <2>5. q.c = snd[s].c /\ q.due = snd[s].due
    BY <1>2, WalkPush
  <2> HIDE DEF q
  <2>6. QED BY <2>1, <2>2, <2>3, <2>4, <2>5
<1> HIDE DEF q
<1>4. snd' = [snd EXCEPT ![s] = q]
  BY <1>1 DEF q
<1>5. snd'[s] = q /\ snd' \in [Senders -> Push] /\ \A r \in Senders : r # s => snd'[r] = snd[r]
  BY <1>3, <1>4 DEF TypeOK
<1>6. QED BY <1>2, <1>3, <1>5

\* A push that goes on with the slice it walks.
Onward(s) ==
  LET p == snd[s] q == snd'[s] IN
  /\ snd' \in [Senders -> Push]
  /\ q.m = p.m /\ q.held = p.held /\ q.users = p.users /\ q.u = p.u /\ q.shared = p.shared
  /\ q.arr = p.arr /\ q.len = p.len /\ q.due = p.due
  /\ \A r \in Senders : r # s => snd'[r] = snd[r]

\* Where a push stands, there is a client.
LEMMA AtWalked ==
  ASSUME TypeOK, WalkType, NEW s \in Senders, snd[s].pc = "next", snd[s].i <= snd[s].len
  PROVE  At(s) = Walked(s)[snd[s].i] /\ At(s) \in Clients /\ snd[s].i \in 1..snd[s].len
<1>1. At(s) = Walked(s)[snd[s].i]
  BY DEF At, Walked
<1>2. snd[s].i \in 1..snd[s].len
  BY DEF WalkType, Walkable, TypeOK, Push, Pos
<1>3. QED BY <1>1, <1>2 DEF WalkType, Walkable

\* A push at a client panics on a closed channel, fills a place of the buffer, or finds it full
\* and closes it.
LEMMA OfferEffect ==
  ASSUME HubAssumption, TypeOK, WalkType, NEW s \in Senders, Offer(s)
  PROVE  LET p == snd[s] q == snd'[s] c == At(s) IN
         /\ c = Walked(s)[p.i] /\ c \in Clients /\ p.i \in 1..p.len /\ p.pc = "next"
         /\ Onward(s)
         /\ \/ /\ c \in closed /\ down' = TRUE /\ UNCHANGED <<snd, chan, full>>
            \/ /\ c \notin closed /\ q.pc = "next" /\ q.i = p.i + 1 /\ q.c = p.c
               /\ Len(box[c]) < Buf /\ box' = [box EXCEPT ![c] = Append(@, p.m)]
               /\ UNCHANGED <<closed, down, full>>
            \/ /\ q.pc = "handoff" /\ q.i = p.i /\ q.c = c /\ Len(box[c]) = Buf
               /\ closed' = closed \cup {c} /\ full' = TRUE /\ UNCHANGED <<box, down>>
<1>1. At(s) = Walked(s)[snd[s].i] /\ At(s) \in Clients /\ snd[s].i \in 1..snd[s].len
        /\ snd[s].pc = "next"
  BY AtWalked DEF Offer
<1>2. snd[s] \in Push /\ snd[s].i \in Nat
  BY DEF TypeOK, Push
<1>3. CASE At(s) \in closed /\ down' = TRUE /\ UNCHANGED <<snd, chan, full>>
  BY <1>1, <1>3 DEF Onward, TypeOK
<1>4. CASE /\ At(s) \notin closed /\ Len(box[At(s)]) < Buf
           /\ box' = [box EXCEPT ![At(s)] = Append(@, snd[s].m)]
           /\ snd' = [snd EXCEPT ![s].i = @ + 1] /\ UNCHANGED <<closed, down, full>>
  <2>1. snd' = [snd EXCEPT ![s] = [snd[s] EXCEPT !.i = snd[s].i + 1]]
    BY <1>4
  <2>2. [snd[s] EXCEPT !.i = snd[s].i + 1] \in Push
    <3> DEFINE p == snd[s]
    <3>1. p \in Push /\ p.i + 1 \in Nat
      BY <1>2
    <3> HIDE DEF p
    <3>2. [p EXCEPT !.i = p.i + 1] \in Push
      BY <3>1 DEF Push
    <3>3. QED BY <3>2 DEF p
  <2>3. snd'[s] = [snd[s] EXCEPT !.i = snd[s].i + 1] /\ snd' \in [Senders -> Push]
        /\ \A r \in Senders : r # s => snd'[r] = snd[r]
    BY <2>1, <2>2 DEF TypeOK
  <2>4. Onward(s) /\ snd'[s].pc = "next" /\ snd'[s].i = snd[s].i + 1 /\ snd'[s].c = snd[s].c
    BY <1>1, <1>2, <2>3 DEF Onward, Push
  <2>5. QED BY <1>1, <1>4, <2>4
<1>5. CASE /\ At(s) \notin closed /\ Len(box[At(s)]) = Buf
           /\ closed' = closed \cup {At(s)} /\ full' = TRUE
           /\ snd' = [snd EXCEPT ![s].pc = "handoff", ![s].c = At(s)] /\ UNCHANGED <<box, down>>
  <2>1. snd' = [snd EXCEPT ![s] = [snd[s] EXCEPT !.pc = "handoff", !.c = At(s)]]
    BY <1>5
  <2> DEFINE c == At(s)
             q == [snd[s] EXCEPT !.pc = "handoff", !.c = c]
  <2>2. c \in Clients /\ snd' = [snd EXCEPT ![s] = q]
    BY <1>1, <2>1
  <2> HIDE DEF c
  <2>3. q \in Push
    BY <1>2, <2>2 DEF Push
  <2>4. snd'[s] = q /\ snd' \in [Senders -> Push] /\ \A r \in Senders : r # s => snd'[r] = snd[r]
    BY <2>2, <2>3 DEF TypeOK
  <2>5. Onward(s) /\ snd'[s].pc = "handoff" /\ snd'[s].i = snd[s].i /\ snd'[s].c = c
    BY <1>2, <2>4 DEF Onward, Push
  <2>6. QED BY <1>1, <1>5, <2>5 DEF c
<1>6. QED BY <1>3, <1>4, <1>5 DEF Offer

\* A client that was too slow is handed to Run, which goes to remove it, and the push goes on.
LEMMA HandoffEffect ==
  ASSUME HubAssumption, TypeOK, WalkType, NEW s \in Senders, Handoff(s)
  PROVE  LET p == snd[s] q == snd'[s] IN
         /\ p.pc = "handoff" /\ p.c \in Clients /\ Onward(s) /\ q.pc = "next" /\ q.i = p.i + 1
         /\ run.pc = "select" /\ run' = [pc |-> "remove", c |-> p.c, i |-> 0]
         /\ mu' = [mu EXCEPT !.writer = "waiting"]
<1>1. snd[s] \in Push /\ snd[s].i \in Nat /\ snd[s].c \in Clients /\ snd[s].pc = "handoff"
  BY DEF TypeOK, Push, WalkType, Walkable, Handoff
<1> DEFINE q == [snd[s] EXCEPT !.pc = "next", !.c = Nobody, !.i = snd[s].i + 1]
<1>2. snd' = [snd EXCEPT ![s] = q]
  BY DEF Handoff
<1>3. q \in Push
  <2> DEFINE p == snd[s]
  <2>1. p \in Push /\ p.i + 1 \in Nat
    BY <1>1
  <2> HIDE DEF p
  <2>2. [p EXCEPT !.pc = "next", !.c = Nobody, !.i = p.i + 1] \in Push
    BY <2>1 DEF Push
  <2>3. QED BY <2>2 DEF p
<1>4. snd'[s] = q /\ snd' \in [Senders -> Push] /\ \A r \in Senders : r # s => snd'[r] = snd[r]
  BY <1>2, <1>3 DEF TypeOK
<1>5. Onward(s) /\ snd'[s].pc = "next" /\ snd'[s].i = snd[s].i + 1
  BY <1>1, <1>4 DEF Onward, Push
<1>6. QED BY <1>1, <1>5 DEF Handoff, ToRemove

\* The other sender goes on with its own push.
LEMMA OtherKept ==
  ASSUME TypeOK, NEW s \in Senders, PushStep(s), NEW r \in Senders, r # s
  PROVE  snd'[r] = snd[r]
<1>1. snd \in [Senders -> Push]
  BY DEF TypeOK
<1>2. CASE Offer(s)
  <2>1. snd' = snd \/ \E p : snd' = [snd EXCEPT ![s] = p]
    BY <1>2 DEF Offer
  <2>2. QED BY <1>1, <2>1
<1>3. CASE Handoff(s)
  <2>1. \E p : snd' = [snd EXCEPT ![s] = p]
    BY <1>3 DEF Handoff
  <2>2. QED BY <1>1, <2>1
<1>4. CASE NextUser(s)
  <2>1. \E p : snd' = [snd EXCEPT ![s] = p]
    BY <1>4 DEF NextUser
  <2>2. QED BY <1>1, <2>1
<1>5. CASE Pushed(s)
  <2>1. \E p : snd' = [snd EXCEPT ![s] = p]
    BY <1>5 DEF Pushed
  <2>2. QED BY <1>1, <2>1
<1>6. QED BY <1>2, <1>3, <1>4, <1>5 DEF PushStep

\* A push that ends is idle again, and no other is touched.
LEMMA PushedEffect ==
  ASSUME HubAssumption, TypeOK, NEW s \in Senders, Pushed(s)
  PROVE  /\ snd' \in [Senders -> Push] /\ snd'[s] = Idle
         /\ \A r \in Senders : r # s => snd'[r] = snd[r]
BY IdlePush DEF Pushed, TypeOK
-----------------------------------------------------------------------------
(* Type correctness, and Run's lock *)

\* A new push: who pushes, and what.
LEMMA Started ==
  ASSUME HubAssumption, TypeOK, Broadcast \/ FromRedis \/ \E u \in Users : Send(u)
  PROVE  \E s \in Senders, m \in Message :
           /\ (m.to \in Users /\ SendTo(s, m)) \/ BroadcastAll(s, m)
           /\ snd[s].pc = "idle"
           /\ UNCHANGED <<list, run, conn, chan, down, history>>
           /\ \/ /\ s = "service" /\ m.via = "hub" /\ m.id = pushes.here + 1
                 /\ pushes' = [pushes EXCEPT !.here = pushes.here + 1] /\ bus' = bus
              \/ s = "redis" /\ m = Head(bus) /\ bus # <<>> /\ bus' = Tail(bus) /\ pushes' = pushes
<1>1. pushes.here + 1 \in Nat
  BY DEF TypeOK
<1>2. ASSUME NEW a \in Users \cup {All}, pushes' = [pushes EXCEPT !.here = @ + 1]
      PROVE  /\ pushes' = [pushes EXCEPT !.here = pushes.here + 1] /\ pushes'.here = pushes.here + 1
             /\ [id |-> pushes'.here, to |-> a, via |-> "hub"] \in Message
             /\ [id |-> pushes'.here, to |-> a, via |-> "hub"].id = pushes.here + 1
             /\ [id |-> pushes'.here, to |-> a, via |-> "hub"].via = "hub"
             /\ [id |-> pushes'.here, to |-> a, via |-> "hub"].to = a
  <2>1. pushes'.here = pushes.here + 1
    BY <1>2 DEF TypeOK
  <2>2. QED BY <1>1, <1>2, <2>1 DEF Message
<1>3. "service" \in Senders /\ "redis" \in Senders
  BY DEF Senders
<1>4. CASE Broadcast
  <2>1. PICK m : m = [id |-> pushes'.here, to |-> All, via |-> "hub"]
    OBVIOUS
  <2>2. /\ m \in Message /\ m.via = "hub" /\ m.id = pushes.here + 1
        /\ pushes' = [pushes EXCEPT !.here = pushes.here + 1]
    BY <1>2, <1>4, <2>1 DEF Broadcast
  <2>3. /\ BroadcastAll("service", m) /\ snd["service"].pc = "idle" /\ bus' = bus
        /\ UNCHANGED <<list, run, conn, chan, down, history>>
    BY <1>4, <2>1 DEF Broadcast
  <2>4. QED BY <1>3, <2>2, <2>3
<1>5. CASE \E u \in Users : Send(u)
  <2>1. PICK u \in Users : Send(u)
    BY <1>5
  <2>2. PICK m : m = [id |-> pushes'.here, to |-> u, via |-> "hub"]
    OBVIOUS
  <2>3. /\ m \in Message /\ m.via = "hub" /\ m.id = pushes.here + 1 /\ m.to \in Users
        /\ pushes' = [pushes EXCEPT !.here = pushes.here + 1]
    BY <1>2, <2>1, <2>2 DEF Send
  <2>4. /\ SendTo("service", m) /\ snd["service"].pc = "idle" /\ bus' = bus
        /\ UNCHANGED <<list, run, conn, chan, down, history>>
    BY <2>1, <2>2 DEF Send
  <2>5. QED BY <1>3, <2>3, <2>4
<1>6. CASE FromRedis
  <2>1. PICK m \in Message : m = Head(bus)
    BY <1>6 DEF FromRedis, TypeOK
  <2>2. (m.to \in Users /\ SendTo("redis", m)) \/ BroadcastAll("redis", m)
    BY <1>6, <2>1 DEF FromRedis, Message
  <2>3. /\ snd["redis"].pc = "idle" /\ bus # <<>> /\ bus' = Tail(bus) /\ pushes' = pushes
        /\ UNCHANGED <<list, run, conn, chan, down, history>>
    BY <1>6 DEF FromRedis
  <2>4. QED BY <1>3, <2>1, <2>2, <2>3
<1>7. QED BY <1>4, <1>5, <1>6

\* A push begins only while nobody waits to write, and leaves the lock a lock.
LEMMA StartType ==
  ASSUME HubAssumption, TypeOK, NEW s \in Senders, NEW m \in Message,
         (m.to \in Users /\ SendTo(s, m)) \/ BroadcastAll(s, m)
  PROVE  /\ snd' \in [Senders -> Push]
         /\ mu' \in [readers : SUBSET Senders, writer : {"none", "waiting", "held"}]
         /\ mu'.writer = mu.writer /\ mu.writer = "none"
<1>1. CASE m.to \in Users /\ SendTo(s, m)
  <2>1. snd' \in [Senders -> Push] /\ mu' = mu /\ mu.writer = "none"
    BY <1>1, SendEffect
  <2>2. QED BY <2>1 DEF TypeOK
<1>2. CASE BroadcastAll(s, m)
  <2>1. snd' \in [Senders -> Push] /\ mu' = [mu EXCEPT !.readers = @ \cup {s}] /\ mu.writer = "none"
    BY <1>2, BroadcastEffect
  <2>2. QED BY <2>1 DEF TypeOK
<1>3. QED BY <1>1, <1>2

\* Steps of Run keep the types.
LEMMA RunStepType ==
  ASSUME HubAssumption, TypeOK, RunInv, ListInv, RunStep
  PROVE  TypeOK' /\ RunInv'
<1>1. CASE Add
  <2>1. list' \in [Users -> Slice]
    BY <1>1, AddEffect DEF TypeOK
  <2>2. snd' \in [Senders -> Push]
    <3>1. DOMAIN snd' = Senders /\ snd' = [q \in Senders |-> snd'[q]]
      BY <1>1 DEF Add, Detached, TypeOK
    <3>2. QED BY <1>1, <3>1, AddWalked
  <2>3. run.c \in Clients
    BY <1>1, AddEffect
  <2>4. QED BY <1>1, <2>1, <2>2, <2>3 DEF Add, TypeOK, RunInv, Select, conn, chan
<1>2. CASE Find
  <2>1. run.c \in Clients /\ Owner[run.c] \in Users /\ mu.writer = "waiting" /\ mu.readers = {}
    BY <1>2 DEF Find, RunInv, HubAssumption
  <2> DEFINE at == {j \in 1..list[Owner[run.c]].len : list[Owner[run.c]].arr[j] = run.c}
  <2>2. CASE at = {}
    <3>1. run' = Select /\ mu' = [mu EXCEPT !.writer = "none"]
      BY <1>2, <2>2 DEF Find
    <3>2. QED BY <1>2, <3>1 DEF Find, TypeOK, RunInv, Select, conn, chan, history
  <2>3. CASE at # {}
    <3>1. at \subseteq Nat /\ \E j \in at : \A k \in at : j <= k
      <4>1. list[Owner[run.c]].len \in Nat
        BY <2>1 DEF TypeOK, Slice
      <4>2. PICK n \in Nat : n = list[Owner[run.c]].len
        BY <4>1
      <4>3. at \in SUBSET (1..n) /\ at \subseteq Nat
        BY <4>2
      <4>4. at # {}
        BY <2>3
      <4> HIDE DEF at
      <4>5. QED BY <4>3, <4>4, ListFirst
    <3>2. PICK i \in Nat :
            run' = [run EXCEPT !.pc = "shift", !.i = i] /\ mu' = [mu EXCEPT !.writer = "held"]
      BY <1>2, <2>3, <3>1 DEF Find
    <3>3. QED BY <1>2, <2>1, <3>2 DEF Find, TypeOK, RunInv, conn, chan, history
  <2>4. QED BY <2>2, <2>3
<1>3. CASE Shift
  <2>1. list' \in [Users -> Slice] /\ Owner[run.c] \in Users /\ snd' = snd
    BY <1>3, ShiftEffect DEF Shift
  <2>2. run' = [run EXCEPT !.i = run.i + 1] /\ run.i \in Nat
    BY <1>3 DEF Shift, TypeOK
  <2>3. run'.pc = "shift" /\ run'.c = run.c
        /\ run' \in [pc : {"select", "add", "remove", "shift"}, c : Clients \cup {Nobody}, i : Nat]
    <3>1. run \in [pc : {"select", "add", "remove", "shift"}, c : Clients \cup {Nobody}, i : Nat]
          /\ run.pc = "shift" /\ run.i + 1 \in Nat
      BY <1>3, <2>2 DEF Shift, TypeOK
    <3>2. run' = [run EXCEPT !.i = run.i + 1]
      BY <2>2
    <3>3. QED BY <3>1, <3>2
  <2>4. UNCHANGED <<mu, conn, chan, bus, pushes, down, joined, full>>
        /\ torn' \subseteq torn \cup {Owner[run.c]} /\ run.pc = "shift"
    BY <1>3 DEF Shift
  <2>5. QED BY <2>1, <2>3, <2>4 DEF TypeOK, RunInv, conn, chan
<1>4. CASE Remove
  <2>1. list' \in [Users -> Slice] /\ run.c \in Clients /\ Owner[run.c] \in Users
    BY <1>4, RemoveEffect
  <2>2. snd' \in [Senders -> Push]
    <3>1. DOMAIN snd' = Senders /\ snd' = [q \in Senders |-> snd'[q]]
      BY <1>4 DEF Remove
    <3>2. QED BY <1>4, <3>1, RemoveWalked
  <2>3. /\ UNCHANGED <<conn, box, bus, pushes, full>>
        /\ closed' = closed \cup {run.c} /\ joined' = joined \ {run.c}
        /\ torn' \subseteq torn \cup {Owner[run.c]} /\ down' \in BOOLEAN
        /\ run' = Select /\ mu' = [mu EXCEPT !.writer = "none"]
    BY <1>4 DEF Remove
  <2>4. QED BY <2>1, <2>2, <2>3 DEF TypeOK, RunInv, Select, conn
<1>5. QED BY <1>1, <1>2, <1>3, <1>4 DEF RunStep

\* Steps of a push keep the types.
LEMMA PushStepType ==
  ASSUME HubAssumption, TypeOK, RunInv, WalkType, NEW s \in Senders, PushStep(s)
  PROVE  TypeOK' /\ RunInv'
<1>1. CASE Offer(s)
  <2> DEFINE c == At(s)
  <2>1. /\ c \in Clients /\ snd' \in [Senders -> Push]
        /\ UNCHANGED <<list, mu, run, conn, bus, pushes, joined, torn>>
        /\ \/ /\ c \in closed /\ down' = TRUE /\ UNCHANGED <<chan, full>>
           \/ box' = [box EXCEPT ![c] = Append(@, snd[s].m)] /\ UNCHANGED <<closed, down, full>>
           \/ closed' = closed \cup {c} /\ full' = TRUE /\ UNCHANGED <<box, down>>
    BY <1>1, OfferEffect DEF Offer, Onward
  <2>2. snd[s].m \in Message
    BY DEF TypeOK, Push
  <2> HIDE DEF c
  <2>3. box' \in [Clients -> Seq(Message)] /\ closed' \subseteq Clients
        /\ down' \in BOOLEAN /\ full' \in BOOLEAN
    <3>1. CASE down' = TRUE /\ UNCHANGED <<chan, full>>
      BY <3>1 DEF TypeOK, chan
    <3>2. CASE box' = [box EXCEPT ![c] = Append(@, snd[s].m)] /\ UNCHANGED <<closed, down, full>>
      <4>1. Append(box[c], snd[s].m) \in Seq(Message)
        BY <2>1, <2>2 DEF TypeOK
      <4>2. QED BY <3>2, <4>1 DEF TypeOK
    <3>3. CASE closed' = closed \cup {c} /\ full' = TRUE /\ UNCHANGED <<box, down>>
      BY <2>1, <3>3 DEF TypeOK
    <3>4. QED BY <2>1, <3>1, <3>2, <3>3
  <2>4. snd' \in [Senders -> Push] /\ UNCHANGED <<list, mu, run, conn, bus, pushes, joined, torn>>
    BY <2>1
  <2>5. QED BY <2>3, <2>4 DEF TypeOK, RunInv, conn
<1>2. CASE Handoff(s)
  <2>1. /\ snd' \in [Senders -> Push] /\ snd[s].c \in Clients
        /\ run' = [pc |-> "remove", c |-> snd[s].c, i |-> 0]
        /\ mu' = [mu EXCEPT !.writer = "waiting"]
    BY <1>2, HandoffEffect DEF Onward
  <2>2. QED BY <1>2, <2>1 DEF Handoff, TypeOK, RunInv, conn, chan, history
<1>3. CASE NextUser(s)
  <2>1. snd' \in [Senders -> Push]
    BY <1>3, NextUserEffect
  <2>2. QED BY <1>3, <2>1 DEF NextUser, TypeOK, RunInv, conn, chan, history
<1>4. CASE Pushed(s)
  <2>1. snd' \in [Senders -> Push]
    BY <1>4, PushedEffect
  <2> DEFINE m == snd[s].m
             r == [m EXCEPT !.via = "redis"]
  <2>2. m \in Message
    BY DEF TypeOK, Push
  <2>3. r \in Message
    <3> HIDE DEF m
    <3>1. QED BY <2>2 DEF Message
  <2>4. bus' = Append(bus, r) \/ bus' = bus
    BY <1>4 DEF Pushed
  <2> HIDE DEF r
  <2>5. bus' \in Seq(Message)
    <3>1. bus \in Seq(Message) /\ Append(bus, r) \in Seq(Message)
      BY <2>3 DEF TypeOK
    <3>2. QED BY <2>4, <3>1
  <2>6. mu' = [mu EXCEPT !.readers = @ \ {s}]
          /\ UNCHANGED <<list, run, conn, chan, pushes, down, history>>
    BY <1>4 DEF Pushed
  <2>7. QED BY <2>1, <2>5, <2>6 DEF TypeOK, RunInv, conn, chan, history
<1>5. QED BY <1>1, <1>2, <1>3, <1>4 DEF PushStep

\* Pushes that begin, here or elsewhere, keep the types.
LEMMA NewPushType ==
  ASSUME HubAssumption, TypeOK, RunInv,
         \/ Broadcast \/ FromRedis
         \/ \E u \in Users : Send(u)
         \/ \E a \in Users \cup {All} : PushElsewhere(a)
  PROVE  TypeOK' /\ RunInv'
<1>1. pushes.here + 1 \in Nat /\ pushes.there + 1 \in Nat
  BY DEF TypeOK
<1>2. CASE Broadcast \/ FromRedis \/ \E u \in Users : Send(u)
  <2>1. PICK s \in Senders, m \in Message :
           /\ (m.to \in Users /\ SendTo(s, m)) \/ BroadcastAll(s, m)
           /\ UNCHANGED <<list, run, conn, chan, down, history>>
           /\ \/ pushes' = [pushes EXCEPT !.here = pushes.here + 1] /\ bus' = bus
              \/ bus # <<>> /\ bus' = Tail(bus) /\ pushes' = pushes
    BY <1>2, Started
  <2>2. /\ snd' \in [Senders -> Push]
        /\ mu' \in [readers : SUBSET Senders, writer : {"none", "waiting", "held"}]
        /\ mu'.writer = mu.writer /\ mu.writer = "none"
    BY <2>1, StartType
  <2>3. bus' \in Seq(Message) /\ pushes' \in [here : Nat, there : Nat]
    <3>1. CASE pushes' = [pushes EXCEPT !.here = pushes.here + 1] /\ bus' = bus
      BY <1>1, <3>1 DEF TypeOK
    <3>2. CASE bus # <<>> /\ bus' = Tail(bus) /\ pushes' = pushes
      <4>1. bus \in Seq(Message) /\ pushes \in [here : Nat, there : Nat]
        BY DEF TypeOK
      <4>2. Tail(bus) \in Seq(Message)
        BY <3>2, <4>1
      <4>3. QED BY <3>2, <4>1, <4>2
    <3>3. QED BY <2>1, <3>1, <3>2
  <2>4. QED BY <2>1, <2>2, <2>3 DEF TypeOK, RunInv, conn, chan, history
<1>3. ASSUME NEW a \in Users \cup {All}, PushElsewhere(a)
      PROVE  TypeOK' /\ RunInv'
  <2>1. pushes' = [pushes EXCEPT !.there = pushes.there + 1] /\ pushes'.there = pushes.there + 1
    BY <1>3 DEF PushElsewhere, TypeOK
  <2>2. [id |-> pushes'.there, to |-> a, via |-> "elsewhere"] \in Message
    BY <1>1, <2>1 DEF Message
  <2>3. bus' \in Seq(Message)
    BY <1>3, <2>2 DEF PushElsewhere, TypeOK
  <2>4. QED BY <1>1, <1>3, <2>1, <2>3 DEF PushElsewhere, TypeOK, RunInv, conn, chan, history
<1>4. QED BY <1>2, <1>3

\* Steps of a device, its reader and its writer keep the types.
LEMMA ClientStepType ==
  ASSUME HubAssumption, TypeOK, RunInv, NEW c \in Clients,
         Register(c) \/ ReaderEnds(c) \/ Leave(c) \/ Flush(c) \/ WriterEnds(c)
  PROVE  TypeOK' /\ RunInv'
<1>1. CASE Register(c)
  BY <1>1 DEF Register, TypeOK, RunInv, conn, chan, history
<1>2. CASE ReaderEnds(c)
  BY <1>2 DEF ReaderEnds, TypeOK, RunInv, conn, chan, history
<1>3. CASE Leave(c)
  <2>1. <<>> \in Seq(Message)
    OBVIOUS
  <2>2. QED BY <1>3, <2>1 DEF Leave, ToRemove, TypeOK, RunInv, conn, chan, history
<1>4. CASE Flush(c)
  <2>1. <<>> \in Seq(Message) /\ got[c] \o box[c] \in Seq(Message)
    BY DEF TypeOK
  <2>2. QED BY <1>4, <2>1 DEF Flush, TypeOK, RunInv, conn, chan, history
<1>5. CASE WriterEnds(c)
  <2>1. <<>> \in Seq(Message)
    OBVIOUS
  <2>2. box' = [box EXCEPT ![c] = <<>>] \/ box' = box
    BY <1>5 DEF WriterEnds
  <2>3. box' \in [Clients -> Seq(Message)]
    <3>1. CASE box' = [box EXCEPT ![c] = <<>>]
      BY <2>1, <3>1 DEF TypeOK
    <3>2. CASE box' = box
      BY <3>2 DEF TypeOK
    <3>3. QED BY <2>2, <3>1, <3>2
  <2>4. QED BY <1>5, <2>1, <2>3 DEF WriterEnds, TypeOK, RunInv, conn, chan, history
<1>6. QED BY <1>1, <1>2, <1>3, <1>4, <1>5
-----------------------------------------------------------------------------
(* The slices are sound *)

\* What ListInv says of the slice of one user, unfolded.
LEMMA Sound ==
  ASSUME ListInv, NEW u \in Users
  PROVE  /\ list[u].len <= Len(list[u].arr)
         /\ \A j \in 1..list[u].len : list[u].arr[j] \in joined /\ Owner[list[u].arr[j]] = u
         /\ ~(run.pc = "shift" /\ Owner[run.c] = u) =>
              \A j, k \in 1..list[u].len : list[u].arr[j] = list[u].arr[k] => j = k
         /\ run.pc = "shift" /\ Owner[run.c] = u =>
              /\ run.i \in 1..list[u].len
              /\ \A j, k \in 1..list[u].len :
                   list[u].arr[j] = list[u].arr[k] /\ j # k => j = run.i \/ k = run.i
              /\ \A j \in 1..list[u].len : list[u].arr[j] = run.c => j = run.i
BY DEF ListInv, ListOK, SliceOK

\* Registering adds a client that was not in the slice.
LEMMA AddList ==
  ASSUME HubAssumption, TypeOK, RunInv, ListInv, Add
  PROVE  ListInv'
<1>0. PICK u \in Users : u = Owner[run.c]
  BY AddEffect
<1>1. /\ run.c \in Clients /\ u \in Users /\ run.c \notin joined /\ reader[run.c] # "absent"
      /\ run.pc = "add" /\ run' = Select /\ joined' = joined \cup {run.c} /\ reader' = reader
  BY <1>0, AddEffect DEF Add, ListInv, conn
<1>2. /\ list[u].len <= Len(list[u].arr)
      /\ \A j \in 1..list[u].len : list[u].arr[j] \in joined /\ Owner[list[u].arr[j]] = u
      /\ list'[u].len = list[u].len + 1 /\ list'[u].len <= Len(list'[u].arr)
      /\ \A j \in 1..list[u].len : list'[u].arr[j] = list[u].arr[j]
      /\ list'[u].arr[list'[u].len] = run.c
      /\ \A v \in Users : v # u => list'[v] = list[v]
  BY <1>0, AddEffect
<1>3. list[u].len \in Nat /\ \A j, k \in 1..list[u].len : list[u].arr[j] = list[u].arr[k] => j = k
  BY <1>0, <1>1, Sound DEF TypeOK, Slice
<1>4. run'.pc # "shift" /\ run'.pc # "add"
  BY <1>0, <1>1 DEF Select
<1>5. ListOK(u)'
  <2>1. PICK n \in Nat : n = list[u].len
    BY <1>3
  <2>2. PICK a : a = list[u].arr
    OBVIOUS
  <2>3. PICK b : b = list'[u].arr
    OBVIOUS
  <2>4. /\ list'[u].len = n + 1 /\ n + 1 <= Len(b)
        /\ \A j \in 1..n : b[j] = a[j]
        /\ b[n + 1] = run.c
    BY <1>2, <2>1, <2>2, <2>3
  <2>5. /\ \A j \in 1..n : a[j] \in joined /\ Owner[a[j]] = u
        /\ \A j, k \in 1..n : a[j] = a[k] => j = k
    BY <1>2, <1>3, <2>1, <2>2
  <2>6. \A j \in 1..(n + 1) : j \in 1..n \/ j = n + 1
    OBVIOUS
  <2>7. run.c \notin joined /\ joined' = joined \cup {run.c} /\ Owner[run.c] = u
    BY <1>0, <1>1
  <2>8. ASSUME NEW j \in 1..(n + 1) PROVE b[j] \in joined' /\ Owner[b[j]] = u
    <3>1. CASE j \in 1..n
      BY <2>4, <2>5, <2>7, <3>1
    <3>2. CASE j = n + 1
      BY <2>4, <2>7, <3>2
    <3>3. QED BY <2>6, <3>1, <3>2
  <2>9. \A j, k \in 1..(n + 1) : b[j] = b[k] => j = k
    BY <2>4, <2>5, <2>6, <2>7
  <2>10. QED BY <1>4, <2>3, <2>4, <2>8, <2>9 DEF ListOK, SliceOK
<1>6. ASSUME NEW v \in Users, v # u PROVE ListOK(v)'
  <2>1. list'[v] = list[v] /\ run.pc # "shift" /\ joined \subseteq joined'
    BY <1>0, <1>1, <1>2, <1>6
  <2>2. QED BY <1>4, <2>1, Sound DEF ListOK, SliceOK
<1>7. QED BY <1>0, <1>1, <1>4, <1>5, <1>6 DEF ListInv

\* Finding the client to remove stops at its place in the slice.
LEMMA FindList ==
  ASSUME HubAssumption, TypeOK, RunInv, ListInv, Find
  PROVE  ListInv'
<1>0. PICK u \in Users : u = Owner[run.c]
  BY DEF Find, RunInv, HubAssumption
<1> DEFINE s == list[u]
           at == {j \in 1..s.len : s.arr[j] = run.c}
<1>1. /\ run.c \in Clients /\ u \in Users /\ run.pc = "remove"
      /\ list' = list /\ joined' = joined /\ reader' = reader
  BY DEF Find, RunInv, HubAssumption, conn, history
<1>3. CASE at = {}
  <2>1. run' = Select
    BY <1>0, <1>3 DEF Find
  <2>2. run'.pc = "select" /\ run.pc # "shift"
    BY <1>0, <1>1, <2>1 DEF Select
  <2>3. ASSUME NEW v \in Users PROVE ListOK(v)'
    BY <1>0, <1>1, <2>2, Sound DEF ListOK, SliceOK
  <2>4. QED BY <1>0, <1>1, <2>2, <2>3 DEF ListInv
<1>4. CASE at # {}
  <2>1. PICK n \in Nat : n = s.len
    BY <1>0, <1>1 DEF TypeOK, Slice
  <2>2. at \in SUBSET (1..n)
    BY <2>1
  <2>3. PICK i \in at : run' = [run EXCEPT !.pc = "shift", !.i = i]
    <3>1. \E j \in at : \A k \in at : j <= k
      <4>1. at # {}
        BY <1>4
      <4> HIDE DEF at
      <4>2. QED BY <2>2, <4>1, ListFirst
    <3>2. at = {j \in 1..list[Owner[run.c]].len : list[Owner[run.c]].arr[j] = run.c}
      BY <1>0
    <3>3. QED
      <4> HIDE DEF at
      <4>1. QED BY <1>4, <3>1, <3>2 DEF Find
  <2>4. run'.pc = "shift" /\ run'.c = run.c /\ run'.i = i /\ i \in 1..s.len /\ s.arr[i] = run.c
    BY <2>3 DEF TypeOK
  <2> HIDE DEF at
  <2>5. ListOK(u)'
    <3>1. \A j, k \in 1..s.len : s.arr[j] = s.arr[k] => j = k
      BY <1>0, <1>1, Sound
    <3>2. /\ list'[u] = s /\ joined' = joined /\ s.len <= Len(s.arr)
          /\ \A j \in 1..s.len : s.arr[j] \in joined /\ Owner[s.arr[j]] = u
      BY <1>0, <1>1, Sound
    <3>3. \A j \in 1..s.len : s.arr[j] = run.c => j = i
      BY <2>4, <3>1
    <3>4. \A j, k \in 1..s.len : s.arr[j] = s.arr[k] /\ j # k => j = i \/ k = i
      BY <3>1
    <3> HIDE DEF s
    <3>5. Owner[run'.c] = u /\ u \in Users
      BY <1>0, <1>1, <2>4
    <3>6. QED BY <2>4, <3>2, <3>3, <3>4, <3>5 DEF ListOK, SliceOK
  <2>6. ASSUME NEW v \in Users, v # u PROVE ListOK(v)'
    <3>1. list' = list /\ joined' = joined /\ run.pc # "shift" /\ Owner[run'.c] # v
      BY <1>0, <1>1, <2>4, <2>6
    <3>2. QED BY <3>1, Sound DEF ListOK, SliceOK
  <2>7. run.c \in joined
    BY <1>0, <1>1, <2>4, Sound
  <2>8. QED BY <1>0, <1>1, <2>4, <2>5, <2>6, <2>7 DEF ListInv
<1>5. QED BY <1>3, <1>4

\* While the gap is closed one client stands twice, next to itself.
LEMMA ShiftList ==
  ASSUME HubAssumption, TypeOK, RunInv, ListInv, Shift
  PROVE  ListInv'
<1>0. PICK u \in Users : u = Owner[run.c]
  BY ShiftEffect
<1> DEFINE i == run.i
<1>1. /\ run.c \in Clients /\ u \in Users /\ run.pc = "shift"
      /\ i \in 1..list[u].len /\ i < list[u].len /\ list[u].len <= Len(list[u].arr)
      /\ list'[u].len = list[u].len /\ Len(list'[u].arr) = Len(list[u].arr)
      /\ \A j \in 1..Len(list[u].arr) :
              list'[u].arr[j] = IF j = i THEN list[u].arr[i + 1] ELSE list[u].arr[j]
      /\ \A v \in Users : v # u => list'[v] = list[v]
  BY <1>0, ShiftEffect DEF Shift
<1>2. joined' = joined /\ reader' = reader /\ run' = [run EXCEPT !.i = i + 1]
  BY DEF Shift, conn
<1>3. run'.pc = "shift" /\ run'.c = run.c /\ run'.i = i + 1
  BY <1>0, <1>1, <1>2 DEF TypeOK
<1>5. PICK n \in Nat : n = list[u].len /\ i \in Nat /\ list[u].arr \in Seq(Clients \cup {Nobody})
  BY <1>0, <1>1 DEF TypeOK, Slice
<1>6. /\ \A j \in 1..n : list[u].arr[j] \in joined /\ Owner[list[u].arr[j]] = u
      /\ \A j, k \in 1..n : list[u].arr[j] = list[u].arr[k] /\ j # k => j = i \/ k = i
      /\ \A j \in 1..n : list[u].arr[j] = run.c => j = i
  <2>1. u \in Users /\ run.pc = "shift"
    BY <1>0, <1>1
  <2>2. QED BY <1>5, <2>1, Sound
<1>7. \A j \in 1..n : list'[u].arr[j] = IF j = i THEN list[u].arr[i + 1] ELSE list[u].arr[j]
  <2>1. n <= Len(list[u].arr) /\ Len(list[u].arr) \in Nat
    BY <1>0, <1>1, <1>5
  <2>2. \A j \in 1..n : j \in 1..Len(list[u].arr)
    BY <2>1
  <2> HIDE DEF i
  <2>3. QED BY <1>0, <1>1, <2>2
<1> HIDE DEF i
<1>8. i \in 1..n /\ i + 1 \in 1..n
  BY <1>0, <1>1, <1>5
<1>9. ListOK(u)'
  <2>1. \A j \in 1..n : list'[u].arr[j] \in joined /\ Owner[list'[u].arr[j]] = u
    BY <1>6, <1>7, <1>8
  <2>2. \A j, k \in 1..n : list'[u].arr[j] = list'[u].arr[k] /\ j # k => j = i + 1 \/ k = i + 1
    <3> SUFFICES ASSUME NEW j \in 1..n, NEW k \in 1..n, j # k, j # i + 1, k # i + 1,
                        list'[u].arr[j] = list'[u].arr[k]
                 PROVE  FALSE
      OBVIOUS
    <3>1. i # i + 1
      BY <1>5
    <3>2. CASE j = i
      BY <1>6, <1>7, <1>8, <3>1, <3>2
    <3>3. CASE k = i
      BY <1>6, <1>7, <1>8, <3>1, <3>3
    <3>4. CASE j # i /\ k # i
      BY <1>6, <1>7, <3>4
    <3>5. QED BY <3>2, <3>3, <3>4
  <2>3. \A j \in 1..n : list'[u].arr[j] = run.c => j = i + 1
    BY <1>5, <1>6, <1>7, <1>8
  <2>4. list'[u].len = n /\ n <= Len(list'[u].arr)
    BY <1>0, <1>1, <1>5
  <2>5. u \in Users /\ Owner[run'.c] = u /\ joined' = joined
    BY <1>0, <1>1, <1>2, <1>3
  <2>6. QED BY <1>3, <1>8, <2>1, <2>2, <2>3, <2>4, <2>5 DEF ListOK, SliceOK
<1>10. ASSUME NEW v \in Users, v # u PROVE ListOK(v)'
  <2>1. list'[v] = list[v] /\ Owner[run.c] # v /\ Owner[run'.c] # v /\ joined' = joined
    BY <1>0, <1>1, <1>2, <1>3, <1>10
  <2>2. QED BY <2>1, Sound DEF ListOK, SliceOK
<1>11. QED BY <1>0, <1>1, <1>2, <1>3, <1>9, <1>10 DEF ListInv

\* Cutting off leaves every other client once.
LEMMA RemoveList ==
  ASSUME HubAssumption, TypeOK, RunInv, ListInv, Remove
  PROVE  ListInv'
<1>0. PICK u \in Users : u = Owner[run.c]
  BY RemoveEffect
<1> DEFINE n == list[u].len
<1>1. /\ run.c \in Clients /\ u \in Users /\ n \in Pos /\ run.i = n /\ n <= Len(list[u].arr)
      /\ list'[u].len = n - 1
      /\ n = 1 => list'[u].arr = <<>>
      /\ n # 1 => list'[u].arr = list[u].arr
      /\ \A v \in Users : v # u => list'[v] = list[v]
  BY <1>0, RemoveEffect
<1>2. /\ joined' = joined \ {run.c} /\ reader' = reader /\ run.pc = "shift"
      /\ run'.pc = "select"
  BY DEF Remove, conn, Select
<1>3. list[u].arr \in Seq(Clients \cup {Nobody})
  BY <1>0, <1>1 DEF TypeOK, Slice
<1>4. /\ \A j \in 1..n : list[u].arr[j] \in joined /\ Owner[list[u].arr[j]] = u
      /\ \A j, k \in 1..n : list[u].arr[j] = list[u].arr[k] /\ j # k => j = n \/ k = n
      /\ \A j \in 1..n : list[u].arr[j] = run.c => j = n
  BY <1>0, <1>1, <1>2, Sound
<1>5. list'[u].len <= Len(list'[u].arr)
  <2>1. CASE n = 1
    BY <1>0, <1>1, <2>1
  <2>2. CASE n # 1
    <3>1. Len(list[u].arr) \in Nat
      BY <1>3
    <3>2. list'[u].arr = list[u].arr
      BY <1>1, <2>2
    <3> HIDE DEF n
    <3>3. QED BY <1>1, <3>1, <3>2 DEF Pos
  <2>3. QED BY <2>1, <2>2
<1> HIDE DEF n
<1>6. \A j \in 1..(n - 1) : j \in 1..n /\ j # n /\ n # 1
  BY <1>0, <1>1 DEF Pos
<1>7. ListOK(u)'
  <2>1. \A j \in 1..(n - 1) : list'[u].arr[j] = list[u].arr[j]
    BY <1>0, <1>1, <1>6
  <2>2. \A j \in 1..(n - 1) : list'[u].arr[j] \in joined' /\ Owner[list'[u].arr[j]] = u
    BY <1>2, <1>4, <1>6, <2>1
  <2>3. \A j, k \in 1..(n - 1) : list'[u].arr[j] = list'[u].arr[k] => j = k
    BY <1>4, <1>6, <2>1
  <2>4. u \in Users /\ list'[u].len = n - 1 /\ run'.pc # "shift"
    BY <1>0, <1>1, <1>2
  <2>5. QED BY <1>5, <2>2, <2>3, <2>4 DEF ListOK, SliceOK
<1>8. ASSUME NEW v \in Users, v # u PROVE ListOK(v)'
  <2>1. list'[v] = list[v] /\ Owner[run.c] # v /\ run'.pc # "shift" /\ joined' = joined \ {run.c}
    BY <1>0, <1>1, <1>2, <1>8
  <2>2. \A j \in 1..list[v].len : list[v].arr[j] # run.c
    <3>1. \A j \in 1..list[v].len : Owner[list[v].arr[j]] = v
      BY Sound
    <3>2. QED BY <2>1, <3>1
  <2>3. QED BY <2>1, <2>2, Sound DEF ListOK, SliceOK
<1>9. QED BY <1>2, <1>7, <1>8 DEF ListInv

\* All other steps leave the slices alone.
LEMMA OtherList ==
  ASSUME ListInv, list' = list, joined' = joined,
         \/ run' = run
         \/ run.pc = "select" /\ run'.pc \in {"add", "remove"},
         \A c \in Clients : reader'[c] = "absent" => reader[c] = "absent",
         run'.pc = "add" => /\ run'.c \in Clients /\ run'.c \notin joined
                            /\ reader'[run'.c] # "absent"
  PROVE  ListInv'
<1>1. ASSUME NEW u \in Users PROVE ListOK(u)'
  <2>1. ListOK(u)
    BY DEF ListInv
  <2>2. QED BY <2>1 DEF ListOK, SliceOK
<1>2. QED BY <1>1 DEF ListInv

\* Every step keeps the slices in order.
LEMMA ListStep ==
  ASSUME HubAssumption, TypeOK, RunInv, ListInv, [Next]_vars
  PROVE  ListInv'
<1>1. CASE RunStep
  BY <1>1, AddList, FindList, ShiftList, RemoveList DEF RunStep
<1>2. CASE \E s \in Senders : PushStep(s)
  <2>1. PICK s \in Senders : PushStep(s)
    BY <1>2
  <2>2. CASE Handoff(s)
    <3>1. /\ list' = list /\ joined' = joined /\ reader' = reader
          /\ run.pc = "select" /\ run'.pc = "remove"
      BY <2>2 DEF Handoff, ToRemove, conn, history
    <3>2. QED BY <3>1, OtherList
  <2>3. CASE Offer(s) \/ NextUser(s) \/ Pushed(s)
    <3>1. list' = list /\ joined' = joined /\ reader' = reader /\ run' = run
      BY <2>3 DEF Offer, NextUser, Pushed, conn, history
    <3>2. QED BY <3>1, OtherList DEF ListInv, RunInv
  <2>4. QED BY <2>1, <2>2, <2>3 DEF PushStep
<1>3. CASE \/ Broadcast \/ FromRedis \/ (\E u \in Users : Send(u))
           \/ (\E a \in Users \cup {All} : PushElsewhere(a)) \/ UNCHANGED vars
  <2>1. list' = list /\ joined' = joined /\ reader' = reader /\ run' = run
    BY <1>3 DEF Broadcast, FromRedis, Send, PushElsewhere, conn, history, vars
  <2>2. QED BY <2>1, OtherList DEF ListInv, RunInv
<1>4. ASSUME NEW c \in Clients, Register(c)
      PROVE  ListInv'
  <2>1. /\ list' = list /\ joined' = joined /\ run.pc = "select" /\ run'.pc = "add" /\ run'.c = c
        /\ reader[c] = "absent" /\ reader' = [reader EXCEPT ![c] = "reading"]
    BY <1>4 DEF Register, history
  <2>2. reader'[c] = "reading" /\ \A d \in Clients : reader'[d] = "absent" => reader[d] = "absent"
    BY <2>1 DEF TypeOK
  <2>3. c \notin joined
    BY <2>1 DEF ListInv
  <2>4. QED BY <2>1, <2>2, <2>3, OtherList
<1>5. ASSUME NEW c \in Clients, ReaderEnds(c) \/ Leave(c) \/ Flush(c) \/ WriterEnds(c)
      PROVE  ListInv'
  <2>1. /\ list' = list /\ joined' = joined
        /\ run' = run \/ (run.pc = "select" /\ run'.pc = "remove")
        /\ \/ reader' = reader \/ reader' = [reader EXCEPT ![c] = "leaving"]
           \/ reader' = [reader EXCEPT ![c] = "gone"]
    <3>1. CASE Leave(c)
      BY <3>1 DEF Leave, ToRemove, history
    <3>2. CASE ReaderEnds(c) \/ Flush(c) \/ WriterEnds(c)
      BY <3>2 DEF ReaderEnds, Flush, WriterEnds, history
    <3>3. QED BY <1>5, <3>1, <3>2
  <2>2. \A d \in Clients : reader'[d] = "absent" => reader[d] = "absent"
    BY <2>1 DEF TypeOK
  <2>3. run'.pc = "add" => run'.c \in Clients /\ run'.c \notin joined /\ reader'[run'.c] # "absent"
    BY <2>1 DEF ListInv, RunInv, TypeOK
  <2>4. QED BY <2>1, <2>2, <2>3, OtherList
<1>6. QED BY <1>1, <1>2, <1>3, <1>4, <1>5 DEF Next
-----------------------------------------------------------------------------
(* What a push walks are clients *)

\* A push that takes up the slice of u.
Taken(s, u) ==
  LET q == snd'[s] IN
  /\ q.pc = "next" /\ q.shared = TRUE /\ q.u = u /\ q.len = list[u].len /\ q.i = 1 /\ list' = list

\* A slice just taken can be walked: clients all along.
LEMMA TakenWalk ==
  ASSUME TypeOK, ListInv, NEW s \in Senders, NEW u \in Users, Taken(s, u)
  PROVE  Walkable(s)'
<1>1. Walked(s)' = list[u].arr
  BY DEF Walked, Taken
<1>2. joined \subseteq Clients
  BY DEF TypeOK
<1>3. /\ list[u].len <= Len(list[u].arr)
      /\ \A j \in 1..list[u].len : list[u].arr[j] \in Clients
  BY <1>2, Sound
<1>4. QED BY <1>1, <1>3 DEF Walkable, Taken, Pos

\* A push that is left alone, and the slices too.
LEMMA SameWalk ==
  ASSUME NEW s \in Senders, snd'[s] = snd[s], list' = list
  PROVE  Walked(s)' = Walked(s) /\ (Walkable(s) => Walkable(s)')
BY DEF Walked, Walkable

\* A push that goes on walks the array it walked.
LEMMA OnwardWalk ==
  ASSUME NEW s \in Senders, Onward(s), list' = list
  PROVE  Walked(s)' = Walked(s)
BY DEF Onward, Walked

\* What a push walks is an array, its own or the hub's.
LEMMA WalkedSeq ==
  ASSUME NEW p \in Push, NEW l \in [Users -> Slice]
  PROVE  LET a == IF p.shared THEN l[p.u].arr ELSE p.arr IN
         a \in Seq(Clients \cup {Nobody}) /\ Len(a) \in Nat
<1>1. p.u \in Users /\ p.arr \in Seq(Clients \cup {Nobody})
  BY DEF Push
<1>2. l[p.u].arr \in Seq(Clients \cup {Nobody})
  BY <1>1 DEF Slice
<1>3. QED BY <1>1, <1>2

\* While Run adds, shifts and removes there are still clients all along the array a push walks.
LEMMA RunStepWalk ==
  ASSUME HubAssumption, TypeOK, TypeOK', RunInv, ListInv, WalkType, RunStep, NEW s \in Senders,
         snd'[s].pc # "idle"
  PROVE  Walkable(s)'
<1>1. snd[s] \in Push /\ Len(Walked(s)) \in Nat
  <2>1. snd[s] \in Push /\ list \in [Users -> Slice]
    BY DEF TypeOK
  <2>2. QED BY <2>1, WalkedSeq DEF Walked
<1>2. CASE Add
  <2>1. run.c \in Clients
    BY <1>2, AddEffect
  <2>2. Kept(s) /\ Len(Walked(s)) <= Len(Walked(s)') /\ Len(Walked(s)') \in Nat
    <3>1. list' \in [Users -> Slice] /\ snd'[s] \in Push
      BY DEF TypeOK
    <3>2. Len(Walked(s)') \in Nat
      BY <3>1, WalkedSeq DEF Walked
    <3>3. QED BY <1>2, <3>2, AddWalked
  <2>3. \A j \in 1..Len(Walked(s)) : Walked(s)'[j] = Walked(s)[j] \/ Walked(s)'[j] = run.c
    BY <1>2, AddWalked
  <2>4. Walkable(s) /\ snd[s].len \in Nat
    BY <1>1, <2>2 DEF WalkType, Kept, Push
  <2>5. /\ snd[s].i \in Pos /\ snd[s].len <= Len(Walked(s))
        /\ \A j \in 1..snd[s].len : Walked(s)[j] \in Clients
        /\ snd[s].pc = "handoff" => snd[s].c \in Clients
    BY <2>4 DEF Walkable
  <2>6. \A j \in 1..snd[s].len : j \in 1..Len(Walked(s))
    BY <1>1, <2>4, <2>5
  <2>7. snd[s].len <= Len(Walked(s)') /\ \A j \in 1..snd[s].len : Walked(s)'[j] \in Clients
    <3>1. snd[s].len <= Len(Walked(s)')
      BY <1>1, <2>2, <2>4, <2>5
    <3>2. QED BY <2>1, <2>3, <2>5, <2>6, <3>1
  <2>8. QED BY <2>2, <2>5, <2>7 DEF Walkable, Kept
<1>3. CASE Find
  <2>1. snd' = snd /\ list' = list
    BY <1>3 DEF Find
  <2>2. QED BY <2>1, SameWalk DEF WalkType
<1>4. CASE Shift
  <2>1. snd' = snd /\ Len(Walked(s)') = Len(Walked(s)) /\ joined \subseteq Clients
    BY <1>4, ShiftWalked DEF TypeOK
  <2>2. \A j \in 1..Len(Walked(s)) : Walked(s)'[j] = Walked(s)[j] \/ Walked(s)'[j] \in joined
    BY <1>4, ShiftWalked
  <2>3. Walkable(s) /\ snd[s].len \in Nat
    BY <1>1, <2>1 DEF WalkType, Push
  <2>4. /\ snd[s].i \in Pos /\ snd[s].len <= Len(Walked(s))
        /\ \A j \in 1..snd[s].len : Walked(s)[j] \in Clients
        /\ snd[s].pc = "handoff" => snd[s].c \in Clients
    BY <2>3 DEF Walkable
  <2>5. PICK n \in Nat : n = Len(Walked(s))
    BY <1>1
  <2>6. \A j \in 1..snd[s].len : j \in 1..n
    BY <2>3, <2>4, <2>5
  <2>7. \A j \in 1..snd[s].len : Walked(s)'[j] \in Clients
    BY <2>1, <2>2, <2>4, <2>5, <2>6
  <2>8. snd'[s] = snd[s]
    BY <2>1
  <2>9. QED BY <2>1, <2>4, <2>7, <2>8 DEF Walkable
<1>5. CASE Remove
  <2>1. Kept(s) /\ Walked(s)' = Walked(s)
    BY <1>5, RemoveWalked
  <2>2. Walkable(s)
    BY <2>1 DEF WalkType, Kept
  <2>3. QED BY <2>1, <2>2 DEF Walkable, Kept
<1>6. QED BY <1>2, <1>3, <1>4, <1>5 DEF RunStep

\* The steps of a push keep this for every push.
LEMMA PushStepWalk ==
  ASSUME HubAssumption, TypeOK, ListInv, WalkType, NEW s \in Senders, PushStep(s)
  PROVE  WalkType'
<1>1. list' = list
  BY DEF PushStep, Offer, Handoff, NextUser, Pushed
<1>2. ASSUME NEW r \in Senders, r # s, snd'[r].pc # "idle" PROVE Walkable(r)'
  <2>1. snd'[r] = snd[r]
    BY <1>2, OtherKept
  <2>2. QED BY <1>1, <1>2, <2>1, SameWalk DEF WalkType
<1>3. ASSUME snd'[s].pc # "idle" PROVE Walkable(s)'
  <2>1. CASE Offer(s)
    <3>1. /\ Onward(s) /\ At(s) \in Clients /\ snd[s].pc = "next" /\ snd[s].i \in Nat
          /\ snd'[s].i \in {snd[s].i, snd[s].i + 1}
          /\ snd'[s].pc = "handoff" => snd'[s].c = At(s)
      BY <2>1, OfferEffect DEF TypeOK, Push
    <3>2. Walked(s)' = Walked(s) /\ Walkable(s)
      BY <1>1, <3>1, OnwardWalk DEF WalkType
    <3>3. QED BY <3>1, <3>2 DEF Walkable, Onward, Pos
  <2>2. CASE Handoff(s)
    <3>1. /\ Onward(s) /\ snd[s].pc = "handoff" /\ snd[s].i \in Nat
          /\ snd'[s].i = snd[s].i + 1 /\ snd'[s].pc = "next"
      BY <2>2, HandoffEffect DEF TypeOK, Push
    <3>2. Walked(s)' = Walked(s) /\ Walkable(s)
      BY <1>1, <3>1, OnwardWalk DEF WalkType
    <3>3. QED BY <3>1, <3>2 DEF Walkable, Onward, Pos
  <2>3. CASE NextUser(s)
    <3>1. PICK u \in Users : Taken(s, u)
      BY <1>1, <2>3, NextUserEffect DEF Taken
    <3>2. QED BY <3>1, TakenWalk
  <2>4. CASE Pushed(s)
    BY <1>3, <2>4, PushedEffect DEF Idle
  <2>5. QED BY <2>1, <2>2, <2>3, <2>4 DEF PushStep
<1>4. QED BY <1>2, <1>3 DEF WalkType

\* A push that begins can be walked.
LEMMA StartWalk ==
  ASSUME HubAssumption, TypeOK, ListInv, WalkType, list' = list,
         NEW s \in Senders, NEW m \in Message,
         (m.to \in Users /\ SendTo(s, m)) \/ BroadcastAll(s, m)
  PROVE  WalkType'
<1>1. ASSUME NEW r \in Senders, r # s, snd'[r].pc # "idle" PROVE Walkable(r)'
  <2>1. snd'[r] = snd[r]
    <3>1. CASE m.to \in Users /\ SendTo(s, m)
      BY <1>1, <3>1 DEF SendTo, TypeOK
    <3>2. CASE BroadcastAll(s, m)
      BY <1>1, <3>2, BroadcastEffect
    <3>3. QED BY <3>1, <3>2
  <2>2. QED BY <1>1, <2>1, SameWalk DEF WalkType
<1>2. Walkable(s)'
  <2>1. CASE m.to \in Users /\ SendTo(s, m)
    <3>1. PICK u \in Users : u = m.to
      BY <2>1
    <3>2. Taken(s, u)
      BY <2>1, <3>1, SendEffect DEF Taken
    <3>3. QED BY <3>2, TakenWalk
  <2>2. CASE BroadcastAll(s, m)
    <3>1. snd'[s].pc = "next" /\ snd'[s].shared = FALSE /\ snd'[s].arr = <<>> /\ snd'[s].len = 0
            /\ snd'[s].i = 1
      BY <2>2, BroadcastEffect
    <3>2. Walked(s)' = <<>>
      BY <3>1 DEF Walked
    <3>3. QED BY <3>1, <3>2 DEF Walkable, Pos
  <2>3. QED BY <2>1, <2>2
<1>3. QED BY <1>1, <1>2 DEF WalkType

\* Every step keeps arrays walkable.
LEMMA WalkTypeStep ==
  ASSUME HubAssumption, TypeOK, TypeOK', RunInv, ListInv, WalkType, [Next]_vars
  PROVE  WalkType'
<1>1. CASE RunStep
  BY <1>1, RunStepWalk DEF WalkType
<1>2. CASE \E s \in Senders : PushStep(s)
  BY <1>2, PushStepWalk
<1>3. CASE Broadcast \/ FromRedis \/ \E u \in Users : Send(u)
  <2>1. PICK s \in Senders, m \in Message :
          ((m.to \in Users /\ SendTo(s, m)) \/ BroadcastAll(s, m)) /\ list' = list
    BY <1>3, Started
  <2>2. QED BY <2>1, StartWalk
<1>4. CASE \/ \E a \in Users \cup {All} : PushElsewhere(a)
           \/ \E c \in Clients : \/ Register(c) \/ ReaderEnds(c) \/ Leave(c)
                                 \/ Flush(c) \/ WriterEnds(c)
           \/ UNCHANGED vars
  <2>1. list' = list /\ snd' = snd
    BY <1>4 DEF PushElsewhere, Register, ReaderEnds, Leave, Flush, WriterEnds, vars
  <2>2. QED BY <2>1, SameWalk DEF WalkType
<1>5. QED BY <1>1, <1>2, <1>3, <1>4 DEF Next
-----------------------------------------------------------------------------
(* The read lock is kept by those who visit several users *)

\* Every step keeps the read lock with a broadcast that has users left, and Run from shifting
\* under it.
LEMMA HeldStep ==
  ASSUME HubAssumption, TypeOK, RunInv, ListInv, WalkType, HeldInv, [Next]_vars
  PROVE  HeldInv'
<1>1. CASE Add \/ Remove
  <2>1. \A s \in Senders : Kept(s)
    BY <1>1, AddWalked, RemoveWalked
  <2>2. mu' = [mu EXCEPT !.writer = "none"]
    BY <1>1 DEF Add, Remove
  <2>3. mu'.readers = mu.readers
    BY <2>2 DEF TypeOK
  <2>4. QED BY <2>1, <2>3 DEF HeldInv, Kept
<1>2. CASE \/ Find \/ Shift \/ UNCHANGED vars \/ \E a \in Users \cup {All} : PushElsewhere(a)
           \/ \E c \in Clients : \/ Register(c) \/ ReaderEnds(c) \/ Leave(c)
                                 \/ Flush(c) \/ WriterEnds(c)
  <2>1. snd' = snd
    BY <1>2 DEF Find, Shift, PushElsewhere, Register, ReaderEnds, Leave, Flush, WriterEnds, vars
  <2>2. mu' = mu \/ mu' = [mu EXCEPT !.writer = "none"] \/ mu' = [mu EXCEPT !.writer = "held"]
        \/ mu' = [mu EXCEPT !.writer = "waiting"]
    BY <1>2
      DEF Find, Shift, PushElsewhere, Register, ReaderEnds, Leave, Flush, WriterEnds, ToRemove, vars
  <2>3. mu'.readers = mu.readers
    BY <2>2 DEF TypeOK
  <2>4. QED BY <2>1, <2>3 DEF HeldInv
<1>3. ASSUME NEW s \in Senders, PushStep(s) PROVE HeldInv'
  <2>1. CASE Offer(s)
    <3>1. Onward(s) /\ mu' = mu /\ snd[s].pc # "idle" /\ snd'[s].pc # "idle"
      <4>1. Onward(s) /\ snd[s].pc = "next" /\ (snd' = snd \/ snd'[s].pc \in {"next", "handoff"})
        BY <2>1, OfferEffect
      <4>2. QED BY <2>1, <4>1 DEF Offer
    <3>2. QED BY <3>1 DEF HeldInv, Onward
  <2>2. CASE Handoff(s)
    <3>1. Onward(s) /\ mu' = [mu EXCEPT !.writer = "waiting"] /\ snd[s].pc # "idle"
            /\ snd'[s].pc # "idle"
      BY <2>2, HandoffEffect
    <3>2. mu'.readers = mu.readers
      BY <3>1 DEF TypeOK
    <3>3. QED BY <3>1, <3>2 DEF HeldInv, Onward
  <2>3. CASE NextUser(s)
    <3>1. /\ snd'[s].pc = "next" /\ snd'[s].held = snd[s].held
          /\ snd'[s].users \subseteq snd[s].users
          /\ \A q \in Senders : q # s => snd'[q] = snd[q]
      BY <2>3, NextUserEffect
    <3>2. mu' = mu /\ snd[s].users # {}
      BY <2>3 DEF NextUser
    <3>3. QED BY <3>1, <3>2 DEF HeldInv
  <2>4. CASE Pushed(s)
    <3>1. mu' = [mu EXCEPT !.readers = @ \ {s}]
      BY <2>4 DEF Pushed
    <3>2. mu'.readers = mu.readers \ {s}
      BY <3>1 DEF TypeOK
    <3>3. snd'[s].users = {} /\ snd'[s].held = FALSE
      BY <2>4, PushedEffect DEF Idle
    <3>4. \A q \in Senders : q # s => snd'[q] = snd[q]
      BY <2>4, PushedEffect
    <3>5. QED BY <3>2, <3>3, <3>4 DEF HeldInv
  <2>5. QED BY <1>3, <2>1, <2>2, <2>3, <2>4 DEF PushStep
<1>4. ASSUME NEW s \in Senders, NEW m \in Message,
             (m.to \in Users /\ SendTo(s, m)) \/ BroadcastAll(s, m)
      PROVE  HeldInv'
  <2>1. CASE m.to \in Users /\ SendTo(s, m)
    <3>1. snd'[s].users = {} /\ snd'[s].held = FALSE /\ mu' = mu
      BY <2>1, SendEffect
    <3>2. \A q \in Senders : q # s => snd'[q] = snd[q]
      BY <2>1 DEF SendTo, TypeOK
    <3>3. QED BY <3>1, <3>2 DEF HeldInv
  <2>2. CASE BroadcastAll(s, m)
    <3>1. snd'[s].held = TRUE /\ snd'[s].pc = "next" /\ mu' = [mu EXCEPT !.readers = @ \cup {s}]
          /\ \A q \in Senders : q # s => snd'[q] = snd[q]
      BY <2>2, BroadcastEffect
    <3>2. mu'.readers = mu.readers \cup {s}
      BY <3>1 DEF TypeOK
    <3>3. QED BY <3>1, <3>2 DEF HeldInv
  <2>3. QED BY <1>4, <2>1, <2>2
<1>5. CASE Broadcast \/ FromRedis \/ \E u \in Users : Send(u)
  <2>1. PICK s \in Senders, m \in Message : (m.to \in Users /\ SendTo(s, m)) \/ BroadcastAll(s, m)
    BY <1>5, Started
  <2>2. QED BY <1>4, <2>1
<1>6. QED BY <1>1, <1>2, <1>3, <1>5 DEF Next, RunStep
-----------------------------------------------------------------------------
(* Who is in a slice can be written to *)

\* As long as no buffer was found full, nobody closes the channel of a connected client.
LEMMA OpenStep ==
  ASSUME HubAssumption, TypeOK, RunInv, ListInv, WalkType, OpenInv, [Next]_vars
  PROVE  OpenInv'
<1> SUFFICES ASSUME ~full'
             PROVE  /\ joined' \cap closed' = {}
                    /\ \A c \in Clients : reader'[c] = "absent" => c \notin closed'
                    /\ run'.pc = "add" => run'.c \notin closed'
                    /\ \A s \in Senders : snd'[s].pc # "handoff"
  BY DEF OpenInv
<1>1. CASE Add
  <2>1. ~full /\ joined' = joined \cup {run.c} /\ UNCHANGED <<reader, closed>> /\ run'.pc # "add"
          /\ run.pc = "add"
    BY <1>1 DEF Add, conn, chan, Select
  <2>2. \A s \in Senders : snd'[s].pc = snd[s].pc
    BY <1>1, AddWalked DEF Kept
  <2>3. QED BY <2>1, <2>2 DEF OpenInv
<1>2. CASE Find \/ Shift
  <2>1. ~full /\ UNCHANGED <<joined, reader, closed, snd>>
    BY <1>2 DEF Find, Shift, conn, chan, history
  <2>2. run'.pc # "add"
    <3>1. CASE Find
      <4>1. PICK at : at = {j \in 1..list[Owner[run.c]].len : list[Owner[run.c]].arr[j] = run.c}
        OBVIOUS
      <4>2. PICK i : i = CHOOSE j \in at : \A k \in at : j <= k
        OBVIOUS
      <4>3. CASE at = {}
        BY <3>1, <4>1, <4>3 DEF Find, Select
      <4>4. CASE at # {}
        <5>1. run' = [run EXCEPT !.pc = "shift", !.i = i]
          BY <3>1, <4>1, <4>2, <4>4 DEF Find
        <5>2. QED BY <5>1 DEF TypeOK
      <4>5. QED BY <4>3, <4>4
    <3>2. CASE Shift
      BY <3>2 DEF Shift, TypeOK
    <3>3. QED BY <1>2, <3>1, <3>2
  <2>3. QED BY <2>1, <2>2 DEF OpenInv
<1>3. CASE Remove
  <2>1. /\ ~full /\ joined' = joined \ {run.c} /\ closed' = closed \cup {run.c} /\ reader' = reader
        /\ run'.pc # "add" /\ run.pc = "shift"
    BY <1>3 DEF Remove, conn, Select
  <2>2. \A s \in Senders : snd'[s].pc = snd[s].pc
    BY <1>3, RemoveWalked DEF Kept
  <2>3. run.c \in joined
    BY <2>1 DEF ListInv
  <2>4. \A c \in Clients : reader[c] = "absent" => c # run.c
    BY <2>3 DEF ListInv
  <2>5. QED BY <2>1, <2>2, <2>4 DEF OpenInv
<1>4. ASSUME NEW s \in Senders, PushStep(s)
      PROVE  /\ joined' \cap closed' = {}
             /\ \A c \in Clients : reader'[c] = "absent" => c \notin closed'
             /\ run'.pc = "add" => run'.c \notin closed'
             /\ \A q \in Senders : snd'[q].pc # "handoff"
  <2>1. UNCHANGED <<joined, reader>> /\ run'.pc = "add" => run' = run
    BY <1>4 DEF PushStep, Offer, Handoff, NextUser, Pushed, ToRemove, conn, history
  <2>2. ~full
    BY <1>4 DEF PushStep, Offer, Handoff, NextUser, Pushed, history
  <2>3. closed' = closed
    BY <1>4 DEF PushStep, Offer, Handoff, NextUser, Pushed, chan
  <2>4. \A q \in Senders : snd'[q].pc \in {snd[q].pc, "next", "idle"}
    <3>1. CASE Offer(s)
      BY <3>1, OfferEffect DEF Onward
    <3>2. CASE Handoff(s)
      BY <3>2, HandoffEffect DEF Onward
    <3>3. CASE NextUser(s)
      BY <3>3, NextUserEffect
    <3>4. CASE Pushed(s)
      BY <3>4, PushedEffect DEF Idle
    <3>5. QED BY <1>4, <3>1, <3>2, <3>3, <3>4 DEF PushStep
  <2>5. UNCHANGED <<joined, reader>>
    BY <1>4 DEF PushStep, Offer, Handoff, NextUser, Pushed, conn, history
  <2>6. QED BY <2>1, <2>2, <2>3, <2>4, <2>5 DEF OpenInv
<1>5. CASE Broadcast \/ FromRedis \/ \E u \in Users : Send(u)
  <2>1. PICK s \in Senders, m \in Message :
          /\ (m.to \in Users /\ SendTo(s, m)) \/ BroadcastAll(s, m)
          /\ UNCHANGED <<list, run, conn, chan, down, history>>
    BY <1>5, Started
  <2>2. snd'[s].pc = "next" /\ \A q \in Senders : q # s => snd'[q] = snd[q]
    <3>1. CASE m.to \in Users /\ SendTo(s, m)
      <4>1. snd'[s].pc = "next"
        BY <3>1, SendEffect
      <4>2. QED BY <3>1, <4>1 DEF SendTo, TypeOK
    <3>2. CASE BroadcastAll(s, m)
      BY <3>2, BroadcastEffect
    <3>3. QED BY <2>1, <3>1, <3>2
  <2>3. QED BY <2>1, <2>2 DEF OpenInv, conn, chan, history
<1>6. CASE UNCHANGED vars \/ \E a \in Users \cup {All} : PushElsewhere(a)
  <2>1. UNCHANGED <<full, joined, closed, reader, run, snd>>
    BY <1>6 DEF PushElsewhere, conn, chan, history, vars
  <2>2. QED BY <2>1 DEF OpenInv
<1>7. ASSUME NEW c \in Clients,
             Register(c) \/ ReaderEnds(c) \/ Leave(c) \/ Flush(c) \/ WriterEnds(c)
      PROVE  /\ joined' \cap closed' = {}
             /\ \A d \in Clients : reader'[d] = "absent" => d \notin closed'
             /\ run'.pc = "add" => run'.c \notin closed'
             /\ \A s \in Senders : snd'[s].pc # "handoff"
  <2>1. UNCHANGED <<full, joined, closed, snd>>
    BY <1>7 DEF Register, ReaderEnds, Leave, Flush, WriterEnds, chan, history
  <2>2. \A d \in Clients : reader'[d] = "absent" => reader[d] = "absent"
    BY <1>7 DEF Register, ReaderEnds, Leave, Flush, WriterEnds, TypeOK
  <2>3. run' = run \/ run'.pc = "remove" \/ (run'.c = c /\ reader[c] = "absent")
    <3>1. CASE Register(c)
      BY <3>1 DEF Register
    <3>2. CASE Leave(c)
      BY <3>2 DEF Leave, ToRemove
    <3>3. CASE ReaderEnds(c) \/ Flush(c) \/ WriterEnds(c)
      BY <3>3 DEF ReaderEnds, Flush, WriterEnds
    <3>4. QED BY <1>7, <3>1, <3>2, <3>3
  <2>4. QED BY <2>1, <2>2, <2>3 DEF OpenInv
<1>8. QED BY <1>1, <1>2, <1>3, <1>4, <1>5, <1>6, <1>7 DEF Next, RunStep

-----------------------------------------------------------------------------
(* What a push walks is fit to be walked *)

\* A slice just taken, while no gap is being closed, holds connected clients, each once.
LEMMA TakenFit ==
  ASSUME TypeOK, ListInv, NEW s \in Senders, NEW u \in Users, Taken(s, u), run.pc # "shift",
         joined' = joined
  PROVE  Fit(s)'
<1>1. Walked(s)' = list[u].arr
  BY DEF Walked, Taken
<1>2. /\ \A j \in 1..list[u].len : list[u].arr[j] \in joined /\ Owner[list[u].arr[j]] = u
      /\ \A j, k \in 1..list[u].len : list[u].arr[j] = list[u].arr[k] => j = k
      /\ list[u].len \in Nat
  BY Sound DEF TypeOK, Slice
<1>3. QED BY <1>1, <1>2 DEF Fit, Taken

\* A push nothing has happened to fits as before.
LEMMA SameFit ==
  ASSUME NEW s \in Senders, snd'[s] = snd[s], list' = list, joined' = joined, Fit(s)
  PROVE  Fit(s)'
BY DEF Fit, Walked

\* A push that goes on fits as before.
LEMMA OnwardFit ==
  ASSUME NEW s \in Senders, Onward(s), list' = list, joined' = joined, Fit(s)
  PROVE  Fit(s)'
BY DEF Fit, Walked, Onward

\* Run's steps leave a push fitting unless they shift the slice of its user, which makes it
\* torn.
LEMMA RunStepFit ==
  ASSUME HubAssumption, TypeOK, RunInv, ListInv, WalkType, FitInv, RunStep, ~full,
         NEW s \in Senders, snd'[s].pc = "next", snd'[s].u \notin torn'
  PROVE  Fit(s)'
<1>1. snd[s] \in Push /\ snd[s].u \in Users /\ snd[s].len \in Nat /\ list[snd[s].u].len \in Nat
      /\ list[snd[s].u] \in Slice
  BY DEF TypeOK, Push, Slice
<1>2. CASE Add
  <2>1. /\ Kept(s) /\ (snd'[s].shared => snd[s].shared) /\ Len(Walked(s)) \in Nat
        /\ torn' = torn /\ joined \subseteq joined'
    <3>1. Len(Walked(s)) \in Nat
      BY WalkedSeq DEF Walked, TypeOK
    <3>2. QED BY <1>2, <3>1, AddWalked DEF Add
  <2>2. Fit(s) /\ snd[s].len <= Len(Walked(s))
    BY <2>1 DEF FitInv, WalkType, Walkable, Kept
  <2>3. \A j \in 1..snd[s].len : Walked(s)'[j] = Walked(s)[j]
    <3> SUFFICES ASSUME NEW j \in 1..snd[s].len PROVE Walked(s)'[j] = Walked(s)[j]
      OBVIOUS
    <3>1. j \in 1..Len(Walked(s))
      BY <1>1, <2>1, <2>2
    <3>2. ~(snd[s].shared /\ snd[s].u = Owner[run.c] /\ j = list[Owner[run.c]].len + 1)
      BY <1>1, <2>2 DEF Fit
    <3>3. QED BY <1>2, <3>1, <3>2, AddWalked
  <2>4. list'[snd[s].u].len >= list[snd[s].u].len
    <3>1. CASE snd[s].u = Owner[run.c]
      BY <1>1, <1>2, <3>1, AddEffect
    <3>2. CASE snd[s].u # Owner[run.c]
      BY <1>1, <1>2, <3>2, AddEffect
    <3>3. QED BY <3>1, <3>2
  <2>5. snd[s].shared => snd[s].len <= list'[snd[s].u].len
    <3>1. list'[snd[s].u].len \in Nat
      BY <1>1, <1>2, AddEffect DEF TypeOK, Slice
    <3>2. QED BY <1>1, <2>2, <2>4, <3>1 DEF Fit
  <2>6. QED BY <2>1, <2>2, <2>3, <2>5 DEF Fit, Kept
<1>3. CASE Find
  <2>1. UNCHANGED <<snd, list, joined, torn>>
    BY <1>3 DEF Find, history
  <2>2. QED BY <2>1, SameFit DEF FitInv
<1>4. CASE Shift
  <2>1. /\ snd' = snd /\ joined' = joined
        /\ torn'
             = torn \cup {v \in {Owner[run.c]} :
                            \E q \in Senders : snd[q].pc # "idle" /\ snd[q].u = v}
    BY <1>4 DEF Shift
  <2>2. snd[s].u # Owner[run.c] /\ snd[s].u \notin torn
    BY <2>1
  <2>3. Walked(s)' = Walked(s) /\ list'[snd[s].u] = list[snd[s].u]
    BY <1>1, <1>4, <2>2, ShiftEffect, ShiftWalked
  <2>4. QED BY <2>1, <2>2, <2>3 DEF FitInv, Fit
<1>5. CASE Remove
  <2>1. /\ joined' = joined \ {run.c} /\ Kept(s) /\ Walked(s)' = Walked(s)
        /\ torn'
             = torn \cup {v \in {Owner[run.c]} :
                            \E q \in Senders : snd[q].pc # "idle" /\ snd[q].u = v}
    BY <1>5, RemoveWalked DEF Remove
  <2>2. snd[s].pc = "next" /\ snd[s].u # Owner[run.c] /\ snd[s].u \notin torn
    BY <2>1 DEF Kept
  <2>3. snd'[s].shared = snd[s].shared
    BY <1>1, <1>5, <2>2, RemoveWalked DEF Push
  <2>4. list'[snd[s].u] = list[snd[s].u]
    BY <1>1, <1>5, <2>2, RemoveEffect
  <2>5. Fit(s)
    BY <2>2 DEF FitInv
  <2>6. \A j \in 1..snd[s].len : Walked(s)[j] # run.c
    BY <2>2, <2>5 DEF Fit
  <2>7. snd'[s].len = snd[s].len /\ snd'[s].u = snd[s].u /\ Walked(s)' = Walked(s)
    BY <2>1 DEF Kept
  <2>8. \A j \in 1..snd[s].len : Walked(s)[j] \in joined' /\ Owner[Walked(s)[j]] = snd[s].u
    BY <2>1, <2>5, <2>6 DEF Fit
  <2>9. /\ snd[s].shared => snd[s].len <= list'[snd[s].u].len
        /\ \A j, k \in 1..snd[s].len : Walked(s)[j] = Walked(s)[k] => j = k
    BY <2>4, <2>5 DEF Fit
  <2>10. QED BY <2>3, <2>7, <2>8, <2>9 DEF Fit
<1>6. QED BY <1>2, <1>3, <1>4, <1>5 DEF RunStep

\* A push's own steps leave all fitting as long as no buffer is full.
LEMMA PushStepFit ==
  ASSUME HubAssumption, TypeOK, RunInv, ListInv, WalkType, HeldInv, OpenInv, FitInv, ~full,
         NEW s \in Senders, PushStep(s), ~full'
  PROVE  FitInv'
<1>1. list' = list /\ joined' = joined /\ torn' = torn
  BY DEF PushStep, Offer, Handoff, NextUser, Pushed, history
<1>2. ASSUME NEW r \in Senders, r # s, snd'[r].pc = "next", snd'[r].u \notin torn' PROVE Fit(r)'
  <2>1. snd'[r] = snd[r]
    BY <1>2, OtherKept
  <2>2. QED BY <1>1, <1>2, <2>1, SameFit DEF FitInv
<1>3. ASSUME snd'[s].pc = "next", snd'[s].u \notin torn' PROVE Fit(s)'
  <2>1. CASE Offer(s)
    <3>1. Onward(s) /\ snd[s].pc = "next"
      BY <2>1, OfferEffect
    <3>2. QED BY <1>1, <1>3, <3>1, OnwardFit DEF FitInv, Onward
  <2>2. CASE Handoff(s)
    BY <2>2 DEF Handoff, OpenInv
  <2>3. CASE NextUser(s)
    <3>1. PICK u \in Users : Taken(s, u)
      BY <1>1, <2>3, NextUserEffect DEF Taken
    <3>2. snd[s].users # {}
      BY <2>3 DEF NextUser
    <3>3. run.pc # "shift"
      BY <3>2 DEF HeldInv, RunInv
    <3>4. QED BY <1>1, <3>1, <3>3, TakenFit
  <2>4. CASE Pushed(s)
    BY <1>3, <2>4, PushedEffect DEF Idle
  <2>5. QED BY <2>1, <2>2, <2>3, <2>4 DEF PushStep
<1>4. QED BY <1>2, <1>3 DEF FitInv

\* Every step keeps FitInv.
LEMMA FitStep ==
  ASSUME HubAssumption, TypeOK, RunInv, ListInv, WalkType, HeldInv, OpenInv, FitInv, [Next]_vars
  PROVE  FitInv'
<1> SUFFICES ASSUME ~full' PROVE FitInv'
  BY DEF FitInv
<1>1. CASE RunStep
  <2>1. full' = full
    BY <1>1 DEF RunStep, Add, Find, Shift, Remove, history
  <2>2. QED BY <1>1, <2>1, RunStepFit DEF FitInv
<1>2. ASSUME NEW s \in Senders, PushStep(s) PROVE FitInv'
  <2>1. ~full
    BY <1>2 DEF PushStep, Offer, Handoff, NextUser, Pushed, history
  <2>2. QED BY <1>2, <2>1, PushStepFit
<1>3. CASE Broadcast \/ FromRedis \/ \E u \in Users : Send(u)
  <2>1. PICK s \in Senders, m \in Message :
          /\ (m.to \in Users /\ SendTo(s, m)) \/ BroadcastAll(s, m)
          /\ UNCHANGED <<list, run, conn, chan, down, history>>
    BY <1>3, Started
  <2>2. CASE m.to \in Users /\ SendTo(s, m)
    <3>1. PICK u \in Users : u = m.to
      BY <2>2
    <3>2. Taken(s, u) /\ mu.writer = "none"
      BY <2>1, <2>2, <3>1, SendEffect DEF Taken
    <3>3. run.pc # "shift" /\ joined' = joined
      BY <2>1, <3>2 DEF RunInv, history
    <3>4. Fit(s)'
      BY <3>2, <3>3, TakenFit
    <3>5. \A q \in Senders : q # s => snd'[q] = snd[q]
      BY <2>2 DEF SendTo, TypeOK
    <3>6. QED BY <2>1, <3>4, <3>5, SameFit DEF FitInv, history
  <2>3. CASE BroadcastAll(s, m)
    <3>1. /\ snd'[s].shared = FALSE /\ snd'[s].len = 0
          /\ \A q \in Senders : q # s => snd'[q] = snd[q]
      BY <2>3, BroadcastEffect
    <3>2. Fit(s)'
      BY <3>1 DEF Fit
    <3>3. QED BY <2>1, <3>1, <3>2, SameFit DEF FitInv, history
  <2>4. QED BY <2>1, <2>2, <2>3
<1>4. CASE \/ \E a \in Users \cup {All} : PushElsewhere(a)
           \/ \E c \in Clients : \/ Register(c) \/ ReaderEnds(c) \/ Leave(c)
                                 \/ Flush(c) \/ WriterEnds(c)
           \/ UNCHANGED vars
  <2>1. UNCHANGED <<list, snd, history>>
    BY <1>4 DEF PushElsewhere, Register, ReaderEnds, Leave, Flush, WriterEnds, vars
  <2>2. QED BY <2>1, SameFit DEF FitInv, history
<1>5. QED BY <1>1, <1>2, <1>3, <1>4 DEF Next
-----------------------------------------------------------------------------
(* A panic has a cause *)

\* The process goes down for one of the two causes only.
LEMMA DownStep ==
  ASSUME HubAssumption, TypeOK, ListInv, WalkType, OpenInv, FitInv, DownHasCause, [Next]_vars
  PROVE  DownHasCause'
<1> SUFFICES ASSUME down', ~full', torn' = {} PROVE FALSE
  BY DEF DownHasCause
<1>1. ~full /\ torn = {} /\ ~down
  <2>1. CASE UNCHANGED vars
    BY <2>1 DEF vars, history, DownHasCause
  <2>2. CASE Next
    <3>1. ~down
      BY <2>2 DEF Next
    <3>2. CASE RunStep
      <4>1. full' = full
        BY <3>2 DEF RunStep, Add, Find, Shift, Remove, history
      <4>2. CASE Add \/ Find
        BY <3>1, <4>2 DEF Add, Find, history
      <4>3. CASE Shift \/ Remove
        <5>1. PICK X : torn' = torn \cup X
          BY <4>3 DEF Shift, Remove
        <5>2. QED BY <3>1, <4>1, <5>1
      <4>4. QED BY <3>2, <4>2, <4>3 DEF RunStep
    <3>3. CASE \E s \in Senders : PushStep(s)
      <4>1. PICK s \in Senders : PushStep(s)
        BY <3>3
      <4>2. torn' = torn
        BY <4>1 DEF PushStep, Offer, Handoff, NextUser, Pushed, history
      <4>3. full' = full \/ full' = TRUE
        BY <4>1 DEF PushStep, Offer, Handoff, NextUser, Pushed, history
      <4>4. QED BY <3>1, <4>2, <4>3
    <3>4. CASE \/ Broadcast \/ FromRedis \/ (\E u \in Users : Send(u))
               \/ \E a \in Users \cup {All} : PushElsewhere(a)
               \/ \E c \in Clients : \/ Register(c) \/ ReaderEnds(c) \/ Leave(c)
                                     \/ Flush(c) \/ WriterEnds(c)
      BY <3>1, <3>4 DEF Broadcast, FromRedis, Send, PushElsewhere, Register, ReaderEnds, Leave,
         Flush, WriterEnds, history
    <3>5. QED BY <2>2, <3>2, <3>3, <3>4 DEF Next
  <2>3. QED BY <2>1, <2>2
<1>2. CASE Remove
  <2>1. run.c \in closed /\ run.pc = "shift"
    BY <1>2 DEF Remove
  <2>2. run.c \in joined
    BY <2>1 DEF ListInv
  <2>3. QED BY <1>1, <2>1, <2>2 DEF OpenInv
<1>3. ASSUME NEW s \in Senders, Offer(s) PROVE FALSE
  <2>1. At(s) \in closed /\ snd[s].pc = "next" /\ snd[s].i <= snd[s].len
    BY <1>1, <1>3 DEF Offer
  <2>2. At(s) = Walked(s)[snd[s].i] /\ snd[s].i \in 1..snd[s].len
    <3>1. snd[s].i \in Nat \ {0} /\ snd[s].len \in Nat
      BY <2>1 DEF WalkType, Walkable, Pos, TypeOK, Push
    <3>2. QED BY <2>1, <3>1 DEF At, Walked
  <2>3. Fit(s)
    BY <1>1, <2>1 DEF FitInv
  <2>4. At(s) \in joined
    BY <2>2, <2>3 DEF Fit
  <2>5. QED BY <1>1, <2>1, <2>4 DEF OpenInv
<1>4. CASE ~Remove /\ ~(\E s \in Senders : Offer(s))
  <2>1. down' = down
    BY <1>4 DEF vars, Next, RunStep, PushStep, Add, Find, Shift, Broadcast, FromRedis, Send,
       PushElsewhere, Handoff, NextUser, Pushed, Register, ReaderEnds, Leave, Flush, WriterEnds
  <2>2. QED BY <1>1, <2>1
<1>5. QED BY <1>2, <1>3, <1>4

\* Every step keeps the types.
LEMMA TypeStep ==
  ASSUME HubAssumption, TypeOK, RunInv, ListInv, WalkType, [Next]_vars
  PROVE  TypeOK' /\ RunInv'
<1>1. CASE UNCHANGED vars
  BY <1>1 DEF vars, conn, chan, history, TypeOK, RunInv
<1>2. CASE RunStep
  BY <1>2, RunStepType
<1>3. ASSUME NEW s \in Senders, PushStep(s) PROVE TypeOK' /\ RunInv'
  BY <1>3, PushStepType
<1>4. CASE \/ Broadcast \/ FromRedis
           \/ \E u \in Users : Send(u)
           \/ \E a \in Users \cup {All} : PushElsewhere(a)
  BY <1>4, NewPushType
<1>5. ASSUME NEW c \in Clients,
             Register(c) \/ ReaderEnds(c) \/ Leave(c) \/ Flush(c) \/ WriterEnds(c)
      PROVE  TypeOK' /\ RunInv'
  BY <1>5, ClientStepType
<1>6. QED BY <1>1, <1>2, <1>3, <1>4, <1>5 DEF Next

IInv == TypeOK /\ RunInv /\ ListInv /\ WalkType /\ HeldInv /\ OpenInv /\ FitInv /\ DownHasCause

\* The hub begins with all parts of IInv.
LEMMA InitIInv == ASSUME HubAssumption, Init PROVE IInv
<1>1. ASSUME NEW u \in Users
      PROVE  /\ Early[u] \in Seq(Clients) /\ Early[u] \in Seq(Clients \cup {Nobody})
             /\ Len(Early[u]) \in Nat /\ list[u].arr = Early[u] /\ list[u].len = Len(Early[u])
             /\ \A j \in 1..Len(Early[u]) : Early[u][j] \in joined /\ Owner[Early[u][j]] = u
             /\ \A j, k \in 1..Len(Early[u]) : Early[u][j] = Early[u][k] => j = k
  <2>1. Early[u] \in Seq(Clients)
    BY DEF HubAssumption
  <2>2. Early[u] \in Seq(Clients \cup {Nobody}) /\ Len(Early[u]) \in Nat
        /\ DOMAIN Early[u] = 1..Len(Early[u])
    BY <2>1
  <2>3. list[u].arr = Early[u] /\ list[u].len = Len(Early[u])
    BY DEF Init
  <2>4. \A j \in DOMAIN Early[u] : Early[u][j] \in joined
    BY DEF Init, Connected
  <2>5. QED BY <2>1, <2>2, <2>3, <2>4 DEF HubAssumption
<1>2. Connected \subseteq Clients
  <2>1. ASSUME NEW u \in Users, NEW i \in DOMAIN Early[u] PROVE Early[u][i] \in Clients
    BY <1>1
  <2>2. QED BY <2>1 DEF Connected
<1>3. TypeOK
  <2>1. list \in [Users -> Slice]
    BY <1>1 DEF Init, Slice
  <2>2. snd \in [Senders -> Push]
    BY IdlePush DEF Init
  <2>3. /\ reader \in [Clients -> {"absent", "reading", "leaving", "gone"}]
        /\ writer \in [Clients -> {"absent", "writing", "gone"}]
    BY DEF Init, Among
  <2>4. got \in [Clients -> Seq(Message)] /\ box \in [Clients -> Seq(Message)]
          /\ bus \in Seq(Message)
    BY DEF Init
  <2>5. QED BY <1>2, <2>1, <2>2, <2>3, <2>4 DEF TypeOK, Init, Free, Select
<1>4. RunInv
  BY DEF RunInv, Init, Free, Select
<1>5. ListInv
  <2>1. ASSUME NEW u \in Users PROVE ListOK(u)
    <3>1. run.pc # "shift"
      BY DEF Init, Select
    <3>2. PICK e : e = Early[u]
      OBVIOUS
    <3>3. PICK n \in Nat : n = Len(e)
      BY <1>1, <3>2
    <3>4. /\ list[u].len = n /\ list[u].arr = e
          /\ \A j \in 1..n : e[j] \in joined /\ Owner[e[j]] = u
          /\ \A j, k \in 1..n : e[j] = e[k] => j = k
      BY <1>1, <3>2, <3>3
    <3>5. QED BY <3>1, <3>3, <3>4 DEF ListOK, SliceOK
  <2>2. \A c \in Clients : reader[c] = "absent" => c \notin joined
    BY DEF Init, Among
  <2>3. QED BY <2>1, <2>2 DEF ListInv, Init, Select
<1>6. \A s \in Senders : snd[s].pc = "idle" /\ snd[s].users = {} /\ snd[s].held = FALSE
  BY DEF Init, Idle
<1>7. WalkType /\ HeldInv /\ FitInv
  BY <1>6 DEF WalkType, HeldInv, FitInv
<1>8. OpenInv /\ DownHasCause
  BY <1>6 DEF OpenInv, DownHasCause, Init, Select
<1>9. QED BY <1>3, <1>4, <1>5, <1>7, <1>8 DEF IInv

\* Every step keeps all parts of IInv together.
LEMMA NextIInv == ASSUME HubAssumption, IInv, [Next]_vars PROVE IInv'
<1>1. TypeOK' /\ RunInv'
  BY TypeStep DEF IInv
<1>2. ListInv'
  BY ListStep DEF IInv
<1>3. WalkType' /\ HeldInv' /\ OpenInv' /\ FitInv' /\ DownHasCause'
  BY <1>1, WalkTypeStep, HeldStep, OpenStep, FitStep, DownStep DEF IInv
<1>4. QED BY <1>1, <1>2, <1>3 DEF IInv

\* Whatever clients come and go, and however many pushes are under way, the process does
\* not panic on a closed channel (hub.go:66, :96, :128, :130) before a buffer was found
\* full or a client was removed from the slice that a Send was walking.
THEOREM PanicHasCause == ASSUME HubAssumption PROVE Spec => []DownHasCause
<1>1. Init => IInv
  BY InitIInv
<1>2. IInv /\ [Next]_vars => IInv'
  BY NextIInv
<1>3. IInv => DownHasCause
  BY DEF IInv
<1>4. QED BY <1>1, <1>2, <1>3, PTL DEF Spec
-----------------------------------------------------------------------------
(* Nobody is missed *)

\* Every connected client is in the slice of its user, at a place that is not being shifted,
\* unless it is the one that Run takes out.
Listed(c) ==
  LET u == Owner[c] IN
  \/ run.pc = "shift" /\ run.c = c
  \/ \E j \in 1..list[u].len :
       list[u].arr[j] = c /\ ~(run.pc = "shift" /\ Owner[run.c] = u /\ run.i = j)
ListedInv == \A c \in joined : Listed(c)

\* A push walks clients of the user it has come to, who is not one of those it has yet to
\* visit; and the clients it should reach are connected.
Own(s) ==
  LET p == snd[s] IN
  /\ \A j \in 1..p.len : Owner[Walked(s)[j]] = p.u
  /\ p.len # 0 => p.u \notin p.users
  /\ p.due \subseteq joined
OwnInv == \A s \in Senders : snd[s].pc # "idle" => Own(s)

\* The messages there have been: those pushed here come back through Redis when their push
\* is done.
Known(m) ==
  /\ m.via = "hub" => m.id <= pushes.here
  /\ m.via = "redis" => m.id <= pushes.here /\ (snd["service"].pc # "idle" => m.id < pushes.here)
  /\ m.via = "elsewhere" => m.id <= pushes.there

\* No message is pushed twice by the same way: what is on the bus is there once, and was not
\* pushed yet.
Elems(t) == {t[i] : i \in DOMAIN t}
Seen(c)  == Elems(Stream(c))
MsgInv ==
  /\ \A c \in Clients : \A m \in Seen(c) : Known(m)
  /\ \A k \in DOMAIN bus : /\ bus[k].via # "hub" /\ Known(bus[k])
                           /\ \A c \in Clients : bus[k] \notin Seen(c)
                           /\ snd["redis"].pc # "idle" => bus[k] # snd["redis"].m
  /\ \A k, l \in DOMAIN bus : bus[k] = bus[l] => k = l
  /\ snd["service"].pc # "idle" => snd["service"].m.via = "hub" /\ snd["service"].m.id = pushes.here
  /\ snd["redis"].pc # "idle" => snd["redis"].m.via # "hub" /\ Known(snd["redis"].m)

\* A client whose turn is yet to come has not got the message, any other has got it once.
OnceIn(t, m) == \E i \in DOMAIN t : \A j \in DOMAIN t : t[j] = m <=> j = i
Ahead(s, c)  == \E k \in snd[s].i..snd[s].len : Walked(s)[k] = c
Waits(s, c)  == Owner[c] \in snd[s].users \/ Ahead(s, c)
Served(s, c) == IF Waits(s, c) THEN snd[s].m \notin Seen(c) ELSE OnceIn(Stream(c), snd[s].m)
Due(s)       == \A c \in snd[s].due : Owner[c] \notin torn /\ Open(c) => Served(s, c)
DueInv       == ~full => \A s \in Senders : snd[s].pc = "next" => Due(s)

PushInv == IInv /\ ListedInv /\ OwnInv /\ MsgInv /\ DueInv
-----------------------------------------------------------------------------
(* Who is connected is in a slice *)

\* Registering puts the client into the slice and leaves the others there.
LEMMA AddListed ==
  ASSUME HubAssumption, TypeOK, RunInv, ListInv, ListedInv, Add, NEW c \in joined'
  PROVE  Listed(c)'
<1>0. PICK u \in Users : u = Owner[run.c]
  BY AddEffect
<1>1. run.pc = "add" /\ run'.pc = "select" /\ joined' = joined \cup {run.c}
  BY DEF Add, Select
<1>2. PICK n \in Nat : n = list[u].len
  BY DEF TypeOK, Slice
<1>3. /\ list'[u].len = n + 1 /\ list'[u].arr[n + 1] = run.c
      /\ \A j \in 1..n : list'[u].arr[j] = list[u].arr[j]
      /\ \A v \in Users : v # u => list'[v] = list[v]
  BY <1>0, <1>2, AddEffect
<1>4. CASE c = run.c
  <2>1. n + 1 \in 1..(n + 1)
    OBVIOUS
  <2>2. QED BY <1>0, <1>1, <1>3, <1>4, <2>1 DEF Listed
<1>5. CASE c \in joined
  <2>1. PICK v \in Users : v = Owner[c]
    BY <1>5 DEF TypeOK, HubAssumption
  <2>2. PICK j \in 1..list[v].len : list[v].arr[j] = c
    BY <1>1, <1>5, <2>1 DEF ListedInv, Listed
  <2>3. CASE v = u
    <3>1. j \in 1..n /\ j \in 1..(n + 1)
      BY <1>2, <2>2, <2>3
    <3>2. QED BY <1>1, <1>3, <2>1, <2>2, <2>3, <3>1 DEF Listed
  <2>4. CASE v # u
    <3>1. list'[v] = list[v]
      BY <1>3, <2>4
    <3>2. QED BY <1>1, <2>1, <2>2, <3>1 DEF Listed
  <2>5. QED BY <2>3, <2>4
<1>6. QED BY <1>1, <1>4, <1>5

\* Finding moves nobody.
LEMMA FindListed ==
  ASSUME HubAssumption, TypeOK, RunInv, ListInv, ListedInv, Find, NEW c \in joined'
  PROVE  Listed(c)'
<1>0. PICK u \in Users : u = Owner[run.c]
  BY DEF Find, RunInv, HubAssumption
<1>1. run.pc = "remove" /\ list' = list /\ joined' = joined
  BY DEF Find, history
<1>2. PICK j \in 1..list[Owner[c]].len : list[Owner[c]].arr[j] = c
  BY <1>1 DEF ListedInv, Listed
<1>3. PICK at : at = {k \in 1..list[Owner[run.c]].len : list[Owner[run.c]].arr[k] = run.c}
  OBVIOUS
<1>4. CASE at = {}
  <2>1. run' = Select
    BY <1>3, <1>4 DEF Find
  <2>2. QED BY <1>1, <1>2, <2>1 DEF Listed, Select
<1>5. CASE at # {}
  <2>1. PICK n \in Nat : n = list[u].len
    BY DEF TypeOK, Slice
  <2>2. at \in SUBSET (1..n)
    BY <1>0, <1>3, <2>1
  <2>3. \E k \in at : \A l \in at : k <= l
    BY <1>5, <2>1, <2>2, ListFirst
  <2>4. PICK i \in at : run' = [run EXCEPT !.pc = "shift", !.i = i]
    BY <1>3, <1>5, <2>3 DEF Find
  <2>5. run'.pc = "shift" /\ run'.c = run.c /\ run'.i = i /\ list[u].arr[i] = run.c
    BY <1>0, <1>3, <2>4 DEF TypeOK
  <2>6. CASE c = run.c
    BY <2>5, <2>6 DEF Listed
  <2>7. CASE c # run.c
    <3>1. ~(Owner[run.c] = Owner[c] /\ i = j)
      BY <1>0, <1>2, <2>5, <2>7
    <3>2. QED BY <1>1, <1>2, <2>5, <3>1 DEF Listed
  <2>8. QED BY <2>6, <2>7
<1>6. QED BY <1>4, <1>5

\* While the gap is closed every client that stays is in a place that is not overwritten next.
LEMMA ShiftListed ==
  ASSUME HubAssumption, TypeOK, RunInv, ListInv, ListedInv, Shift, NEW c \in joined'
  PROVE  Listed(c)'
<1>0. PICK u \in Users : u = Owner[run.c]
  BY ShiftEffect
<1>1. PICK n \in Nat : n = list[u].len
  BY DEF TypeOK, Slice
<1>2. PICK i \in 1..n : i = run.i /\ i < n
  BY <1>0, <1>1, ShiftEffect
<1>3. /\ list'[u].len = n
      /\ \A j \in 1..n : list'[u].arr[j] = IF j = i THEN list[u].arr[i + 1] ELSE list[u].arr[j]
      /\ \A v \in Users : v # u => list'[v] = list[v]
  <2>1. n <= Len(list[u].arr)
    BY <1>0, <1>1, ShiftEffect
  <2>2. \A j \in 1..n : j \in 1..Len(list[u].arr)
    <3>1. list[u].arr \in Seq(Clients \cup {Nobody})
      BY DEF TypeOK, Slice
    <3>2. Len(list[u].arr) \in Nat
      BY <3>1
    <3>3. QED BY <2>1, <3>2
  <2>3. QED BY <1>0, <1>1, <1>2, <2>2, ShiftEffect
<1>4. /\ run.pc = "shift" /\ joined' = joined
      /\ run'.pc = "shift" /\ run'.c = run.c /\ run'.i = i + 1
  BY <1>2 DEF Shift, TypeOK
<1>5. CASE c = run.c
  BY <1>4, <1>5 DEF Listed
<1>6. CASE c # run.c
  <2>1. PICK v \in Users : v = Owner[c]
    BY <1>4 DEF TypeOK, HubAssumption
  <2>2. PICK j \in 1..list[v].len : list[v].arr[j] = c /\ ~(u = v /\ i = j)
    BY <1>0, <1>2, <1>4, <1>6, <2>1 DEF ListedInv, Listed
  <2>3. CASE v # u
    <3>1. list'[v] = list[v]
      BY <1>3, <2>3
    <3>2. QED BY <1>0, <1>4, <2>1, <2>2, <2>3, <3>1 DEF Listed
  <2>4. CASE v = u /\ j = i + 1
    <3>1. list'[u].arr[i] = c /\ i # i + 1 /\ i \in 1..list'[u].len
      BY <1>1, <1>2, <1>3, <2>2, <2>4
    <3>2. QED BY <1>4, <2>1, <2>4, <3>1 DEF Listed
  <2>5. CASE v = u /\ j # i + 1
    <3>1. j # i /\ j \in 1..n /\ list[u].arr[j] = c
      BY <1>1, <2>2, <2>5
    <3>2. list'[u].arr[j] = c /\ j \in 1..list'[u].len
      BY <1>3, <3>1
    <3>3. QED BY <1>4, <2>1, <2>5, <3>2 DEF Listed
  <2>6. QED BY <2>3, <2>4, <2>5
<1>7. QED BY <1>5, <1>6

\* Cutting off takes the one client that leaves.
LEMMA RemoveListed ==
  ASSUME HubAssumption, TypeOK, RunInv, ListInv, ListedInv, Remove, NEW c \in joined'
  PROVE  Listed(c)'
<1>0. PICK u \in Users : u = Owner[run.c]
  BY RemoveEffect
<1>1. PICK n \in Pos : n = list[u].len
  BY <1>0, RemoveEffect
<1>2. /\ run.i = n /\ list'[u].len = n - 1
      /\ n # 1 => list'[u].arr = list[u].arr
      /\ \A v \in Users : v # u => list'[v] = list[v]
  BY <1>0, <1>1, RemoveEffect
<1>3. run.pc = "shift" /\ joined' = joined \ {run.c} /\ run'.pc = "select"
  BY DEF Remove, Select
<1>4. PICK v \in Users : v = Owner[c]
  BY <1>3 DEF TypeOK, HubAssumption
<1>5. PICK j \in 1..list[v].len : list[v].arr[j] = c /\ ~(u = v /\ n = j)
  BY <1>0, <1>2, <1>3, <1>4 DEF ListedInv, Listed
<1>6. CASE v = u
  <2>1. j \in 1..(n - 1) /\ n # 1
    BY <1>1, <1>5, <1>6 DEF Pos
  <2>2. list'[u].arr[j] = c /\ j \in 1..list'[u].len
    BY <1>2, <1>5, <1>6, <2>1
  <2>3. QED BY <1>3, <1>4, <1>6, <2>2 DEF Listed
<1>7. CASE v # u
  <2>1. list'[v] = list[v]
    BY <1>2, <1>7
  <2>2. QED BY <1>3, <1>4, <1>5, <2>1 DEF Listed
<1>8. QED BY <1>6, <1>7

\* Every step keeps every connected client listed.
LEMMA ListedStep ==
  ASSUME HubAssumption, TypeOK, RunInv, ListInv, ListedInv, [Next]_vars
  PROVE  ListedInv'
<1>1. CASE RunStep
  BY <1>1, AddListed, FindListed, ShiftListed, RemoveListed DEF RunStep, ListedInv
<1>2. CASE ~RunStep
  <2>1. list' = list /\ joined' = joined
    BY <1>2 DEF Next, PushStep, Offer, Handoff, NextUser, Pushed, Broadcast, FromRedis, Send,
       PushElsewhere, Register, ReaderEnds, Leave, Flush, WriterEnds, history, vars
  <2>2. run' = run \/ (run.pc = "select" /\ run'.pc \in {"add", "remove"})
    <3>1. CASE \/ \E s \in Senders : Handoff(s)
               \/ \E c \in Clients : Register(c) \/ Leave(c)
      <4>1. CASE \E s \in Senders : Handoff(s)
        BY <4>1 DEF Handoff, ToRemove
      <4>2. ASSUME NEW c \in Clients, Register(c)
            PROVE  run.pc = "select" /\ run'.pc \in {"add", "remove"}
        BY <4>2 DEF Register
      <4>3. ASSUME NEW c \in Clients, Leave(c)
            PROVE  run.pc = "select" /\ run'.pc \in {"add", "remove"}
        BY <4>3 DEF Leave, ToRemove
      <4>4. QED BY <3>1, <4>1, <4>2, <4>3
    <3>2. CASE ~(\/ \E s \in Senders : Handoff(s)
                 \/ \E c \in Clients : Register(c) \/ Leave(c))
      BY <1>2, <3>2 DEF Next, PushStep, Offer, NextUser, Pushed, Broadcast, FromRedis, Send,
         PushElsewhere, ReaderEnds, Flush, WriterEnds, vars
    <3>3. QED BY <3>1, <3>2
  <2>3. ASSUME NEW c \in joined PROVE Listed(c)'
    BY <2>1, <2>2, <2>3 DEF ListedInv, Listed
  <2>4. QED BY <2>1, <2>3 DEF ListedInv
<1>3. QED BY <1>1, <1>2
-----------------------------------------------------------------------------
(* A push walks its own user's clients *)

\* Registering puts into the array of a push clients of its user only.
LEMMA AddOwn ==
  ASSUME HubAssumption, TypeOK, RunInv, ListInv, WalkType, OwnInv, Add,
         NEW s \in Senders, snd'[s].pc # "idle"
  PROVE  Own(s)'
<1>1. Kept(s) /\ snd'[s].due = snd[s].due /\ joined \subseteq joined'
  BY AddWalked DEF Add
<1>2. Own(s) /\ Walkable(s)
  BY <1>1 DEF OwnInv, WalkType, Kept
<1>3. PICK n \in Nat : n = snd[s].len
  BY DEF TypeOK, Push
<1>4. n <= Len(Walked(s)) /\ Len(Walked(s)) \in Nat
  <2>1. Len(Walked(s)) \in Nat
    BY WalkedSeq DEF Walked, TypeOK
  <2>2. QED BY <1>2, <1>3, <2>1 DEF Walkable
<1>5. ASSUME NEW j \in 1..n PROVE Owner[Walked(s)'[j]] = snd[s].u
  <2>1. j \in 1..Len(Walked(s))
    BY <1>4
  <2>2. Owner[Walked(s)[j]] = snd[s].u
    BY <1>2, <1>3 DEF Own
  <2>3. Walked(s)'[j] = Walked(s)[j] \/ (snd[s].u = Owner[run.c] /\ Walked(s)'[j] = run.c)
    BY <2>1, AddWalked
  <2>4. QED BY <2>2, <2>3
<1>6. snd'[s].len = n /\ snd'[s].u = snd[s].u /\ snd'[s].users = snd[s].users
  BY <1>1, <1>3 DEF Kept
<1>7. n # 0 => snd[s].u \notin snd[s].users
  BY <1>2, <1>3 DEF Own
<1>8. snd'[s].due \subseteq joined'
  BY <1>1, <1>2 DEF Own
<1>9. QED BY <1>5, <1>6, <1>7, <1>8 DEF Own

\* Closing a gap moves clients of one user within the slice of that user.
LEMMA ShiftOwn ==
  ASSUME HubAssumption, TypeOK, RunInv, ListInv, WalkType, OwnInv, Shift,
         NEW s \in Senders, snd[s].pc # "idle"
  PROVE  Own(s)'
<1>1. snd' = snd /\ joined' = joined /\ Len(Walked(s)) \in Nat
  <2>1. Len(Walked(s)) \in Nat
    BY WalkedSeq DEF Walked, TypeOK
  <2>2. QED BY <2>1 DEF Shift
<1>2. Own(s) /\ Walkable(s)
  BY DEF OwnInv, WalkType
<1>3. PICK n \in Nat : n = snd[s].len
  BY DEF TypeOK, Push
<1>4. n <= Len(Walked(s))
  BY <1>2, <1>3 DEF Walkable
<1>5. ASSUME NEW j \in 1..n PROVE Owner[Walked(s)'[j]] = snd[s].u
  <2>1. j \in 1..Len(Walked(s))
    BY <1>1, <1>4
  <2>2. Owner[Walked(s)[j]] = snd[s].u
    BY <1>2, <1>3 DEF Own
  <2>3. Walked(s)'[j] = Walked(s)[j] \/ Owner[Walked(s)'[j]] = snd[s].u
    BY <2>1, ShiftWalked
  <2>4. QED BY <2>2, <2>3
<1>6. /\ n # 0 => snd[s].u \notin snd[s].users
      /\ snd[s].due \subseteq joined
  BY <1>2, <1>3 DEF Own
<1>7. QED BY <1>1, <1>3, <1>5, <1>6 DEF Own

\* Cutting off moves nobody into another's array.
LEMMA RemoveOwn ==
  ASSUME HubAssumption, TypeOK, RunInv, ListInv, WalkType, OwnInv, Remove,
         NEW s \in Senders, snd'[s].pc # "idle"
  PROVE  Own(s)'
<1>1. Kept(s) /\ snd'[s].due = snd[s].due \ {run.c} /\ Walked(s)' = Walked(s)
  BY RemoveWalked
<1>2. joined' = joined \ {run.c}
  BY DEF Remove
<1>3. Own(s)
  BY <1>1 DEF OwnInv, Kept
<1>4. QED BY <1>1, <1>2, <1>3 DEF Own, Kept

\* A push that is left alone, or goes on.
LEMMA SameOwn ==
  ASSUME NEW s \in Senders, snd'[s] = snd[s] \/ Onward(s), list' = list, joined' = joined, Own(s)
  PROVE  Own(s)'
<1>1. /\ Walked(s)' = Walked(s) /\ snd'[s].len = snd[s].len /\ snd'[s].u = snd[s].u
      /\ snd'[s].users = snd[s].users /\ snd'[s].due = snd[s].due
  BY DEF Walked, Onward
<1>2. QED BY <1>1 DEF Own

\* A slice just taken is of the user the push has come to, who is not before it any more.
LEMMA TakenOwn ==
  ASSUME TypeOK, ListInv, NEW s \in Senders, NEW u \in Users, Taken(s, u), joined' = joined,
         u \notin snd'[s].users, snd'[s].due \subseteq joined
  PROVE  Own(s)'
<1>1. Walked(s)' = list[u].arr /\ snd'[s].u = u /\ snd'[s].len = list[u].len
  BY DEF Walked, Taken
<1>2. \A j \in 1..list[u].len : Owner[list[u].arr[j]] = u
  BY Sound
<1>3. QED BY <1>1, <1>2 DEF Own

\* The steps of a push keep OwnInv.
LEMMA PushStepOwn ==
  ASSUME HubAssumption, TypeOK, RunInv, ListInv, WalkType, OwnInv, NEW s \in Senders, PushStep(s)
  PROVE  OwnInv'
<1>1. list' = list /\ joined' = joined
  BY DEF PushStep, Offer, Handoff, NextUser, Pushed, history
<1>2. ASSUME NEW r \in Senders, r # s, snd'[r].pc # "idle" PROVE Own(r)'
  <2>1. snd'[r] = snd[r]
    BY <1>2, OtherKept
  <2>2. QED BY <1>1, <1>2, <2>1, SameOwn DEF OwnInv
<1>3. ASSUME snd'[s].pc # "idle" PROVE Own(s)'
  <2>1. CASE Offer(s)
    <3>1. Onward(s) /\ snd[s].pc = "next"
      BY <2>1, OfferEffect
    <3>2. QED BY <1>1, <3>1, SameOwn DEF OwnInv
  <2>2. CASE Handoff(s)
    <3>1. Onward(s) /\ snd[s].pc = "handoff"
      BY <2>2, HandoffEffect
    <3>2. QED BY <1>1, <3>1, SameOwn DEF OwnInv
  <2>3. CASE NextUser(s)
    <3>1. PICK u \in Users : /\ Taken(s, u) /\ snd'[s].users = snd[s].users \ {u}
                             /\ snd'[s].due = snd[s].due
      BY <1>1, <2>3, NextUserEffect DEF Taken
    <3>2. snd[s].pc = "next"
      BY <2>3 DEF NextUser
    <3>3. snd[s].due \subseteq joined
      BY <3>2 DEF OwnInv, Own
    <3>4. QED BY <1>1, <3>1, <3>3, TakenOwn
  <2>4. CASE Pushed(s)
    BY <1>3, <2>4, PushedEffect DEF Idle
  <2>5. QED BY <2>1, <2>2, <2>3, <2>4 DEF PushStep
<1>4. QED BY <1>2, <1>3 DEF OwnInv

\* A push that begins keeps OwnInv.
LEMMA StartOwn ==
  ASSUME HubAssumption, TypeOK, ListInv, WalkType, OwnInv, list' = list, joined' = joined,
         NEW s \in Senders, NEW m \in Message,
         (m.to \in Users /\ SendTo(s, m)) \/ BroadcastAll(s, m)
  PROVE  OwnInv'
<1>1. ASSUME NEW r \in Senders, r # s, snd'[r].pc # "idle" PROVE Own(r)'
  <2>1. snd'[r] = snd[r]
    <3>1. CASE m.to \in Users /\ SendTo(s, m)
      BY <1>1, <3>1 DEF SendTo, TypeOK
    <3>2. CASE BroadcastAll(s, m)
      BY <1>1, <3>2, BroadcastEffect
    <3>3. QED BY <3>1, <3>2
  <2>2. QED BY <1>1, <2>1, SameOwn DEF OwnInv
<1>2. Own(s)'
  <2>1. CASE m.to \in Users /\ SendTo(s, m)
    <3>1. PICK u \in Users : u = m.to
      BY <2>1
    <3>2. Taken(s, u) /\ snd'[s].users = {}
      BY <2>1, <3>1, SendEffect DEF Taken
    <3>3. snd'[s].due = {c \in joined : Owner[c] = m.to}
      BY <2>1, SendEffect
    <3>4. snd'[s].due \subseteq joined
      BY <3>3
    <3>5. QED BY <3>2, <3>4, TakenOwn
  <2>2. CASE BroadcastAll(s, m)
    <3>1. snd'[s].len = 0 /\ snd'[s].due = joined
      BY <2>2, BroadcastEffect
    <3>2. QED BY <3>1 DEF Own
  <2>3. QED BY <2>1, <2>2
<1>3. QED BY <1>1, <1>2 DEF OwnInv

\* Every step keeps OwnInv.
LEMMA OwnStep ==
  ASSUME HubAssumption, TypeOK, RunInv, ListInv, WalkType, OwnInv, [Next]_vars
  PROVE  OwnInv'
<1>1. CASE Add \/ Remove
  BY <1>1, AddOwn, RemoveOwn DEF OwnInv
<1>2. CASE Shift
  <2>1. snd' = snd
    BY <1>2 DEF Shift
  <2>2. QED BY <1>2, <2>1, ShiftOwn DEF OwnInv
<1>3. ASSUME NEW s \in Senders, PushStep(s) PROVE OwnInv'
  BY <1>3, PushStepOwn
<1>4. CASE Broadcast \/ FromRedis \/ \E u \in Users : Send(u)
  <2>1. PICK s \in Senders, m \in Message :
          /\ (m.to \in Users /\ SendTo(s, m)) \/ BroadcastAll(s, m)
          /\ UNCHANGED <<list, history>>
    BY <1>4, Started
  <2>2. QED BY <2>1, StartOwn DEF history
<1>5. CASE \/ Find \/ \E a \in Users \cup {All} : PushElsewhere(a)
           \/ \E c \in Clients : \/ Register(c) \/ ReaderEnds(c) \/ Leave(c)
                                 \/ Flush(c) \/ WriterEnds(c)
           \/ UNCHANGED vars
  <2>1. UNCHANGED <<list, snd, joined>>
    BY <1>5 DEF Find, PushElsewhere, Register, ReaderEnds, Leave, Flush, WriterEnds, history, vars
  <2>2. QED BY <2>1, SameOwn DEF OwnInv
<1>6. QED BY <1>1, <1>2, <1>3, <1>4, <1>5 DEF Next, RunStep
-----------------------------------------------------------------------------
(* What a client has got or will get *)

\* Two sequences of one length with the same elements are the same.
LEMMA SeqEqual ==
  ASSUME NEW S, NEW x \in Seq(S), NEW y \in Seq(S), Len(x) = Len(y),
         \A i \in 1..Len(x) : x[i] = y[i]
  PROVE  x = y
<1>1. PICK n \in Nat : n = Len(x)
  OBVIOUS
<1>2. x \in [1..n -> S] /\ y \in [1..n -> S]
  BY <1>1
<1>3. QED BY <1>1, <1>2

\* Appending to the second part is appending to the whole.
LEMMA CatAppend ==
  ASSUME NEW S, NEW g \in Seq(S), NEW b \in Seq(S), NEW m \in S
  PROVE  g \o Append(b, m) = Append(g \o b, m)
<1>1. Append(b, m) \in Seq(S) /\ g \o b \in Seq(S)
  OBVIOUS
<1> DEFINE x == g \o Append(b, m) y == Append(g \o b, m)
<1>2. x \in Seq(S) /\ y \in Seq(S)
  BY <1>1
<1>3. Len(x) = Len(y)
  OBVIOUS
<1>4. ASSUME NEW i \in 1..Len(x) PROVE x[i] = y[i]
  OBVIOUS
<1> HIDE DEF x, y
<1>5. x = y
  BY <1>2, <1>3, <1>4, SeqEqual
<1>6. QED BY <1>5 DEF x, y

\* Nothing put behind a sequence changes it.
LEMMA CatEmpty ==
  ASSUME NEW S, NEW g \in Seq(S)
  PROVE  g \o <<>> = g
<1>1. <<>> \in Seq(S)
  OBVIOUS
<1> DEFINE x == g \o <<>>
<1>2. x \in Seq(S) /\ Len(x) = Len(g)
  BY <1>1
<1>3. ASSUME NEW i \in 1..Len(g) PROVE x[i] = g[i]
  BY <1>1
<1> HIDE DEF x
<1>4. x = g
  BY <1>2, <1>3, SeqEqual
<1>5. QED BY <1>4 DEF x

\* An element of the second part is one of the whole.
LEMMA CatParts ==
  ASSUME NEW S, NEW g \in Seq(S), NEW b \in Seq(S), NEW i \in DOMAIN b
  PROVE  \E j \in DOMAIN (g \o b) : (g \o b)[j] = b[i]
<1>1. Len(g) \in Nat /\ Len(b) \in Nat /\ i \in 1..Len(b)
  OBVIOUS
<1>2. Len(g) + i \in 1..(Len(g) + Len(b))
  BY <1>1
<1>3. Len(g \o b) = Len(g) + Len(b) /\ DOMAIN (g \o b) = 1..(Len(g) + Len(b))
  OBVIOUS
<1>4. (g \o b)[Len(g) + i] = b[i]
  BY <1>1, <1>2
<1>5. QED BY <1>2, <1>3, <1>4

\* The effect of one more message on a stream.
LEMMA AppendEffect ==
  ASSUME NEW s \in Seq(Message), NEW m \in Message
  PROVE  /\ Elems(Append(s, m)) = Elems(s) \cup {m}
         /\ m \notin Elems(s) => OnceIn(Append(s, m), m)
         /\ \A w : w # m => (OnceIn(s, w) <=> OnceIn(Append(s, m), w))
<1>0. PICK t : t = Append(s, m)
  OBVIOUS
<1>1. PICK n \in Nat : n = Len(s) /\ DOMAIN s = 1..n
  OBVIOUS
<1>2. DOMAIN t = 1..(n + 1) /\ t[n + 1] = m /\ \A i \in 1..n : t[i] = s[i]
  BY <1>0, <1>1
<1>3. \A i \in 1..(n + 1) : i \in 1..n \/ i = n + 1
  OBVIOUS
<1>4. n + 1 \in 1..(n + 1) /\ n + 1 \notin 1..n /\ \A i \in 1..n : i \in 1..(n + 1)
  OBVIOUS
<1>5. {t[i] : i \in DOMAIN t} = {s[i] : i \in DOMAIN s} \cup {m}
  <2>1. ASSUME NEW i \in DOMAIN t PROVE t[i] \in {s[k] : k \in DOMAIN s} \cup {m}
    BY <1>1, <1>2, <1>3, <2>1
  <2>2. ASSUME NEW i \in DOMAIN s PROVE s[i] \in {t[k] : k \in DOMAIN t}
    BY <1>1, <1>2, <1>4, <2>2
  <2>3. m \in {t[k] : k \in DOMAIN t}
    BY <1>2, <1>4
  <2>4. QED BY <2>1, <2>2, <2>3
<1>6. ASSUME m \notin {s[i] : i \in DOMAIN s}
      PROVE  \E i \in DOMAIN t : \A j \in DOMAIN t : t[j] = m <=> j = i
  <2>1. \A j \in 1..n : s[j] # m
    BY <1>1, <1>6
  <2>2. \A j \in 1..(n + 1) : t[j] = m <=> j = n + 1
    BY <1>2, <1>3, <2>1
  <2>3. n + 1 \in DOMAIN t /\ \A j \in DOMAIN t : t[j] = m <=> j = n + 1
    BY <1>2, <1>4, <2>2
  <2>4. QED BY <2>3
<1>7. ASSUME NEW w, w # m
      PROVE  (\E i \in DOMAIN s : \A j \in DOMAIN s : s[j] = w <=> j = i) <=>
             (\E i \in DOMAIN t : \A j \in DOMAIN t : t[j] = w <=> j = i)
  <2>1. ASSUME NEW i \in 1..n, \A j \in 1..n : s[j] = w <=> j = i
        PROVE  \A j \in 1..(n + 1) : t[j] = w <=> j = i
    BY <1>2, <1>3, <1>4, <1>7, <2>1
  <2>2. ASSUME NEW i \in 1..(n + 1), \A j \in 1..(n + 1) : t[j] = w <=> j = i
        PROVE  i \in 1..n /\ \A j \in 1..n : s[j] = w <=> j = i
    BY <1>2, <1>3, <1>4, <1>7, <2>2
  <2>3. ASSUME NEW i \in DOMAIN s, \A j \in DOMAIN s : s[j] = w <=> j = i
        PROVE  \E k \in DOMAIN t : \A j \in DOMAIN t : t[j] = w <=> j = k
    <3>1. i \in DOMAIN t /\ \A j \in DOMAIN t : t[j] = w <=> j = i
      BY <1>1, <1>2, <1>4, <2>1, <2>3
    <3>2. QED BY <3>1
  <2>4. ASSUME NEW i \in DOMAIN t, \A j \in DOMAIN t : t[j] = w <=> j = i
        PROVE  \E k \in DOMAIN s : \A j \in DOMAIN s : s[j] = w <=> j = k
    <3>1. i \in DOMAIN s /\ \A j \in DOMAIN s : s[j] = w <=> j = i
      BY <1>1, <1>2, <2>2, <2>4
    <3>2. QED BY <3>1
  <2>5. QED BY <2>3, <2>4
<1>8. Elems(t) = Elems(s) \cup {m}
  BY <1>5 DEF Elems
<1>9. m \notin Elems(s) => OnceIn(t, m)
  BY <1>6 DEF Elems, OnceIn
<1>10. ASSUME NEW w, w # m PROVE OnceIn(s, w) <=> OnceIn(t, w)
  BY <1>7, <1>10 DEF OnceIn
<1>11. QED BY <1>0, <1>8, <1>9, <1>10

\* What a device was sent is a sequence of messages.
LEMMA StreamSeq ==
  ASSUME TypeOK, NEW c \in Clients
  PROVE  Stream(c) \in Seq(Message)
<1>1. got[c] \in Seq(Message) /\ box[c] \in Seq(Message)
  BY DEF TypeOK
<1>2. QED BY <1>1 DEF Stream

\* What a push puts in a buffer comes last in the stream of its client.
Delivers(s, c) ==
  /\ c = At(s) /\ Stream(c)' = Append(Stream(c), snd[s].m)
  /\ \A d \in Clients \ {c} : Stream(d)' = Stream(d)

\* A push at a client sends it the message, or nobody anything.
LEMMA OfferStream ==
  ASSUME HubAssumption, TypeOK, WalkType, NEW s \in Senders, Offer(s)
  PROVE  \/ box' = box /\ \A d \in Clients : Stream(d)' = Stream(d)
         \/ \E c \in Clients : Delivers(s, c)
<1>1. got' = got
  BY DEF Offer, conn
<1>2. CASE box' = box
  BY <1>1, <1>2 DEF Stream
<1>3. CASE box' # box
  <2>1. PICK c \in Clients : c = At(s) /\ box' = [box EXCEPT ![c] = Append(@, snd[s].m)]
    BY <1>3, OfferEffect DEF chan
  <2>2. got[c] \in Seq(Message) /\ box[c] \in Seq(Message) /\ snd[s].m \in Message
    BY DEF TypeOK, Push
  <2>3. box'[c] = Append(box[c], snd[s].m) /\ \A d \in Clients \ {c} : box'[d] = box[d]
    BY <2>1 DEF TypeOK
  <2>4. Stream(c)' = Append(Stream(c), snd[s].m)
    <3>1. Stream(c)' = got[c] \o Append(box[c], snd[s].m)
      BY <1>1, <2>3 DEF Stream
    <3>2. PICK g \in Seq(Message) : g = got[c]
      BY <2>2
    <3>3. PICK b \in Seq(Message) : b = box[c]
      BY <2>2
    <3>4. g \o Append(b, snd[s].m) = Append(g \o b, snd[s].m)
      BY <2>2, CatAppend
    <3>5. QED BY <3>1, <3>2, <3>3, <3>4 DEF Stream
  <2>5. ASSUME NEW d \in Clients \ {c} PROVE Stream(d)' = Stream(d)
    BY <1>1, <2>3 DEF Stream
  <2>6. QED BY <2>1, <2>4, <2>5 DEF Delivers
<1>4. QED BY <1>2, <1>3

\* Any other step leaves a stream as it is, or closes the connection.
LEMMA OtherStream ==
  ASSUME HubAssumption, TypeOK, [Next]_vars, \A s \in Senders : ~Offer(s), NEW c \in Clients
  PROVE  Stream(c)' = Stream(c) \/ (~Open(c)' /\ Seen(c)' \subseteq Seen(c))
<1>1. got \in [Clients -> Seq(Message)] /\ box \in [Clients -> Seq(Message)]
      /\ reader \in [Clients -> {"absent", "reading", "leaving", "gone"}]
      /\ writer \in [Clients -> {"absent", "writing", "gone"}]
  BY DEF TypeOK
<1>2. got[c] \in Seq(Message) /\ box[c] \in Seq(Message) /\ <<>> \in Seq(Message)
  BY <1>1
<1>3. \A t \in Seq(Message) : <<>> \o t = t /\ t \o <<>> = t
  <2>1. ASSUME NEW t \in Seq(Message) PROVE <<>> \o t = t
    OBVIOUS
  <2>2. QED BY <2>1, CatEmpty
<1>4. Seen(c) = {(got[c] \o box[c])[i] : i \in DOMAIN (got[c] \o box[c])}
  BY DEF Seen, Elems, Stream
<1>5. ASSUME NEW d \in Clients, Flush(d) PROVE Stream(c)' = Stream(c)
  <2>1. got' = [got EXCEPT ![d] = @ \o box[d]] /\ box' = [box EXCEPT ![d] = <<>>]
    BY <1>5 DEF Flush
  <2>2. CASE c = d
    <3>1. got'[c] = got[c] \o box[c] /\ box'[c] = <<>>
      BY <1>1, <2>1, <2>2
    <3>2. got[c] \o box[c] \in Seq(Message)
      BY <1>2
    <3>3. QED BY <1>3, <3>1, <3>2 DEF Stream
  <2>3. CASE c # d
    BY <1>1, <2>1, <2>3 DEF Stream
  <2>4. QED BY <2>2, <2>3
<1>6. ASSUME NEW d \in Clients, Leave(d) \/ WriterEnds(d)
      PROVE  Stream(c)' = Stream(c) \/ (~Open(c)' /\ Seen(c)' \subseteq Seen(c))
  <2>1. /\ got' = [got EXCEPT ![d] = <<>>]
        /\ box' = box \/ box' = [box EXCEPT ![d] = <<>>]
    BY <1>6 DEF Leave, WriterEnds, chan
  <2>2. CASE c = d
    <3>1. ~Open(c)'
      BY <1>1, <1>6, <2>2 DEF Leave, WriterEnds, Open
    <3>2. got'[c] = <<>> /\ box'[c] \in {box[c], <<>>}
      BY <1>1, <2>1, <2>2
    <3>3. Stream(c)' \in {box[c], <<>>}
      BY <1>2, <1>3, <3>2 DEF Stream
    <3>4. Seen(c)' \subseteq {box[c][i] : i \in DOMAIN box[c]}
      BY <3>3 DEF Seen, Elems
    <3>5. ASSUME NEW i \in DOMAIN box[c] PROVE box[c][i] \in Seen(c)
      <4>1. PICK g \in Seq(Message) : g = got[c]
        BY <1>2
      <4>2. PICK b \in Seq(Message) : b = box[c]
        BY <1>2
      <4>3. i \in DOMAIN b
        BY <4>2
      <4>4. PICK j \in DOMAIN (g \o b) : (g \o b)[j] = b[i]
        BY <4>3, CatParts
      <4>5. QED BY <1>4, <4>1, <4>2, <4>4
    <3>6. QED BY <3>1, <3>4, <3>5
  <2>3. CASE c # d
    BY <1>1, <2>1, <2>3 DEF Stream
  <2>4. QED BY <2>2, <2>3
<1>7. CASE ~(\E d \in Clients : Flush(d) \/ Leave(d) \/ WriterEnds(d))
  <2>1. got' = got /\ box' = box
    BY <1>7
      DEF Next, RunStep, Add, Find, Shift, Remove, PushStep, Handoff, NextUser, Pushed, Broadcast,
          FromRedis, Send, PushElsewhere, Register, ReaderEnds, conn, chan, vars
  <2>2. QED BY <2>1 DEF Stream
<1>8. QED BY <1>5, <1>6, <1>7

\* A connection that has ended stays ended.
LEMMA OpenKept ==
  ASSUME HubAssumption, TypeOK, ListInv, [Next]_vars, NEW c \in joined, Open(c)'
  PROVE  Open(c)
<1>1. c \in Clients /\ reader[c] # "absent"
  BY DEF ListInv, TypeOK
<1>2. ASSUME NEW d \in Clients, Register(d) \/ ReaderEnds(d) \/ Leave(d) \/ WriterEnds(d)
      PROVE  Open(c)
  <2>1. CASE Register(d)
    <3>1. c # d
      BY <1>1, <2>1 DEF Register
    <3>2. reader'[c] = reader[c] /\ writer'[c] = writer[c]
      BY <1>1, <2>1, <3>1 DEF Register, TypeOK
    <3>3. QED BY <3>2 DEF Open
  <2>2. CASE ReaderEnds(d)
    BY <1>1, <2>2 DEF ReaderEnds, TypeOK, Open
  <2>3. CASE Leave(d)
    BY <1>1, <2>3 DEF Leave, TypeOK, Open
  <2>4. CASE WriterEnds(d)
    BY <1>1, <2>4 DEF WriterEnds, TypeOK, Open
  <2>5. QED BY <1>2, <2>1, <2>2, <2>3, <2>4
<1>3. CASE ~(\E d \in Clients : Register(d) \/ ReaderEnds(d) \/ Leave(d) \/ WriterEnds(d))
  <2>1. reader' = reader /\ writer' = writer
    BY <1>3
      DEF Next, RunStep, Add, Find, Shift, Remove, PushStep, Offer, Handoff, NextUser, Pushed,
          Broadcast, FromRedis, Send, PushElsewhere, Flush, conn, vars
  <2>2. QED BY <2>1 DEF Open
<1>4. QED BY <1>2, <1>3
-----------------------------------------------------------------------------
(* No message is pushed twice by the same way *)

\* What a device has seen are messages.
LEMMA SeenMessages ==
  ASSUME TypeOK, NEW c \in Clients
  PROVE  Seen(c) \subseteq Message
<1>1. \A i \in DOMAIN Stream(c) : Stream(c)[i] \in Message
  BY StreamSeq
<1>2. QED BY <1>1 DEF Seen, Elems

\* A message that was pushed stays one that was pushed.
LEMMA KnownKept ==
  ASSUME TypeOK, TypeOK', NEW m \in Message, Known(m),
         pushes'.here >= pushes.here, pushes'.there >= pushes.there,
         snd'["service"].pc # "idle" => pushes'.here > pushes.here \/ snd["service"].pc # "idle"
  PROVE  Known(m)'
<1>1. /\ m.id \in Nat /\ pushes.here \in Nat /\ pushes.there \in Nat
      /\ pushes'.here \in Nat /\ pushes'.there \in Nat
  BY DEF TypeOK, Message
<1>2. QED BY <1>1 DEF Known

\* No push begins and nothing comes to the bus; clients get what is being pushed.
Busy == {s \in Senders : snd[s].pc # "idle"}

\* If nobody sees a message but of a push under way, MsgInv is kept.
LEMMA MsgSame ==
  ASSUME TypeOK, TypeOK', MsgInv, pushes' = pushes, bus' = bus,
         \A s \in Senders : snd'[s].pc # "idle" => s \in Busy /\ snd'[s].m = snd[s].m,
         \A c \in Clients : Seen(c)' \subseteq Seen(c) \cup {snd[s].m : s \in Busy}
  PROVE  MsgInv'
<1>1. "service" \in Senders /\ "redis" \in Senders /\ Senders = {"service", "redis"}
  BY DEF Senders
<1>2. ASSUME NEW m \in Message, Known(m) PROVE Known(m)'
  <2>1. pushes.here \in Nat /\ pushes.there \in Nat
    BY DEF TypeOK
  <2>2. pushes'.here >= pushes.here /\ pushes'.there >= pushes.there
    BY <2>1
  <2>3. snd'["service"].pc # "idle" => snd["service"].pc # "idle"
    BY <1>1 DEF Busy
  <2>4. QED BY <1>2, <2>2, <2>3, KnownKept
<1>3. ASSUME NEW s \in Busy
      PROVE  snd[s].m \in Message /\ Known(snd[s].m)
             /\ \A k \in DOMAIN bus : bus[k] # snd[s].m
  <2>1. s \in Senders /\ snd[s].pc # "idle"
    BY DEF Busy
  <2>2. snd[s].m \in Message
    BY <2>1 DEF TypeOK, Push
  <2>3. CASE s = "service"
    <3>1. snd[s].m.via = "hub" /\ snd[s].m.id = pushes.here /\ pushes.here \in Nat
      BY <2>1, <2>3 DEF MsgInv, TypeOK
    <3>2. Known(snd[s].m)
      BY <3>1 DEF Known
    <3>3. QED BY <2>2, <3>1, <3>2 DEF MsgInv
  <2>4. CASE s = "redis"
    BY <2>1, <2>2, <2>4 DEF MsgInv
  <2>5. QED BY <1>1, <2>1, <2>3, <2>4
<1>4. ASSUME NEW c \in Clients, NEW m \in Seen(c)'
      PROVE  Known(m)' /\ \A k \in DOMAIN bus : bus[k] # m
  <2>1. CASE m \in Seen(c)
    <3>1. m \in Message /\ Known(m)
      BY <2>1, SeenMessages DEF MsgInv
    <3>2. QED BY <1>2, <2>1, <3>1 DEF MsgInv
  <2>2. CASE m \in {snd[s].m : s \in Busy}
    BY <1>2, <1>3, <2>2
  <2>3. QED BY <1>4, <2>1, <2>2
<1>5. ASSUME NEW k \in DOMAIN bus
      PROVE  /\ bus[k].via # "hub" /\ Known(bus[k])'
             /\ snd'["redis"].pc # "idle" => bus[k] # snd'["redis"].m
  <2>1. bus[k] \in Message
    BY DEF TypeOK
  <2>2. bus[k].via # "hub" /\ Known(bus[k]) /\ (snd["redis"].pc # "idle" => bus[k] # snd["redis"].m)
    BY DEF MsgInv
  <2>3. PICK m \in Message : m = bus[k] /\ m = bus'[k]
    BY <2>1
  <2>4. Known(m)'
    BY <1>2, <2>2, <2>3
  <2>5. Known(bus[k])' <=> Known(m)'
    BY <2>3 DEF Known
  <2>6. QED BY <1>1, <2>2, <2>4, <2>5 DEF Busy
<1>6. ASSUME snd'["service"].pc # "idle"
      PROVE  snd'["service"].m.via = "hub" /\ snd'["service"].m.id = pushes'.here
  BY <1>1, <1>6 DEF MsgInv, Busy
<1>7. ASSUME snd'["redis"].pc # "idle"
      PROVE  snd'["redis"].m.via # "hub" /\ Known(snd["redis"].m)'
  <2>1. PICK m \in Message : m = snd["redis"].m /\ m = snd'["redis"].m
    BY <1>1, <1>7 DEF TypeOK, Push
  <2>2. m.via # "hub" /\ Known(m)
    BY <1>1, <1>7, <2>1 DEF MsgInv, Busy
  <2>3. Known(m)'
    BY <1>2, <2>2
  <2>4. QED BY <2>1, <2>2, <2>3 DEF Known
<1>8. QED BY <1>4, <1>5, <1>6, <1>7 DEF MsgInv

\* Devices that are sent nothing have seen what they had.
LEMMA SeenSame ==
  ASSUME UNCHANGED <<conn, chan>>, NEW c \in Clients
  PROVE  Seen(c)' = Seen(c)
BY DEF conn, chan, Seen, Stream

\* Something is pushed here.
LEMMA MsgHere ==
  ASSUME TypeOK, TypeOK', MsgInv, UNCHANGED <<conn, chan>>, bus' = bus, snd["service"].pc = "idle",
         snd'["redis"] = snd["redis"], pushes' = [pushes EXCEPT !.here = pushes.here + 1],
         snd'["service"].m.via = "hub", snd'["service"].m.id = pushes.here + 1
  PROVE  MsgInv'
<1>1. /\ pushes.here \in Nat /\ pushes.there \in Nat
      /\ pushes'.here = pushes.here + 1 /\ pushes'.there = pushes.there
  BY DEF TypeOK
<1>2. ASSUME NEW m \in Message, Known(m) PROVE Known(m)'
  BY <1>1, <1>2, KnownKept
<1>3. ASSUME NEW c \in Clients, NEW m \in Seen(c)'
      PROVE  Known(m)' /\ \A k \in DOMAIN bus : bus[k] # m
  <2>1. m \in Seen(c) /\ m \in Message
    BY <1>3, SeenSame, SeenMessages
  <2>2. QED BY <1>2, <2>1 DEF MsgInv
<1>4. ASSUME NEW k \in DOMAIN bus
      PROVE  /\ bus[k].via # "hub" /\ Known(bus[k])'
             /\ snd'["redis"].pc # "idle" => bus[k] # snd'["redis"].m
  <2>1. PICK m \in Message : m = bus[k] /\ m = bus'[k]
    BY DEF TypeOK
  <2>2. Known(m)'
    BY <1>2, <2>1 DEF MsgInv
  <2>3. Known(bus[k])' <=> Known(m)'
    BY <2>1 DEF Known
  <2>4. QED BY <2>2, <2>3 DEF MsgInv
<1>5. ASSUME snd'["redis"].pc # "idle"
      PROVE  snd'["redis"].m.via # "hub" /\ Known(snd["redis"].m)'
  <2>1. PICK m \in Message : m = snd["redis"].m /\ m = snd'["redis"].m
    BY DEF TypeOK, Push, Senders
  <2>2. m.via # "hub" /\ Known(m)
    BY <1>5, <2>1 DEF MsgInv
  <2>3. Known(m)'
    BY <1>2, <2>2
  <2>4. QED BY <2>1, <2>2, <2>3 DEF Known
<1>6. QED BY <1>1, <1>3, <1>4, <1>5 DEF MsgInv

\* A message is taken from the bus.
LEMMA MsgTaken ==
  ASSUME TypeOK, TypeOK', MsgInv, UNCHANGED <<conn, chan>>, bus # <<>>, bus' = Tail(bus),
         snd'["service"] = snd["service"], pushes' = pushes, snd'["redis"].m = Head(bus)
  PROVE  MsgInv'
<1>1. PICK n \in Nat : n = Len(bus) /\ n > 0 /\ DOMAIN bus = 1..n /\ bus \in Seq(Message)
  BY DEF TypeOK
<1>2. DOMAIN bus' = 1..(n - 1) /\ \A k \in 1..(n - 1) : bus'[k] = bus[k + 1] /\ k + 1 \in 1..n
  BY <1>1
<1>3. Head(bus) = bus[1] /\ 1 \in 1..n /\ Head(bus) \in Message
  BY <1>1
<1>4. ASSUME NEW m, Known(m) PROVE Known(m)'
  BY <1>4 DEF Known
<1>5. ASSUME NEW c \in Clients, NEW m \in Seen(c)'
      PROVE  Known(m)' /\ \A k \in DOMAIN bus' : bus'[k] # m
  <2>1. m \in Seen(c)
    BY <1>5, SeenSame
  <2>2. Known(m) /\ \A k \in 1..n : bus[k] # m
    BY <1>1, <2>1 DEF MsgInv
  <2>3. QED BY <1>2, <1>4, <2>2
<1>6. ASSUME NEW k \in DOMAIN bus'
      PROVE  bus'[k].via # "hub" /\ Known(bus[k])' /\ bus'[k] # snd'["redis"].m
  <2>1. PICK m : m = bus[k + 1] /\ m = bus'[k] /\ k + 1 \in 1..n /\ k + 1 # 1
    BY <1>2
  <2>2. m.via # "hub" /\ Known(m) /\ m # bus[1]
    BY <1>1, <1>3, <2>1 DEF MsgInv
  <2>3. Known(m)'
    BY <1>4, <2>2
  <2>4. QED BY <1>3, <2>1, <2>2, <2>3 DEF Known
<1>7. \A k, l \in DOMAIN bus' : bus'[k] = bus'[l] => k = l
  <2>1. ASSUME NEW k \in 1..(n - 1), NEW l \in 1..(n - 1), bus'[k] = bus'[l] PROVE k = l
    <3>1. bus[k + 1] = bus[l + 1] /\ k + 1 \in 1..n /\ l + 1 \in 1..n
      BY <1>2, <2>1
    <3>2. k + 1 = l + 1
      BY <1>1, <3>1 DEF MsgInv
    <3>3. QED BY <3>2
  <2>2. QED BY <1>2, <2>1
<1>8. snd'["redis"].m.via # "hub" /\ Known(snd["redis"].m)'
  <2>1. PICK m : m = bus[1] /\ m = snd'["redis"].m
    BY <1>3
  <2>2. m.via # "hub" /\ Known(m)
    BY <1>1, <1>3, <2>1 DEF MsgInv
  <2>3. Known(m)'
    BY <1>4, <2>2
  <2>4. QED BY <2>1, <2>2, <2>3 DEF Known
<1>9. QED BY <1>5, <1>6, <1>7, <1>8 DEF MsgInv

\* A message that is not known comes to the bus.
LEMMA MsgSent ==
  ASSUME TypeOK, TypeOK', MsgInv, UNCHANGED <<conn, chan>>,
         NEW m \in Message, ~Known(m), Known(m)', m.via # "hub", bus' = Append(bus, m),
         \A w \in Message : Known(w) => Known(w)',
         snd'["redis"] = snd["redis"],
         snd'["service"].pc # "idle" =>
           snd'["service"] = snd["service"] /\ pushes'.here = pushes.here
  PROVE  MsgInv'
<1>1. PICK n \in Nat : n = Len(bus) /\ DOMAIN bus = 1..n /\ bus \in Seq(Message)
  BY DEF TypeOK
<1>2. DOMAIN bus' = 1..(n + 1) /\ bus'[n + 1] = m /\ \A k \in 1..n : bus'[k] = bus[k]
  BY <1>1
<1>3. \A k \in 1..(n + 1) : k \in 1..n \/ k = n + 1
  OBVIOUS
<1>4. \A k \in 1..n : bus[k] \in Message /\ bus[k].via # "hub" /\ Known(bus[k]) /\ bus[k] # m
  BY <1>1 DEF MsgInv
<1>5. ASSUME NEW c \in Clients, NEW w \in Seen(c)'
      PROVE  Known(w)' /\ \A k \in DOMAIN bus' : bus'[k] # w
  <2>1. w \in Seen(c) /\ w \in Message
    BY <1>5, SeenSame, SeenMessages
  <2>2. Known(w) /\ w # m /\ \A k \in 1..n : bus[k] # w
    BY <1>1, <2>1 DEF MsgInv
  <2>3. QED BY <1>2, <1>3, <2>1, <2>2
<1>6. ASSUME snd'["redis"].pc # "idle"
      PROVE  /\ snd'["redis"].m.via # "hub" /\ Known(snd["redis"].m)' /\ snd'["redis"].m # m
             /\ \A k \in 1..n : bus[k] # snd'["redis"].m
  <2>1. PICK w \in Message : w = snd["redis"].m /\ w = snd'["redis"].m
    BY DEF TypeOK, Push, Senders
  <2>2. w.via # "hub" /\ Known(w) /\ w # m /\ \A k \in 1..n : bus[k] # w
    BY <1>1, <1>6, <2>1 DEF MsgInv
  <2>3. Known(w)'
    BY <2>2
  <2>4. QED BY <2>1, <2>2, <2>3 DEF Known
<1>7. ASSUME NEW k \in DOMAIN bus'
      PROVE  /\ bus'[k].via # "hub" /\ Known(bus[k])'
             /\ snd'["redis"].pc # "idle" => bus'[k] # snd'["redis"].m
  <2>1. PICK w : w = bus'[k]
    OBVIOUS
  <2>2. w.via # "hub" /\ Known(w)' /\ (snd'["redis"].pc # "idle" => w # snd'["redis"].m)
    <3>1. CASE k \in 1..n
      BY <1>2, <1>4, <1>6, <2>1, <3>1
    <3>2. CASE k = n + 1
      BY <1>2, <1>6, <2>1, <3>2
    <3>3. QED BY <1>2, <1>3, <3>1, <3>2
  <2>3. QED BY <2>1, <2>2 DEF Known
<1>8. \A k, l \in DOMAIN bus' : bus'[k] = bus'[l] => k = l
  <2>1. \A k, l \in 1..n : bus[k] = bus[l] => k = l
    BY <1>1 DEF MsgInv
  <2>2. QED BY <1>2, <1>3, <1>4, <2>1
<1>9. ASSUME snd'["service"].pc # "idle"
      PROVE  snd'["service"].m.via = "hub" /\ snd'["service"].m.id = pushes'.here
  BY <1>9 DEF MsgInv
<1>10. QED BY <1>5, <1>6, <1>7, <1>8, <1>9 DEF MsgInv
\* Delivery adds the message to what its client has seen, and to nothing else.
LEMMA OfferSeen ==
  ASSUME HubAssumption, TypeOK, WalkType, NEW s \in Senders, Offer(s), NEW c \in Clients
  PROVE  Seen(c)' \subseteq Seen(c) \cup {snd[s].m}
<1>1. CASE Stream(c)' = Stream(c)
  BY <1>1 DEF Seen
<1>2. CASE Stream(c)' # Stream(c)
  <2>1. Stream(c)' = Append(Stream(c), snd[s].m)
    BY <1>2, OfferStream DEF Delivers
  <2>2. Stream(c) \in Seq(Message) /\ snd[s].m \in Message
    BY StreamSeq DEF TypeOK, Push
  <2>3. QED BY <2>1, <2>2, AppendEffect DEF Seen
<1>3. QED BY <1>1, <1>2

\* A push at a client keeps MsgInv.
LEMMA OfferMsg ==
  ASSUME HubAssumption, TypeOK, TypeOK', WalkType, MsgInv, NEW s \in Senders, Offer(s)
  PROVE  MsgInv'
<1>1. Onward(s) /\ snd[s].pc = "next"
  BY OfferEffect
<1>2. pushes' = pushes /\ bus' = bus
  BY DEF Offer
<1>3. ASSUME NEW q \in Senders, snd'[q].pc # "idle" PROVE q \in Busy /\ snd'[q].m = snd[q].m
  <2>1. CASE q = s
    BY <1>1, <2>1 DEF Onward, Busy
  <2>2. CASE q # s
    BY <1>1, <1>3, <2>2 DEF Onward, Busy
  <2>3. QED BY <2>1, <2>2
<1>4. s \in Busy
  BY <1>1 DEF Busy
<1>5. ASSUME NEW c \in Clients PROVE Seen(c)' \subseteq Seen(c) \cup {snd[q].m : q \in Busy}
  BY <1>4, OfferSeen
<1>6. QED BY <1>2, <1>3, <1>5, MsgSame

\* A push that begins here has a message of its own.
LEMMA StartMsg ==
  ASSUME HubAssumption, TypeOK, TypeOK', MsgInv,
         Broadcast \/ FromRedis \/ \E u \in Users : Send(u)
  PROVE  MsgInv'
<1>1. PICK s \in Senders, m \in Message :
           /\ (m.to \in Users /\ SendTo(s, m)) \/ BroadcastAll(s, m)
           /\ snd[s].pc = "idle"
           /\ UNCHANGED <<list, run, conn, chan, down, history>>
           /\ \/ /\ s = "service" /\ m.via = "hub" /\ m.id = pushes.here + 1
                 /\ pushes' = [pushes EXCEPT !.here = pushes.here + 1] /\ bus' = bus
              \/ s = "redis" /\ m = Head(bus) /\ bus # <<>> /\ bus' = Tail(bus) /\ pushes' = pushes
  BY Started
<1>2. snd'[s].m = m /\ \A q \in Senders : q # s => snd'[q] = snd[q]
  <2>1. CASE m.to \in Users /\ SendTo(s, m)
    <3>1. snd'[s].m = m
      BY <2>1, SendEffect
    <3>2. QED BY <2>1, <3>1 DEF SendTo, TypeOK
  <2>2. CASE BroadcastAll(s, m)
    BY <2>2, BroadcastEffect
  <2>3. QED BY <1>1, <2>1, <2>2
<1>3. CASE s = "service" /\ m.via = "hub" /\ m.id = pushes.here + 1
           /\ pushes' = [pushes EXCEPT !.here = pushes.here + 1] /\ bus' = bus
  <2>1. snd'["redis"] = snd["redis"]
    BY <1>2, <1>3 DEF Senders
  <2>2. QED BY <1>1, <1>2, <1>3, <2>1, MsgHere
<1>4. CASE s = "redis" /\ m = Head(bus) /\ bus # <<>> /\ bus' = Tail(bus) /\ pushes' = pushes
  <2>1. snd'["service"] = snd["service"]
    BY <1>2, <1>4 DEF Senders
  <2>2. QED BY <1>1, <1>2, <1>4, <2>1, MsgTaken
<1>5. QED BY <1>1, <1>3, <1>4

\* A push of another instance has a message of its own.
LEMMA ElsewhereMsg ==
  ASSUME HubAssumption, TypeOK, TypeOK', MsgInv, NEW a \in Users \cup {All}, PushElsewhere(a)
  PROVE  MsgInv'
<1>1. /\ pushes.there \in Nat /\ pushes.here \in Nat
      /\ pushes'.there = pushes.there + 1 /\ pushes'.here = pushes.here
  BY DEF PushElsewhere, TypeOK
<1>2. PICK m : m = [id |-> pushes.there + 1, to |-> a, via |-> "elsewhere"]
  OBVIOUS
<1>3. m \in Message /\ m.via = "elsewhere" /\ m.id = pushes.there + 1
  BY <1>1, <1>2 DEF Message
<1>4. snd' = snd /\ UNCHANGED <<conn, chan>> /\ bus' = Append(bus, m)
  BY <1>1, <1>2 DEF PushElsewhere
<1>5. ~Known(m) /\ Known(m)'
  BY <1>1, <1>3 DEF Known
<1>6. \A w \in Message : Known(w) => Known(w)'
  BY <1>1, <1>4, KnownKept
<1>7. QED BY <1>1, <1>3, <1>4, <1>5, <1>6, MsgSent

\* What was pushed here is published when it is done.
LEMMA PublishedMsg ==
  ASSUME HubAssumption, TypeOK, TypeOK', MsgInv, Pushed("service"), bus' # bus
  PROVE  MsgInv'
<1>1. "service" \in Senders /\ "redis" \in Senders
  BY DEF Senders
<1>2. PICK p \in Push : p = snd["service"]
  BY <1>1 DEF TypeOK
<1>3. PICK m : m = [p.m EXCEPT !.via = "redis"]
  OBVIOUS
<1>4. /\ bus' = Append(bus, m) /\ p.pc = "next"
      /\ pushes' = pushes /\ UNCHANGED <<conn, chan>>
  BY <1>2, <1>3 DEF Pushed
<1>5. snd'["service"].pc = "idle" /\ snd'["redis"] = snd["redis"]
  BY <1>1, PushedEffect DEF Idle
<1>6. p.m \in Message /\ p.m.id = pushes.here /\ pushes.here \in Nat /\ pushes.there \in Nat
  BY <1>2, <1>4 DEF MsgInv, Push, TypeOK
<1>7. m \in Message /\ m.via = "redis" /\ m.id = pushes.here
  <2>1. PICK w \in Message : w = p.m
    BY <1>6
  <2>2. m = [w EXCEPT !.via = "redis"] /\ w.id = pushes.here
    BY <1>3, <1>6, <2>1
  <2>3. QED BY <2>2 DEF Message
<1>8. ~Known(m) /\ Known(m)'
  BY <1>2, <1>4, <1>5, <1>6, <1>7 DEF Known
<1>9. \A w \in Message : Known(w) => Known(w)'
  BY <1>4, <1>5, <1>6, KnownKept
<1>10. QED BY <1>4, <1>5, <1>7, <1>8, <1>9, MsgSent

\* Every step keeps messages apart.
LEMMA MsgStep ==
  ASSUME HubAssumption, TypeOK, TypeOK', RunInv, ListInv, WalkType, MsgInv, [Next]_vars
  PROVE  MsgInv'
<1>1. CASE \E s \in Senders : Offer(s)
  BY <1>1, OfferMsg
<1>2. CASE Broadcast \/ FromRedis \/ \E u \in Users : Send(u)
  BY <1>2, StartMsg
<1>3. CASE \E a \in Users \cup {All} : PushElsewhere(a)
  BY <1>3, ElsewhereMsg
<1>4. CASE Pushed("service") /\ bus' # bus
  BY <1>4, PublishedMsg
<1>5. ASSUME \A s \in Senders : ~Offer(s), pushes' = pushes, bus' = bus,
             \A s \in Senders : snd'[s].pc # "idle" => snd[s].pc # "idle" /\ snd'[s].m = snd[s].m
      PROVE  MsgInv'
  <2>1. ASSUME NEW c \in Clients PROVE Seen(c)' \subseteq Seen(c)
    <3>1. CASE Stream(c)' = Stream(c)
      BY <3>1 DEF Seen
    <3>2. CASE Stream(c)' # Stream(c)
      BY <1>5, <3>2, OtherStream
    <3>3. QED BY <3>1, <3>2
  <2>2. \A s \in Senders : snd'[s].pc # "idle" => s \in Busy /\ snd'[s].m = snd[s].m
    BY <1>5 DEF Busy
  <2>3. QED BY <1>5, <2>1, <2>2, MsgSame
<1>6. CASE RunStep /\ \A s \in Senders : ~Offer(s)
  <2>1. pushes' = pushes /\ bus' = bus
    BY <1>6 DEF RunStep, Add, Find, Shift, Remove
  <2>2. CASE Add \/ Remove
    <3>1. \A s \in Senders : snd'[s].pc = snd[s].pc /\ snd'[s].m = snd[s].m
      BY <2>2, AddWalked, RemoveWalked DEF Kept
    <3>2. QED BY <1>5, <1>6, <2>1, <3>1
  <2>3. CASE Find \/ Shift
    <3>1. snd' = snd
      BY <2>3 DEF Find, Shift
    <3>2. QED BY <1>5, <1>6, <2>1, <3>1
  <2>4. QED BY <1>6, <2>2, <2>3 DEF RunStep
<1>7. ASSUME NEW s \in Senders, Handoff(s) \/ NextUser(s) \/ (Pushed(s) /\ bus' = bus),
             \A q \in Senders : ~Offer(q)
      PROVE  MsgInv'
  <2>1. pushes' = pushes /\ bus' = bus
    BY <1>7 DEF Handoff, NextUser, Pushed
  <2>2. \A q \in Senders : q # s => snd'[q] = snd[q]
    BY <1>7, OtherKept DEF PushStep
  <2>3. snd'[s].pc # "idle" => snd[s].pc # "idle" /\ snd'[s].m = snd[s].m
    <3>1. CASE Handoff(s)
      BY <3>1, HandoffEffect DEF Onward
    <3>2. CASE NextUser(s)
      BY <3>2, NextUserEffect DEF NextUser
    <3>3. CASE Pushed(s)
      BY <3>3, PushedEffect DEF Idle
    <3>4. QED BY <1>7, <3>1, <3>2, <3>3
  <2>4. QED BY <1>5, <1>7, <2>1, <2>2, <2>3
<1>8. CASE /\ \A s \in Senders : ~Offer(s)
           /\ \/ \E c \in Clients : \/ Register(c) \/ ReaderEnds(c) \/ Leave(c)
                                    \/ Flush(c) \/ WriterEnds(c)
              \/ UNCHANGED vars
  <2>1. UNCHANGED <<snd, bus, pushes>>
    BY <1>8 DEF Register, ReaderEnds, Leave, Flush, WriterEnds, vars
  <2>2. QED BY <1>5, <1>8, <2>1
<1>9. ASSUME NEW s \in Senders, Pushed(s), bus' # bus PROVE s = "service"
  BY <1>9 DEF Pushed
<1>10. QED BY <1>1, <1>2, <1>3, <1>4, <1>6, <1>7, <1>8, <1>9 DEF Next, PushStep
-----------------------------------------------------------------------------
(* The clients a push is due to are served *)

\* A push whose clients wait as they did, and get nothing or another message.
LEMMA StillDue ==
  ASSUME HubAssumption, TypeOK, ListInv, OwnInv, [Next]_vars,
         NEW s \in Senders, snd[s].pc = "next", Due(s),
         snd'[s].m = snd[s].m, snd'[s].due \subseteq snd[s].due, torn \subseteq torn',
         \A c \in snd'[s].due :
           Owner[c] \notin torn' /\ Open(c)' =>
             /\ Waits(s, c)' <=> Waits(s, c)
             /\ \/ Stream(c)' = Stream(c)
                \/ \E w \in Message : w # snd[s].m /\ Stream(c)' = Append(Stream(c), w)
  PROVE  Due(s)'
<1> SUFFICES ASSUME NEW c \in snd'[s].due, Owner[c] \notin torn', Open(c)'
             PROVE  Served(s, c)'
  BY DEF Due
<1>1. c \in joined /\ c \in Clients /\ snd[s].m \in Message
  BY DEF OwnInv, Own, TypeOK, Push
<1>2. Open(c)
  BY <1>1, OpenKept
<1>3. Served(s, c)
  BY <1>2 DEF Due
<1>4. Waits(s, c)' <=> Waits(s, c)
  OBVIOUS
<1>5. CASE Stream(c)' = Stream(c)
  BY <1>3, <1>4, <1>5 DEF Served, Seen
<1>6. ASSUME NEW w \in Message, w # snd[s].m, Stream(c)' = Append(Stream(c), w)
      PROVE  Served(s, c)'
  <2>1. PICK t \in Seq(Message) : t = Stream(c)
    BY <1>1, StreamSeq
  <2>2. /\ Elems(Append(t, w)) = Elems(t) \cup {w}
        /\ OnceIn(t, snd[s].m) <=> OnceIn(Append(t, w), snd[s].m)
    BY <1>6, AppendEffect
  <2>3. Seen(c) = Elems(t) /\ Seen(c)' = Elems(Append(t, w)) /\ Stream(c)' = Append(t, w)
    BY <1>6, <2>1 DEF Seen
  <2>4. QED BY <1>3, <1>4, <1>6, <2>1, <2>2, <2>3 DEF Served
<1>7. QED BY <1>5, <1>6

\* Run leaves the clients that are ahead of a push where they are, unless it is torn.
LEMMA RunWaits ==
  ASSUME HubAssumption, TypeOK, RunInv, ListInv, WalkType, FitInv, OwnInv, OwnInv', RunStep, ~full,
         NEW s \in Senders, snd[s].pc = "next", NEW c \in Clients, Owner[c] \notin torn'
  PROVE  Waits(s, c)' <=> Waits(s, c)
<1>1. Kept(s) /\ torn \subseteq torn'
  <2>1. CASE Add
    BY <2>1, AddWalked DEF Add
  <2>2. CASE Find
    BY <2>2 DEF Find, history, Kept
  <2>3. CASE Shift
    BY <2>3 DEF Shift, Kept
  <2>4. CASE Remove
    BY <2>4, RemoveWalked DEF Remove
  <2>5. QED BY <2>1, <2>2, <2>3, <2>4 DEF RunStep
<1> DEFINE p == snd[s]
<1>2. p.i \in Pos /\ p.len \in Nat /\ p.len <= Len(Walked(s)) /\ Len(Walked(s)) \in Nat
  <2>1. p \in Push /\ list \in [Users -> Slice]
    BY DEF TypeOK
  <2>2. Len(Walked(s)) \in Nat
    BY <2>1, WalkedSeq DEF Walked
  <2>3. QED BY <2>1, <2>2 DEF WalkType, Walkable, Push
<1>3. \A k \in p.i..p.len : k \in 1..p.len /\ k \in 1..Len(Walked(s))
  BY <1>2 DEF Pos
<1>4. ASSUME NEW k \in p.i..p.len PROVE Walked(s)'[k] = c <=> Walked(s)[k] = c
  <2>1. CASE Owner[c] # p.u
    <3>1. Owner[Walked(s)[k]] = p.u
      BY <1>3 DEF OwnInv, Own
    <3>2. Owner[Walked(s)'[k]] = p.u
      BY <1>1, <1>3 DEF OwnInv, Own, Kept
    <3>3. QED BY <2>1, <3>1, <3>2
  <2>2. CASE Owner[c] = p.u
    <3>1. p.u \notin torn
      BY <1>1, <2>2
    <3>2. CASE Add
      <4>1. p.shared => p.len <= list[p.u].len
        BY <3>1 DEF FitInv, Fit
      <4>2. p.u \in Users
        BY DEF TypeOK, Push
      <4>3. list[p.u].len \in Nat
        BY <4>2 DEF TypeOK, Slice
      <4>4. ~(p.shared /\ k = list[p.u].len + 1)
        BY <1>2, <1>3, <4>1, <4>3
      <4>5. QED BY <1>3, <3>2, <4>4, AddWalked
    <3>3. CASE Find
      BY <3>3 DEF Find, Walked
    <3>4. CASE Shift
      <4>1. Owner[run.c] # p.u
        BY <2>2, <3>4 DEF Shift
      <4>2. QED BY <1>3, <3>4, <4>1, ShiftWalked
    <3>5. CASE Remove
      BY <3>5, RemoveWalked
    <3>6. QED BY <3>2, <3>3, <3>4, <3>5 DEF RunStep
  <2>3. QED BY <2>1, <2>2
<1>5. Ahead(s, c)' <=> Ahead(s, c)
  BY <1>1, <1>4 DEF Ahead, Kept
<1>6. QED BY <1>1, <1>5 DEF Waits, Kept

\* Run changes who has the message and who waits for it for nobody who stays.
LEMMA RunStepDue ==
  ASSUME HubAssumption, TypeOK, RunInv, ListInv, WalkType, FitInv, OwnInv, OwnInv', DueInv, RunStep,
         [Next]_vars
  PROVE  DueInv'
<1> SUFFICES ASSUME ~full', NEW s \in Senders, snd'[s].pc = "next" PROVE Due(s)'
  BY DEF DueInv
<1>1. got' = got /\ box' = box /\ full' = full /\ torn \subseteq torn'
  BY DEF RunStep, Add, Find, Shift, Remove, conn, chan, history
<1>2. snd'[s].pc = snd[s].pc /\ snd'[s].m = snd[s].m /\ snd'[s].due \subseteq snd[s].due
  <2>1. CASE Add
    BY <2>1, AddWalked DEF Kept
  <2>2. CASE Find \/ Shift
    BY <2>2 DEF Find, Shift
  <2>3. CASE Remove
    BY <2>3, RemoveWalked DEF Kept
  <2>4. QED BY <2>1, <2>2, <2>3 DEF RunStep
<1>3. snd[s].pc = "next" /\ ~full /\ Due(s)
  BY <1>1, <1>2 DEF DueInv
<1>4. snd'[s].due \subseteq Clients
  BY <1>2 DEF TypeOK, Push
<1>5. \A c \in snd'[s].due : Owner[c] \notin torn' => (Waits(s, c)' <=> Waits(s, c))
  BY <1>3, <1>4, RunWaits
<1>6. \A c \in Clients : Stream(c)' = Stream(c)
  BY <1>1 DEF Stream
<1>7. QED BY <1>1, <1>2, <1>3, <1>4, <1>5, <1>6, StillDue

\* A push that is left alone.
LEMMA AloneDue ==
  ASSUME HubAssumption, TypeOK, ListInv, OwnInv, DueInv, [Next]_vars, ~full,
         NEW s \in Senders, snd'[s] = snd[s], snd[s].pc = "next", list' = list, torn' = torn,
         \A c \in Clients : Open(c)' =>
           \/ Stream(c)' = Stream(c)
           \/ \E w \in Message : w # snd[s].m /\ Stream(c)' = Append(Stream(c), w)
  PROVE  Due(s)'
<1>1. Walked(s)' = Walked(s)
  BY SameWalk
<1>2. \A c \in Clients : Waits(s, c)' <=> Waits(s, c)
  BY <1>1 DEF Waits, Ahead
<1>3. snd[s].due \subseteq Clients
  BY DEF TypeOK, Push
<1>4. Due(s)
  BY DEF DueInv
<1>5. QED BY <1>2, <1>3, <1>4, StillDue

\* A client that gets the message does not wait any more; the others wait as they did.
LEMMA OfferDue ==
  ASSUME HubAssumption, TypeOK, RunInv, ListInv, WalkType, FitInv, OwnInv, DueInv, [Next]_vars,
         ~full',
         NEW s \in Senders, Offer(s), snd'[s].pc = "next"
  PROVE  Due(s)'
<1> DEFINE p == snd[s] d == At(s)
<1>1. /\ d = Walked(s)[p.i] /\ d \in Clients /\ p.i \in 1..p.len /\ p.pc = "next"
      /\ Onward(s)
  BY OfferEffect
<1>2. list' = list /\ joined' = joined /\ torn' = torn
  BY DEF Offer
<1>3. ~full /\ Due(s) /\ p.i \in Nat /\ p.len \in Nat
  <2>1. ~full
    BY OfferEffect DEF TypeOK
  <2>2. QED BY <1>1, <2>1 DEF DueInv, TypeOK, Push
<1>4. Walked(s)' = Walked(s)
  BY <1>1, <1>2, OnwardWalk
<1>5. CASE UNCHANGED <<snd, chan>>
  <2>1. \A c \in Clients : Stream(c)' = Stream(c)
    BY <1>5 DEF Offer, conn, chan, Stream
  <2>2. snd'[s] = snd[s]
    BY <1>5
  <2>3. QED BY <1>1, <1>2, <1>3, <2>1, <2>2, AloneDue
<1>6. CASE ~UNCHANGED <<snd, chan>>
  <2>1. /\ snd'[s].i = p.i + 1
        /\ box' = [box EXCEPT ![d] = Append(@, p.m)]
    BY <1>6, OfferEffect DEF TypeOK
  <2>2. box' # box
    <3>1. box[d] \in Seq(Message) /\ p.m \in Message
      BY <1>1 DEF TypeOK, Push
    <3>2. box'[d] = Append(box[d], p.m)
      BY <1>1, <2>1 DEF TypeOK
    <3>3. Len(Append(box[d], p.m)) # Len(box[d])
      BY <3>1
    <3>4. QED BY <3>2, <3>3
  <2>3. PICK c \in Clients : Delivers(s, c)
    BY <2>2, OfferStream
  <2>4. /\ c = d /\ Stream(c)' = Append(Stream(c), p.m)
        /\ \A e \in Clients \ {c} : Stream(e)' = Stream(e)
    BY <2>3 DEF Delivers
  <2> SUFFICES ASSUME NEW e \in snd'[s].due, Owner[e] \notin torn', Open(e)'
               PROVE  Served(s, e)'
    BY DEF Due
  <2>5. e \in p.due /\ e \in joined /\ e \in Clients /\ snd'[s].m = p.m /\ p.m \in Message
    <3>1. e \in p.due /\ snd'[s].m = p.m
      BY <1>1 DEF Onward
    <3>2. p \in Push /\ p.due \subseteq joined
      BY <1>1 DEF TypeOK, OwnInv, Own
    <3>3. QED BY <3>1, <3>2 DEF Push
  <2>6. Open(e)
    BY <2>5, OpenKept
  <2>7. Served(s, e)
    BY <1>2, <1>3, <2>5, <2>6 DEF Due
  <2>8. /\ Waits(s, e) <=> Owner[e] \in p.users \/ \E k \in p.i..p.len : Walked(s)[k] = e
        /\ Waits(s, e)' <=> Owner[e] \in p.users \/ \E k \in (p.i + 1)..p.len : Walked(s)[k] = e
    BY <1>1, <1>4, <2>1 DEF Waits, Ahead, Onward
  <2>9. CASE e = d
    <3>1. p.i \in p.i..p.len
      BY <1>1, <1>3
    <3>2. Stream(e) \in Seq(Message) /\ p.m \notin Seen(e)
      BY <1>1, <2>5, <2>7, <2>8, <2>9, <3>1, StreamSeq DEF Served
    <3>3. OnceIn(Append(Stream(e), p.m), p.m)
      BY <2>5, <3>2, AppendEffect DEF Seen
    <3>4. Stream(e)' = Append(Stream(e), p.m)
      BY <2>4, <2>9
    <3>5. Owner[e] = p.u /\ p.u \notin p.users
      <4>1. p.len # 0
        BY <1>1, <1>3
      <4>2. QED BY <1>1, <2>9, <4>1 DEF OwnInv, Own
    <3>6. Fit(s)
      BY <1>1, <1>2, <1>3, <3>5 DEF FitInv
    <3>7. ASSUME NEW k \in (p.i + 1)..p.len PROVE Walked(s)[k] # e
      <4>1. k \in 1..p.len /\ k # p.i
        BY <1>1, <1>3
      <4>2. QED BY <1>1, <2>9, <3>6, <4>1 DEF Fit
    <3>8. ~Waits(s, e)'
      BY <2>8, <3>5, <3>7
    <3>9. OnceIn(Stream(e)', snd'[s].m)
      BY <2>5, <3>3, <3>4
    <3>10. QED BY <3>8, <3>9 DEF Served
  <2>10. CASE e # d
    <3>1. (\E k \in p.i..p.len : Walked(s)[k] = e) <=> \E k \in (p.i + 1)..p.len : Walked(s)[k] = e
      <4>1. \A k \in p.i..p.len : k = p.i \/ k \in (p.i + 1)..p.len
        BY <1>3
      <4>2. \A k \in (p.i + 1)..p.len : k \in p.i..p.len
        BY <1>3
      <4>3. QED BY <1>1, <2>10, <4>1, <4>2
    <3>2. Stream(e)' = Stream(e)
      BY <2>4, <2>5, <2>10
    <3>3. QED BY <2>5, <2>7, <2>8, <3>1, <3>2 DEF Served, Seen
  <2>11. QED BY <2>9, <2>10
<1>7. QED BY <1>5, <1>6

\* The clients of the user taken up wait in the slice instead.
LEMMA NextUserDue ==
  ASSUME HubAssumption, TypeOK, RunInv, ListInv, HeldInv, ListedInv, OwnInv, DueInv, [Next]_vars,
         ~full,
         NEW s \in Senders, NextUser(s)
  PROVE  Due(s)'
<1> DEFINE p == snd[s]
<1>1. PICK u \in p.users :
        /\ u \in Users
        /\ snd' \in [Senders -> Push]
        /\ snd'[s].pc = "next" /\ snd'[s].m = p.m /\ snd'[s].users = p.users \ {u} /\ snd'[s].u = u
        /\ snd'[s].shared = TRUE /\ snd'[s].len = list[u].len /\ snd'[s].i = 1
        /\ snd'[s].due = p.due
  BY NextUserEffect
<1>2. p.pc = "next" /\ p.i > p.len /\ UNCHANGED <<list, conn, chan, history>>
  BY DEF NextUser
<1>3. run.pc # "shift"
  BY <1>1 DEF HeldInv, RunInv
<1>4. Walked(s)' = list[u].arr
  BY <1>1, <1>2 DEF Walked
<1>5. p.i \in Nat /\ p.len \in Nat /\ list[u].len \in Nat /\ p.due \subseteq joined
        /\ p.due \subseteq Clients
  <2>1. p \in Push /\ list[u] \in Slice
    BY <1>1 DEF TypeOK
  <2>2. p.due \subseteq joined
    BY <1>2 DEF OwnInv, Own
  <2>3. QED BY <2>1, <2>2 DEF Push, Slice
<1>6. ASSUME NEW c \in p.due PROVE Waits(s, c)' <=> Waits(s, c)
  <2>1. Waits(s, c) <=> Owner[c] \in p.users
    <3>1. \A k \in p.i..p.len : FALSE
      BY <1>2, <1>5
    <3>2. QED BY <3>1 DEF Waits, Ahead
  <2>2. Waits(s, c)' <=> Owner[c] \in p.users \ {u} \/ \E k \in 1..list[u].len : list[u].arr[k] = c
    BY <1>1, <1>4 DEF Waits, Ahead
  <2>3. CASE Owner[c] = u
    <3>1. \E k \in 1..list[u].len : list[u].arr[k] = c
      BY <1>3, <1>5, <2>3 DEF ListedInv, Listed
    <3>2. QED BY <1>1, <2>1, <2>2, <2>3, <3>1
  <2>4. CASE Owner[c] # u
    <3>1. \A k \in 1..list[u].len : list[u].arr[k] # c
      BY <1>1, <2>4, Sound
    <3>2. QED BY <2>1, <2>2, <2>4, <3>1
  <2>5. QED BY <2>3, <2>4
<1>7. \A c \in Clients : Stream(c)' = Stream(c)
  BY <1>2 DEF Stream, conn, chan
<1>8. torn' = torn
  BY <1>2 DEF history
<1>9. Due(s)
  BY <1>2 DEF DueInv
<1>10. QED BY <1>1, <1>2, <1>5, <1>6, <1>7, <1>8, <1>9, StillDue

\* A push that begins: its clients wait, and have not got the message.
LEMMA StartDue ==
  ASSUME HubAssumption, TypeOK, RunInv, ListInv, ListedInv, MsgInv,
         NEW s \in Senders, NEW m \in Message,
         (m.to \in Users /\ SendTo(s, m)) \/ BroadcastAll(s, m),
         UNCHANGED <<list, run, conn, chan, down, history>>,
         \/ s = "service" /\ m.via = "hub" /\ m.id = pushes.here + 1
         \/ s = "redis" /\ m = Head(bus) /\ bus # <<>>
  PROVE  Due(s)'
<1>1. mu.writer = "none" /\ run.pc # "shift"
  BY SendEffect, BroadcastEffect DEF RunInv
<1>2. snd'[s].due \subseteq joined /\ snd'[s].m = m /\ joined \subseteq Clients
  <2>1. joined \subseteq Clients
    BY DEF TypeOK
  <2>2. snd'[s].due \subseteq joined /\ snd'[s].m = m
    <3>1. CASE m.to \in Users /\ SendTo(s, m)
      BY <3>1, SendEffect
    <3>2. CASE BroadcastAll(s, m)
      BY <3>2, BroadcastEffect
    <3>3. QED BY <3>1, <3>2
  <2>3. QED BY <2>1, <2>2
<1>3. ASSUME NEW c \in Clients PROVE m \notin Seen(c)
  <2>1. CASE s = "service" /\ m.via = "hub" /\ m.id = pushes.here + 1
    <3>1. ~Known(m)
      BY <2>1 DEF Known, TypeOK
    <3>2. QED BY <3>1 DEF MsgInv
  <2>2. CASE s = "redis" /\ m = Head(bus) /\ bus # <<>>
    <3>1. m = bus[1] /\ 1 \in DOMAIN bus
      BY <2>2 DEF TypeOK
    <3>2. QED BY <3>1 DEF MsgInv
  <2>3. QED BY <2>1, <2>2
<1>4. ASSUME NEW c \in snd'[s].due PROVE Waits(s, c)'
  <2>1. /\ c \in joined /\ Owner[c] \in Users
        /\ \E j \in 1..list[Owner[c]].len : list[Owner[c]].arr[j] = c
    BY <1>1, <1>2 DEF ListedInv, Listed, HubAssumption
  <2>2. CASE m.to \in Users /\ SendTo(s, m)
    <3>1. /\ snd'[s].u = m.to /\ snd'[s].shared = TRUE /\ snd'[s].i = 1
          /\ snd'[s].len = list[m.to].len
          /\ snd'[s].due = {d \in joined : Owner[d] = m.to}
      BY <2>2, SendEffect
    <3>2. Owner[c] = m.to
      BY <3>1
    <3>3. Walked(s)' = list[m.to].arr
      BY <3>1 DEF Walked
    <3>4. QED BY <2>1, <3>1, <3>2, <3>3 DEF Waits, Ahead
  <2>3. CASE BroadcastAll(s, m)
    <3>1. snd'[s].users = {u \in Users : list[u].len > 0}
      BY <2>3, BroadcastEffect
    <3>2. list[Owner[c]].len > 0
      BY <2>1 DEF TypeOK, Slice
    <3>3. QED BY <2>1, <3>1, <3>2 DEF Waits
  <2>4. QED BY <2>2, <2>3
<1>5. \A c \in Clients : Seen(c)' = Seen(c)
  BY SeenSame
<1>6. QED BY <1>2, <1>3, <1>4, <1>5 DEF Due, Served

\* A push sends to a device that waited, once, and then it waits no more.
LEMMA PushStepDue ==
  ASSUME HubAssumption, TypeOK, RunInv, ListInv, WalkType, HeldInv, OpenInv, FitInv, ListedInv,
         OwnInv,
         MsgInv, DueInv, [Next]_vars, NEW s \in Senders, PushStep(s)
  PROVE  DueInv'
<1> SUFFICES ASSUME ~full', NEW r \in Senders, snd'[r].pc = "next" PROVE Due(r)'
  BY DEF DueInv
<1>1. /\ list' = list /\ torn' = torn /\ ~full
      /\ Offer(s) \/ UNCHANGED <<got, box>>
  <2>1. CASE Offer(s)
    BY <2>1, OfferEffect DEF Offer, TypeOK
  <2>2. CASE Handoff(s) \/ NextUser(s) \/ Pushed(s)
    BY <2>2 DEF Handoff, NextUser, Pushed, history, conn, chan
  <2>3. QED BY <2>1, <2>2 DEF PushStep
<1>2. CASE r = s
  <2>1. ~Handoff(s)
    BY <1>1 DEF Handoff, OpenInv
  <2>2. ~Pushed(s)
    BY <1>2, PushedEffect DEF Idle
  <2>3. QED BY <1>1, <1>2, <2>1, <2>2, OfferDue, NextUserDue DEF PushStep
<1>3. CASE r # s
  <2>1. snd'[r] = snd[r]
    BY <1>3, OtherKept
  <2>2. ASSUME NEW c \in Clients
        PROVE  \/ Stream(c)' = Stream(c)
               \/ \E w \in Message : w # snd[r].m /\ Stream(c)' = Append(Stream(c), w)
    <3>1. CASE Offer(s)
      <4>1. snd[s].pc = "next" /\ snd[r].pc = "next" /\ snd[s].m \in Message
        BY <2>1, <3>1 DEF Offer, TypeOK, Push
      <4>2. snd[s].m # snd[r].m
        <5>1. {s, r} = {"service", "redis"}
          BY <1>3 DEF Senders
        <5>2. QED BY <4>1, <5>1 DEF MsgInv
      <4>3. \/ Stream(c)' = Stream(c)
            \/ Stream(c)' = Append(Stream(c), snd[s].m)
        BY <3>1, OfferStream DEF Delivers
      <4>4. QED BY <4>1, <4>2, <4>3
    <3>2. CASE UNCHANGED <<got, box>>
      BY <3>2 DEF Stream
    <3>3. QED BY <1>1, <3>1, <3>2
  <2>3. QED BY <1>1, <2>1, <2>2, AloneDue
<1>4. QED BY <1>2, <1>3

\* Every step keeps DueInv.
LEMMA DueStep ==
  ASSUME HubAssumption, IInv, ListedInv, OwnInv, OwnInv', MsgInv, DueInv, [Next]_vars
  PROVE  DueInv'
<1> USE DEF IInv
<1>1. CASE RunStep
  BY <1>1, RunStepDue
<1>2. CASE \E s \in Senders : PushStep(s)
  BY <1>2, PushStepDue
<1>3. CASE Broadcast \/ FromRedis \/ \E u \in Users : Send(u)
  <2>1. PICK s \in Senders, m \in Message :
           /\ (m.to \in Users /\ SendTo(s, m)) \/ BroadcastAll(s, m)
           /\ UNCHANGED <<list, run, conn, chan, down, history>>
           /\ \/ s = "service" /\ m.via = "hub" /\ m.id = pushes.here + 1
              \/ s = "redis" /\ m = Head(bus) /\ bus # <<>>
    BY <1>3, Started
  <2>2. Due(s)'
    BY <2>1, StartDue
  <2>3. ASSUME NEW r \in Senders, r # s, snd'[r].pc = "next", ~full PROVE Due(r)'
    <3>1. snd'[r] = snd[r]
      <4>1. CASE m.to \in Users /\ SendTo(s, m)
        <5>1. \A q \in Senders : q # s => snd'[q] = snd[q]
          BY <4>1, SendEffect
        <5>2. QED BY <2>3, <5>1
      <4>2. CASE BroadcastAll(s, m)
        BY <2>3, <4>2, BroadcastEffect
      <4>3. QED BY <2>1, <4>1, <4>2
    <3>2. \A c \in Clients : Stream(c)' = Stream(c)
      BY <2>1 DEF conn, chan, Stream
    <3>3. list' = list /\ torn' = torn
      BY <2>1 DEF history
    <3>4. QED BY <2>3, <3>1, <3>2, <3>3, AloneDue
  <2>4. full' = full
    BY <2>1 DEF history
  <2>5. QED BY <2>2, <2>3, <2>4 DEF DueInv
<1>4. CASE /\ \A s \in Senders : ~Offer(s)
           /\ \/ \E a \in Users \cup {All} : PushElsewhere(a)
              \/ \E c \in Clients : \/ Register(c) \/ ReaderEnds(c) \/ Leave(c)
                                    \/ Flush(c) \/ WriterEnds(c)
              \/ UNCHANGED vars
  <2>1. snd' = snd /\ list' = list /\ torn' = torn /\ full' = full
    BY <1>4 DEF PushElsewhere, Register, ReaderEnds, Leave, Flush, WriterEnds, history, vars
  <2>2. \A c \in Clients : Open(c)' => Stream(c)' = Stream(c)
    BY <1>4, OtherStream
  <2>3. ASSUME ~full', NEW s \in Senders, snd'[s].pc = "next" PROVE Due(s)'
    BY <2>1, <2>2, <2>3, AloneDue
  <2>4. QED BY <2>3 DEF DueInv
<1>5. QED BY <1>1, <1>2, <1>3, <1>4 DEF Next, PushStep
-----------------------------------------------------------------------------
(* What a push has done when it ends *)

\* The hub begins with all parts of PushInv.
LEMMA InitPushInv ==
  ASSUME HubAssumption, Init
  PROVE  PushInv
<1>1. IInv
  BY InitIInv
<1>2. \A s \in Senders : snd[s].pc = "idle"
  BY DEF Init, Idle
<1>3. ListedInv
  <2>1. ASSUME NEW c \in joined PROVE Listed(c)
    <3>1. PICK u \in Users : \E j \in DOMAIN Early[u] : c = Early[u][j]
      BY <2>1 DEF Init, Connected
    <3>2. PICK j \in DOMAIN Early[u] : c = Early[u][j]
      BY <3>1
    <3>3. Owner[c] = u /\ Early[u] \in Seq(Clients)
      BY <3>2 DEF HubAssumption
    <3>4. list[u].arr = Early[u] /\ list[u].len = Len(Early[u]) /\ run.pc = "select"
      BY DEF Init, Select
    <3>5. j \in 1..list[u].len
      BY <3>3, <3>4
    <3>6. QED BY <3>2, <3>3, <3>4, <3>5 DEF Listed
  <2>2. QED BY <2>1 DEF ListedInv
<1>4. OwnInv /\ DueInv
  BY <1>2 DEF OwnInv, DueInv
<1>5. MsgInv
  <2>1. DOMAIN bus = {}
    BY DEF Init
  <2>2. ASSUME NEW c \in Clients PROVE Seen(c) = {}
    <3>1. Stream(c) = <<>>
      BY DEF Init, Stream
    <3>2. DOMAIN <<>> = {}
      OBVIOUS
    <3>3. Elems(<<>>) = {}
      BY <3>2, Zenon DEF Elems
    <3>4. QED BY <3>1, <3>3 DEF Seen
  <2>3. QED BY <1>2, <2>1, <2>2 DEF MsgInv, Senders
<1>6. QED BY <1>1, <1>3, <1>4, <1>5 DEF PushInv

\* Every step keeps all parts of PushInv together.
LEMMA NextPushInv ==
  ASSUME HubAssumption, PushInv, [Next]_vars
  PROVE  PushInv'
<1>1. IInv /\ IInv'
  BY NextIInv DEF PushInv
<1>2. ListedInv'
  BY <1>1, ListedStep DEF PushInv, IInv
<1>3. OwnInv'
  BY <1>1, OwnStep DEF PushInv, IInv
<1>4. MsgInv'
  BY <1>1, MsgStep DEF PushInv, IInv
<1>5. DueInv'
  BY <1>3, DueStep DEF PushInv
<1>6. QED BY <1>1, <1>2, <1>3, <1>4, <1>5 DEF PushInv

\* A push that ends has no client left to serve.
LEMMA EndsServed ==
  ASSUME HubAssumption, PushInv, [Next]_vars, NEW s \in Senders, snd[s].pc = "next",
         snd'[s].pc = "idle",
         NEW c \in snd[s].due, ~full, Owner[c] \notin torn, Open(c)
  PROVE  Times(c, snd[s].m) = 1
<1> USE DEF PushInv, IInv
<1>1. Pushed(s)
  <2>1. CASE RunStep
    <3>1. CASE Add \/ Remove
      BY <3>1, AddWalked, RemoveWalked DEF Kept
    <3>2. CASE Find \/ Shift
      BY <3>2 DEF Find, Shift
    <3>3. QED BY <2>1, <3>1, <3>2 DEF RunStep
  <2>2. ASSUME NEW r \in Senders, PushStep(r) PROVE Pushed(s)
    <3>1. r = s
      BY <2>2, OtherKept
    <3>2. ~Offer(s) /\ ~Handoff(s) /\ ~NextUser(s)
      BY OfferEffect, HandoffEffect, NextUserEffect
    <3>3. QED BY <2>2, <3>1, <3>2 DEF PushStep
  <2>3. CASE Broadcast \/ FromRedis \/ \E u \in Users : Send(u)
    <3>1. PICK r \in Senders, m \in Message :
             ((m.to \in Users /\ SendTo(r, m)) \/ BroadcastAll(r, m)) /\ snd[r].pc = "idle"
      BY <2>3, Started
    <3>2. snd'[s] = snd[s]
      BY <3>1, SendEffect, BroadcastEffect
    <3>3. QED BY <3>2
  <2>4. CASE \/ \E a \in Users \cup {All} : PushElsewhere(a)
             \/ \E d \in Clients : \/ Register(d) \/ ReaderEnds(d) \/ Leave(d)
                                   \/ Flush(d) \/ WriterEnds(d)
             \/ UNCHANGED vars
    BY <2>4 DEF PushElsewhere, Register, ReaderEnds, Leave, Flush, WriterEnds, vars
  <2>5. QED BY <2>1, <2>2, <2>3, <2>4 DEF Next
<1>2. c \in Clients /\ snd[s].i \in Nat /\ snd[s].len \in Nat
  BY DEF TypeOK, Push
<1>3. snd[s].i > snd[s].len /\ snd[s].users = {} /\ UNCHANGED <<conn, chan>>
  BY <1>1 DEF Pushed
<1>4. ~Waits(s, c)
  <2>1. \A k \in snd[s].i..snd[s].len : FALSE
    BY <1>2, <1>3
  <2>2. QED BY <1>3, <2>1 DEF Waits, Ahead
<1>5. OnceIn(Stream(c), snd[s].m)
  BY <1>4 DEF DueInv, Due, Served
<1>6. Stream(c)' = Stream(c)
  BY <1>3 DEF Stream, conn, chan
<1>7. PICK i \in DOMAIN Stream(c) : \A j \in DOMAIN Stream(c) : Stream(c)[j] = snd[s].m <=> j = i
  BY <1>5 DEF OnceIn
<1>8. {j \in DOMAIN Stream(c)' : Stream(c)'[j] = snd[s].m} = {i}
  BY <1>6, <1>7
<1>9. Cardinality({i}) = 1
  BY FS_Singleton
<1>10. QED BY <1>8, <1>9 DEF Times

\* However Broadcast (hub.go:90-101), Send (:124-138) and the loop on the Redis channel
\* (:171-217) interleave with each other and with the clients that Run adds and removes
\* (:52-78): when a push ends, whoever was connected all the while and can be written to has
\* got the message once, if no buffer was ever full and no device of the same user left
\* during a Send.
THEOREM NobodyIsMissed == ASSUME HubAssumption PROVE Spec => NobodyMissed
<1>1. Init => PushInv
  BY InitPushInv
<1>2. PushInv /\ [Next]_vars => PushInv'
  BY NextPushInv
<1>3. PushInv /\ [Next]_vars =>
        [\A s \in Senders : snd[s].pc = "next" /\ snd'[s].pc = "idle" =>
           \A c \in snd[s].due : ~full /\ Owner[c] \notin torn /\ Open(c)
                                 => Times(c, snd[s].m) = 1]_vars
  BY EndsServed
<1>4. QED BY <1>1, <1>2, <1>3, PTL DEF Spec, NobodyMissed
=============================================================================
