-------------------------------- MODULE Hub --------------------------------
(***************************************************************************)
(* The hub that pushes notifications to the connected clients of one       *)
(* server instance.  One goroutine (Run) adds and removes clients under    *)
(* the write lock; a push by the notification service, and one for each    *)
(* message of the Redis channel the instances share, puts the message in   *)
(* the buffer of every client of the user it is for (Send), or of all      *)
(* users (Broadcast); each client has a goroutine that writes its buffer   *)
(* to the connection and one that waits for the connection to end.         *)
(*                                                                         *)
(* Send copies the user's slice of clients under the lock and walks it     *)
(* without: the copy shares the array that Run shifts in place when it     *)
(* removes a client.  So a slice is an array and a length, an array grows  *)
(* by doubling, and an element is moved by a step of its own.              *)
(***************************************************************************)
EXTENDS Naturals, Sequences, FiniteSets

CONSTANTS
  Clients, Users,
  Owner,        \* the user each client is a device of
  Early,        \* each user's clients connected at the start, in the order they came
  Nobody,       \* no client: an unused element of an array
  All,          \* the address of a broadcast
  Buf,          \* capacity of a client's buffer (256 in ServeWs)
  MaxPush, MaxElsewhere \* bounds: pushes here, and by other instances

ASSUME HubAssumption ==
  /\ Users # {} /\ Owner \in [Clients -> Users]
  /\ Early \in [Users -> Seq(Clients)]
  /\ \A u \in Users : /\ Len(Early[u]) <= 2
                      /\ \A i \in DOMAIN Early[u] : Owner[Early[u][i]] = u
                      /\ \A i, j \in DOMAIN Early[u] : Early[u][i] = Early[u][j] => i = j
  /\ Nobody \notin Clients /\ All \notin Users
  /\ Buf \in Nat \ {0} /\ MaxPush \in Nat /\ MaxElsewhere \in Nat

VARIABLES
  list,         \* the map of the hub: each user's slice of clients
  mu,           \* the lock: who reads, and whether Run waits for it or has it
  run,          \* the goroutine of Run
  snd,          \* the two goroutines that push
  reader, writer, \* the two goroutines of each client
  box, closed,  \* the buffered channel Send of each client
  got,          \* what has been written to each open connection
  bus,          \* messages on their way from Redis to this instance
  pushes,       \* pushes so far: here, and by other instances
  down,         \* the process has panicked
  joined,       \* history: clients added and not yet removed
  full,         \* history: a buffer was found full
  torn          \* history: users who lost a client during a Send to them

conn    == <<reader, writer, got>>
chan    == <<box, closed>>
history == <<joined, full, torn>>
vars    == <<list, mu, run, snd, conn, chan, bus, pushes, down, history>>

Senders == {"service", "redis"}     \* NotificationService's goroutine, subscribeToRedis
Message == [id : Nat, to : Users \cup {All}, via : {"hub", "redis", "elsewhere"}]
\* users: still to be visited; u, shared, arr, len, i: the slice walked, and how far;
\* c: the client it hands to Run; due: history, the clients the push should reach
Push    == [pc : {"idle", "next", "handoff"}, m : Message, held : BOOLEAN, users : SUBSET Users,
            u : Users, shared : BOOLEAN, arr : Seq(Clients \cup {Nobody}), len : Nat, i : Nat,
            c : Clients \cup {Nobody}, due : SUBSET Clients]
NoUser  == CHOOSE u \in Users : TRUE
NoMsg   == [id |-> 1, to |-> All, via |-> "hub"]
Idle    == [pc |-> "idle", m |-> NoMsg, held |-> FALSE, users |-> {}, u |-> NoUser,
            shared |-> FALSE, arr |-> <<>>, len |-> 0, i |-> 1, c |-> Nobody, due |-> {}]
Empty   == [arr |-> <<>>, len |-> 0]
Select  == [pc |-> "select", c |-> Nobody, i |-> 0]
Free    == [readers |-> {}, writer |-> "none"]

Connected   == UNION {{Early[u][i] : i \in DOMAIN Early[u]} : u \in Users}
Among(x, y) == [c \in Clients |-> IF c \in Connected THEN x ELSE y]

Init ==
  /\ list = [u \in Users |-> [arr |-> Early[u], len |-> Len(Early[u])]]
  /\ mu = Free /\ run = Select
  /\ snd = [s \in Senders |-> Idle]
  /\ reader = Among("reading", "absent") /\ writer = Among("writing", "absent")
  /\ got = [c \in Clients |-> <<>>]
  /\ box = [c \in Clients |-> <<>>] /\ closed = {}
  /\ bus = <<>> /\ pushes = [here |-> 0, there |-> 0] /\ down = FALSE
  /\ joined = Connected /\ full = FALSE /\ torn = {}

-----------------------------------------------------------------------------
(* Slices *)

\* The array a full slice is copied to when a client is appended to it.
Grown(s, c) ==
  LET cap == IF s.len = 0 THEN 1 ELSE 2 * s.len IN
  [j \in 1..cap |-> IF j <= s.len THEN s.arr[j] ELSE IF j = s.len + 1 THEN c ELSE Nobody]

\* Fault: the new client takes the place of the user's other devices.
FaultAppended(s, c) == [arr |-> <<c>>, len |-> 1]

\* append(s, c), and whether it is in the same array
Appended(s, c) ==
  [arr |-> IF s.len < Len(s.arr) THEN [s.arr EXCEPT ![s.len + 1] = c] ELSE Grown(s, c),
   len |-> s.len + 1]
InPlace(s) == s.len < Len(s.arr)

\* The element a push looks at: of the array it shares, or of one the hub dropped.
At(s) == IF snd[s].shared THEN list[snd[s].u].arr[snd[s].i] ELSE snd[s].arr[snd[s].i]

\* The pushes that walk u's array keep it when the hub takes another.
Detached(u) ==
  [s \in Senders |-> IF snd[s].shared /\ snd[s].u = u
                     THEN [snd[s] EXCEPT !.shared = FALSE, !.arr = list[u].arr] ELSE snd[s]]

-----------------------------------------------------------------------------
(* Clients come and go *)

\* Either goroutine of a client closes the connection when it ends.
Open(c) == reader[c] \in {"reading", "leaving"} /\ writer[c] = "writing"

\* A connection is upgraded, Run takes the client and goes for the write lock, and the
\* two goroutines start.
Register(c) ==
  /\ run.pc = "select" /\ reader[c] = "absent"
  /\ run' = [pc |-> "add", c |-> c, i |-> 0] /\ mu' = [mu EXCEPT !.writer = "waiting"]
  /\ reader' = [reader EXCEPT ![c] = "reading"] /\ writer' = [writer EXCEPT ![c] = "writing"]
  /\ UNCHANGED <<list, snd, got, chan, bus, pushes, down, history>>

Add ==
  LET c == run.c u == Owner[run.c] IN
  /\ run.pc = "add" /\ mu.readers = {}
  /\ list' = [list EXCEPT ![u] = Appended(@, c)]
  /\ snd' = IF InPlace(list[u]) THEN snd ELSE Detached(u)
  /\ joined' = joined \cup {c}
  /\ run' = Select /\ mu' = [mu EXCEPT !.writer = "none"]
  /\ UNCHANGED <<conn, chan, bus, pushes, down, full, torn>>

\* The peer leaves, its answers stop, or the other goroutine has closed the connection.
ReaderEnds(c) ==
  /\ reader[c] = "reading"
  /\ reader' = [reader EXCEPT ![c] = "leaving"]
  /\ UNCHANGED <<list, mu, run, snd, writer, got, chan, bus, pushes, down, history>>

ToRemove(c) ==
  /\ run.pc = "select"
  /\ run' = [pc |-> "remove", c |-> c, i |-> 0] /\ mu' = [mu EXCEPT !.writer = "waiting"]

\* Run takes the client from the goroutine that read it, which closes the connection.
Leave(c) ==
  /\ reader[c] = "leaving" /\ ToRemove(c)
  /\ reader' = [reader EXCEPT ![c] = "gone"] /\ got' = [got EXCEPT ![c] = <<>>]
  /\ UNCHANGED <<list, snd, writer, chan, bus, pushes, down, history>>

\* The write lock is free; a client that is no longer in the list is let be.
Find ==
  LET s == list[Owner[run.c]]
      at == {j \in 1..s.len : s.arr[j] = run.c} IN
  /\ run.pc = "remove" /\ mu.readers = {}
  /\ IF at = {} THEN run' = Select /\ mu' = [mu EXCEPT !.writer = "none"]
     ELSE /\ run' = [run EXCEPT !.pc = "shift", !.i = CHOOSE j \in at : \A k \in at : j <= k]
          /\ mu' = [mu EXCEPT !.writer = "held"]
  /\ UNCHANGED <<list, snd, conn, chan, bus, pushes, down, history>>

\* append(clients[:i], clients[i+1:]...) moves one element down.
Shift ==
  LET u == Owner[run.c] IN
  /\ run.pc = "shift" /\ run.i < list[u].len
  /\ list' = [list EXCEPT ![u].arr[run.i] = list[u].arr[run.i + 1]]
  /\ run' = [run EXCEPT !.i = @ + 1]
  /\ torn' = torn \cup {v \in {u} : \E s \in Senders : snd[s].pc # "idle" /\ snd[s].u = v}
  /\ UNCHANGED <<mu, snd, conn, chan, bus, pushes, down, joined, full>>

\* Fault: the slice keeps its length.
FaultRemove ==
  LET u == Owner[run.c] c == run.c IN
  /\ run.pc = "shift" /\ run.i = list[u].len
  /\ UNCHANGED list /\ closed' = closed \cup {c} /\ down' = (c \in closed)
  /\ joined' = joined \ {c} /\ torn' = torn
  /\ snd' = [s \in Senders |-> [snd[s] EXCEPT !.due = @ \ {c}]]
  /\ run' = Select /\ mu' = [mu EXCEPT !.writer = "none"]
  /\ UNCHANGED <<conn, box, bus, pushes, full>>

\* The slice is one shorter, and the channel closed: a second close is a panic.  A user
\* without clients is deleted from the map.
Remove ==
  LET u == Owner[run.c]
      c == run.c
      s == [list[u] EXCEPT !.len = @ - 1]
      d == IF s.len = 0 THEN Detached(u) ELSE snd IN
  /\ run.pc = "shift" /\ run.i = list[u].len
  /\ list' = [list EXCEPT ![u] = IF s.len = 0 THEN Empty ELSE s]
  /\ closed' = closed \cup {c} /\ down' = (c \in closed)
  /\ joined' = joined \ {c}
  /\ torn' = torn \cup {v \in {u} : \E q \in Senders : snd[q].pc # "idle" /\ snd[q].u = v}
  /\ snd' = [q \in Senders |-> [d[q] EXCEPT !.due = @ \ {c}]]
  /\ run' = Select /\ mu' = [mu EXCEPT !.writer = "none"]
  /\ UNCHANGED <<conn, box, bus, pushes, full>>

-----------------------------------------------------------------------------
(* Pushing *)

\* Read locks wait for a writer that waits.
Lockable == mu.writer = "none"

Walk(p, u) == [p EXCEPT !.pc = "next", !.users = @ \ {u}, !.u = u, !.shared = TRUE,
                        !.len = list[u].len, !.i = 1]

\* The slice of a user is read under the lock, which is released again.
SendTo(s, m) ==
  /\ Lockable
  /\ snd' = [snd EXCEPT ![s] = Walk([Idle EXCEPT !.m = m,
                                       !.due = {c \in joined : Owner[c] = m.to}], m.to)]
  /\ UNCHANGED mu

\* The lock is kept while all slices are walked; the first is taken by NextUser.
BroadcastAll(s, m) ==
  /\ Lockable
  /\ snd' = [snd EXCEPT ![s] = [Idle EXCEPT !.pc = "next", !.m = m, !.held = TRUE,
                                  !.users = {u \in Users : list[u].len > 0}, !.due = joined]]
  /\ mu' = [mu EXCEPT !.readers = @ \cup {s}]

Send(u) ==
  /\ snd["service"].pc = "idle" /\ pushes.here < MaxPush
  /\ pushes' = [pushes EXCEPT !.here = @ + 1]
  /\ SendTo("service", [id |-> pushes'.here, to |-> u, via |-> "hub"])
  /\ UNCHANGED <<list, run, conn, chan, bus, down, history>>

Broadcast ==
  /\ snd["service"].pc = "idle" /\ pushes.here < MaxPush
  /\ pushes' = [pushes EXCEPT !.here = @ + 1]
  /\ BroadcastAll("service", [id |-> pushes'.here, to |-> All, via |-> "hub"])
  /\ UNCHANGED <<list, run, conn, chan, bus, down, history>>

\* Another instance pushes, and Redis brings the message here.
PushElsewhere(a) ==
  /\ pushes.there < MaxElsewhere
  /\ pushes' = [pushes EXCEPT !.there = @ + 1]
  /\ bus' = Append(bus, [id |-> pushes'.there, to |-> a, via |-> "elsewhere"])
  /\ UNCHANGED <<list, mu, run, snd, conn, chan, down, history>>

\* A message from Redis, one's own included, is pushed as it comes.
FromRedis ==
  /\ snd["redis"].pc = "idle" /\ bus # <<>>
  /\ bus' = Tail(bus)
  /\ IF Head(bus).to = All THEN BroadcastAll("redis", Head(bus)) ELSE SendTo("redis", Head(bus))
  /\ UNCHANGED <<list, run, conn, chan, pushes, down, history>>

\* The next client of the slice: its channel may be closed (a panic), have room, or be
\* full; then it is closed, and the client is to be handed to Run.
Offer(s) ==
  LET p == snd[s] c == At(s) IN
  /\ p.pc = "next" /\ p.i <= p.len
  /\ \/ /\ c \in closed
        /\ down' = TRUE /\ UNCHANGED <<snd, chan, full>>
     \/ /\ c \notin closed /\ Len(box[c]) < Buf
        /\ box' = [box EXCEPT ![c] = Append(@, p.m)]
        /\ snd' = [snd EXCEPT ![s].i = @ + 1] /\ UNCHANGED <<closed, down, full>>
     \/ /\ c \notin closed /\ Len(box[c]) = Buf
        /\ closed' = closed \cup {c} /\ full' = TRUE
        /\ snd' = [snd EXCEPT ![s].pc = "handoff", ![s].c = c] /\ UNCHANGED <<box, down>>
  /\ UNCHANGED <<list, mu, run, conn, bus, pushes, joined, torn>>

\* Run takes the client with the full buffer.
Handoff(s) ==
  /\ snd[s].pc = "handoff" /\ ToRemove(snd[s].c)
  /\ snd' = [snd EXCEPT ![s].pc = "next", ![s].c = Nobody, ![s].i = @ + 1]
  /\ UNCHANGED <<list, conn, chan, bus, pushes, down, history>>

NextUser(s) ==
  LET p == snd[s] IN
  /\ p.pc = "next" /\ p.i > p.len
  /\ \E u \in p.users : snd' = [snd EXCEPT ![s] = Walk(p, u)]
  /\ UNCHANGED <<list, mu, run, conn, chan, bus, pushes, down, history>>

\* Fault: the read lock is not released.
FaultPushed(s) ==
  LET p == snd[s] IN
  /\ p.pc = "next" /\ p.i > p.len /\ p.users = {}
  /\ snd' = [snd EXCEPT ![s] = Idle] /\ UNCHANGED <<mu, bus>>
  /\ UNCHANGED <<list, run, conn, chan, pushes, down, history>>

\* All are served.  What was pushed here is published, if Redis can be reached.
Pushed(s) ==
  LET p == snd[s] IN
  /\ p.pc = "next" /\ p.i > p.len /\ p.users = {}
  /\ snd' = [snd EXCEPT ![s] = Idle]
  /\ mu' = [mu EXCEPT !.readers = @ \ {s}]
  /\ \/ s = "service" /\ bus' = Append(bus, [p.m EXCEPT !.via = "redis"])
     \/ UNCHANGED bus
  /\ UNCHANGED <<list, run, conn, chan, pushes, down, history>>

-----------------------------------------------------------------------------
(* Writing to the connections *)

\* One message of the connection carries all that waits in the buffer.
Flush(c) ==
  /\ writer[c] = "writing" /\ box[c] # <<>> /\ Open(c)
  /\ got' = [got EXCEPT ![c] = @ \o box[c]]
  /\ box' = [box EXCEPT ![c] = <<>>]
  /\ UNCHANGED <<list, mu, run, snd, reader, writer, closed, bus, pushes, down, history>>

\* A write or a ping fails, or the channel is closed and empty.
WriterEnds(c) ==
  /\ writer[c] = "writing"
  /\ writer' = [writer EXCEPT ![c] = "gone"] /\ got' = [got EXCEPT ![c] = <<>>]
  /\ \/ box[c] # <<>> /\ box' = [box EXCEPT ![c] = <<>>]
     \/ UNCHANGED box
  /\ UNCHANGED <<list, mu, run, snd, reader, closed, bus, pushes, down, history>>

-----------------------------------------------------------------------------
RunStep    == Add \/ Find \/ Shift \/ Remove
PushStep(s) == Offer(s) \/ Handoff(s) \/ NextUser(s) \/ Pushed(s)

Next ==
  /\ ~down
  /\ \/ RunStep \/ Broadcast \/ FromRedis
     \/ \E u \in Users : Send(u)
     \/ \E a \in Users \cup {All} : PushElsewhere(a)
     \/ \E s \in Senders : PushStep(s)
     \/ \E c \in Clients : \/ Register(c) \/ ReaderEnds(c) \/ Leave(c)
                           \/ Flush(c) \/ WriterEnds(c)

Spec == Init /\ [][Next]_vars

\* Goroutines that can go on do, and Go's select serves both of its channels; clients
\* and other instances need not do anything.
FairSpec ==
  /\ Spec
  /\ WF_vars(~down /\ RunStep) /\ WF_vars(~down /\ FromRedis)
  /\ \A s \in Senders : WF_vars(~down /\ (Offer(s) \/ NextUser(s) \/ Pushed(s)))
                        /\ SF_vars(~down /\ Handoff(s))
  /\ \A c \in Clients : SF_vars(~down /\ Leave(c))

-----------------------------------------------------------------------------
(* Properties *)

\* The process panics on a channel closed twice or written to after its close
\* (hub.go:66, :96, :128, :130) only after a buffer was found full, or when a client was
\* removed while a Send was walking the slice it is in.
DownHasCause == down => full \/ torn # {}

Stream(c)   == got[c] \o box[c]

\* When a push ends, each client that was connected all the while, and that can still be
\* written to, has got the message once by this way; but not if a buffer was full or a
\* device of the same user left during a Send.
Times(c, m) == Cardinality({i \in DOMAIN Stream(c)' : Stream(c)'[i] = m})
NobodyMissed ==
  [][\A s \in Senders : snd[s].pc = "next" /\ snd'[s].pc = "idle" =>
       \A c \in snd[s].due : ~full /\ Owner[c] \notin torn /\ Open(c)
                             => Times(c, snd[s].m) = 1]_vars

\* While no buffer was ever found full, every connection that ended is taken out of the
\* hub: the lock and the unbuffered channels make no goroutine wait for ever.  (With a
\* full buffer they may: a broadcast waits for Run with the lock Run waits for.)
LeavingIsServed ==
  \A c \in Clients : reader[c] = "leaving" ~> (reader[c] = "gone" \/ down \/ full)
=============================================================================
