----------------------------- MODULE UsageProofs -----------------------------
(***************************************************************************)
(* Proofs about Usage, for any number of handlers, calls and days, and     *)
(* about Routing, which what is counted there goes on to.  What makes a    *)
(* whole-row Save harmless is what its handler's copy still says when it   *)
(* is written: a copy never claims more for today than was counted, and    *)
(* while requests come one at a time it is the row itself.                 *)
(***************************************************************************)
EXTENDS Usage, Routing, WellFoundedInduction, TLAPS

USE UsageAssumption

HoldsRow == {"check", "count", "status", "edit"}
Calling  == {"run", "count"}

\* What no row and no copy of it ever exceeds.
CountsOK(r) ==
  \A k \in Kinds : r.day[k] <= today /\ (r.day[k] = today => r.used[k] <= top[k])
CountInv ==
  /\ CountsOK(row)
  /\ \A p \in Handlers : pc[p] \in HoldsRow => CountsOK(loc[p].row)

\* A call verified today stays below the limit until it is counted.
CallOK(p) ==
  LET k == loc[p].kind IN
  pc[p] \in Calling =>
    /\ loc[p].day <= today
    /\ loc[p].day = today =>
         /\ row.day[k] = today
         /\ plan.limit[k] < 0 \/ row.used[k] < plan.limit[k]

SerialInv ==
  ~overlap =>
    /\ \A p, q \in Handlers : pc[p] # "idle" /\ pc[q] # "idle" => p = q
    /\ \A p \in Handlers : (pc[p] \in HoldsRow => loc[p].row = row) /\ CallOK(p)
    /\ \A k \in Kinds : served[k] <= Effective(row, k)
    /\ WithinLimit

IInv == TypeOK /\ CountInv /\ SerialInv

-----------------------------------------------------------------------------
(* Type correctness *)

\* A new user's row, and what a request holds at first and once it has read the row.
LEMMA RowTypes ==
  /\ NewRow \in Row /\ NoLocal \in Local
  /\ \A k \in Kinds, r \in Row : [kind |-> k, day |-> 0, row |-> r] \in Local
BY DEF NewRow, NoLocal, Row, Local, Kinds

\* A row whose counter was reset is a row.
LEMMA ResetType ==
  ASSUME today \in Nat, NEW r \in Row, NEW k \in Kinds
  PROVE  Reset(r, k) \in Row
BY DEF Reset, Row, Kinds

\* A request that moves on is somewhere, and holds something.
LEMMA GotoType ==
  ASSUME pc \in [Handlers -> PC], loc \in [Handlers -> Local],
         NEW p \in Handlers, NEW c \in PC, NEW l \in Local, Goto(p, c, l)
  PROVE  pc' \in [Handlers -> PC] /\ loc' \in [Handlers -> Local]
BY DEF Goto

\* So is a request that ends.
LEMMA FinishType ==
  ASSUME pc \in [Handlers -> PC], loc \in [Handlers -> Local],
         NEW p \in Handlers, Finish(p)
  PROVE  pc' \in [Handlers -> PC] /\ loc' \in [Handlers -> Local]
BY GotoType, RowTypes DEF Finish, PC

\* A request that begins keeps the types.
LEMMA BeginType ==
  ASSUME TypeOK, NEW p \in Handlers, NEW c \in PC, NEW k \in Kinds, Begin(p, c, k)
  PROVE  TypeOK'
<1>1. [kind |-> k, day |-> 0, row |-> row] \in Local
  BY RowTypes DEF TypeOK
<1>2. pc' \in [Handlers -> PC] /\ loc' \in [Handlers -> Local]
  BY <1>1, GotoType DEF Begin, TypeOK
<1>3. QED BY <1>2 DEF Begin, TypeOK

\* The steps of a call keep the types.
LEMMA CallType ==
  ASSUME TypeOK, NEW p \in Handlers, CallStep(p)
  PROVE  TypeOK'
<1>1. CASE VerifyAccessAndLimits(p) \/ VerifySemanticSearchAccess(p)
  BY <1>1, BeginType
     DEF VerifyAccessAndLimits, VerifySemanticSearchAccess, Verify, PC, Kinds
<1>2. CASE Check(p)
  <2> DEFINE k == loc[p].kind
             fresh == Reset(loc[p].row, k)
  <2>1. loc[p] \in Local /\ k \in Kinds /\ loc[p].row \in Row
    BY DEF TypeOK, Local
  <2>2. fresh \in Row
    BY <2>1, ResetType DEF TypeOK
  <2>3. [loc[p] EXCEPT !.day = today, !.row = NewRow] \in Local
    BY <2>1, RowTypes DEF TypeOK, Local
  <2>4. pc' \in [Handlers -> PC] /\ loc' \in [Handlers -> Local]
    <3>1. CASE Admits(fresh, k)
      BY <1>2, <3>1, <2>3, GotoType DEF Check, TypeOK, PC
    <3>2. CASE ~ Admits(fresh, k)
      BY <1>2, <3>2, FinishType DEF Check, TypeOK
    <3>3. QED BY <3>1, <3>2
  <2>5. row' \in Row
    BY <1>2, <2>2 DEF Check, TypeOK
  <2>6. QED BY <1>2, <2>4, <2>5 DEF Check, TypeOK, history
<1>3. CASE IncrementUsage(p)
  <2>1. [loc[p] EXCEPT !.row = row] \in Local
    BY DEF TypeOK, Local
  <2>2. pc' \in [Handlers -> PC] /\ loc' \in [Handlers -> Local]
    BY <1>3, <2>1, GotoType DEF IncrementUsage, TypeOK, PC
  <2>3. QED BY <1>3, <2>2 DEF IncrementUsage, TypeOK, history
<1>4. CASE SaveUsage(p)
  <2>1. loc[p].kind \in Kinds /\ loc[p].row \in Row
    BY DEF TypeOK, Local
  <2>2. row' \in Row
    BY <1>4, <2>1 DEF SaveUsage, Row
  <2>3. pc' \in [Handlers -> PC] /\ loc' \in [Handlers -> Local]
    BY <1>4, FinishType DEF SaveUsage, TypeOK
  <2>4. served' \in [Kinds -> Nat] /\ top' \in [Kinds -> Nat]
    BY <1>4, <2>1 DEF SaveUsage, TypeOK
  <2>5. QED BY <1>4, <2>2, <2>3, <2>4 DEF SaveUsage, TypeOK
<1>5. QED BY <1>1, <1>2, <1>3, <1>4 DEF CallStep

\* An admin's edit keeps the types.
LEMMA SaveLimitsType ==
  ASSUME TypeOK, NEW p \in Handlers, NEW ks \in SUBSET Kinds, NEW v \in Nat,
         SaveLimits(p, ks, v)
  PROVE  TypeOK'
<1>1. loc[p].row \in Row
  BY DEF TypeOK, Local
<1>2. row' \in Row
  BY <1>1 DEF SaveLimits, Row, TypeOK
<1>3. pc' \in [Handlers -> PC] /\ loc' \in [Handlers -> Local]
  BY FinishType DEF SaveLimits, TypeOK
<1>4. served' \in [Kinds -> Nat] /\ top' \in [Kinds -> Nat]
  BY DEF SaveLimits, TypeOK
<1>5. QED BY <1>2, <1>3, <1>4 DEF SaveLimits, TypeOK

\* All other steps keep the types.
LEMMA OtherType ==
  ASSUME TypeOK, NEW p \in Handlers, OtherStep(p) \/ Return(p)
  PROVE  TypeOK'
<1>1. CASE GetUserUsageStatus(p) \/ EditUser(p)
  BY <1>1, BeginType DEF GetUserUsageStatus, EditUser, PC, Kinds
<1>2. CASE CheckAndResetDailyUsage(p)
  <2>1. row' \in Row
    BY <1>2, ResetType DEF CheckAndResetDailyUsage, TypeOK, Local, Kinds
  <2>2. pc' \in [Handlers -> PC] /\ loc' \in [Handlers -> Local]
    BY <1>2, FinishType DEF CheckAndResetDailyUsage, TypeOK
  <2>3. QED BY <1>2, <2>1, <2>2 DEF CheckAndResetDailyUsage, TypeOK, history
<1>3. CASE SaveProfile(p)
  <2>1. row' \in Row
    BY <1>3 DEF SaveProfile, TypeOK, Local
  <2>2. pc' \in [Handlers -> PC] /\ loc' \in [Handlers -> Local]
    BY <1>3, FinishType DEF SaveProfile, TypeOK
  <2>3. QED BY <1>3, <2>1, <2>2 DEF SaveProfile, TypeOK, history
<1>4. CASE UpdateAiLimit(p)
  BY <1>4, SaveLimitsType DEF UpdateAiLimit
<1>5. CASE ResetAiLimit(p)
  BY <1>5, SaveLimitsType DEF ResetAiLimit
<1>6. CASE Return(p)
  BY <1>6, FinishType DEF Return, TypeOK, history
<1>7. QED BY <1>1, <1>2, <1>3, <1>4, <1>5, <1>6 DEF OtherStep

\* Every step keeps the types.
LEMMA NextType ==
  ASSUME TypeOK, [Next]_vars
  PROVE  TypeOK'
<1>1. CASE Midnight
  BY <1>1 DEF Midnight, TypeOK
<1>2. CASE \E p \in Handlers : CallStep(p) \/ OtherStep(p) \/ Return(p)
  BY <1>2, CallType, OtherType
<1>3. CASE UNCHANGED vars
  BY <1>3 DEF vars, history, TypeOK
<1>4. QED BY <1>1, <1>2, <1>3 DEF Next

-----------------------------------------------------------------------------
(* No row, stored or copied, claims more for today than was counted *)

\* A reset takes a counter down to nothing, which was not charged for.
LEMMA ResetCounts ==
  ASSUME TypeOK, NEW r \in Row, NEW k \in Kinds, CountsOK(r)
  PROVE  CountsOK(Reset(r, k))
BY DEF CountsOK, Reset, Row, TypeOK

\* A step that stores a sound row and leaves one handler without a copy, or with
\* a sound one, keeps the invariant as long as the day stays and top only grows.
LEMMA CountsKept ==
  ASSUME TypeOK, TypeOK', CountInv, NEW p \in Handlers,
         today' = today, \A k \in Kinds : top'[k] >= top[k],
         CountsOK(row)',
         \A q \in Handlers \ {p} : pc'[q] = pc[q] /\ loc'[q] = loc[q],
         pc'[p] \in HoldsRow => CountsOK(loc[p].row)'
  PROVE  CountInv'
<1> SUFFICES ASSUME NEW q \in Handlers, pc'[q] \in HoldsRow, q # p
             PROVE  CountsOK(loc[q].row)'
  BY DEF CountInv
<1>1. CountsOK(loc[q].row) /\ loc[q].row \in Row /\ loc'[q].row = loc[q].row
  BY DEF CountInv, TypeOK, Local
<1>2. \A k \in Kinds : /\ loc[q].row.day[k] \in Nat /\ loc[q].row.used[k] \in Nat
                       /\ top[k] \in Nat /\ top'[k] \in Nat
  BY <1>1 DEF Row, TypeOK
<1>3. QED BY <1>1, <1>2 DEF CountsOK

\* A request that moves on leaves the others where they are.
LEMMA GotoOne ==
  ASSUME pc \in [Handlers -> PC], loc \in [Handlers -> Local],
         NEW p \in Handlers, NEW c, NEW l, Goto(p, c, l)
  PROVE  /\ pc'[p] = c /\ loc'[p] = l
         /\ \A q \in Handlers \ {p} : pc'[q] = pc[q] /\ loc'[q] = loc[q]
BY DEF Goto

\* A request that begins keeps CountInv: its copy is the row.
LEMMA BeginCounts ==
  ASSUME TypeOK, TypeOK', CountInv, NEW p \in Handlers, NEW c, NEW k, Begin(p, c, k)
  PROVE  CountInv'
<1>1. CountsOK(row)'
  BY DEF Begin, CountInv, CountsOK
<1>2. /\ loc'[p].row = row' /\ today' = today /\ top' = top
      /\ \A q \in Handlers \ {p} : pc'[q] = pc[q] /\ loc'[q] = loc[q]
  BY GotoOne DEF Begin, TypeOK
<1>3. CountsOK(loc[p].row)'
  BY <1>1, <1>2 DEF CountsOK
<1>4. \A kk \in Kinds : top'[kk] >= top[kk]
  BY <1>2 DEF TypeOK
<1>5. QED BY <1>1, <1>2, <1>3, <1>4, CountsKept

\* The steps of a call keep CountInv.
LEMMA CallCounts ==
  ASSUME TypeOK, TypeOK', CountInv, NEW p \in Handlers, CallStep(p)
  PROVE  CountInv'
<1> USE DEF HoldsRow
<1>1. CASE VerifyAccessAndLimits(p) \/ VerifySemanticSearchAccess(p)
  BY <1>1, BeginCounts DEF VerifyAccessAndLimits, VerifySemanticSearchAccess, Verify
<1>2. CASE Check(p)
  <2> DEFINE k == loc[p].kind
             fresh == Reset(loc[p].row, k)
  <2>1. loc[p].row \in Row /\ k \in Kinds /\ CountsOK(loc[p].row)
    BY <1>2 DEF Check, CountInv, TypeOK, Local
  <2>2. CountsOK(fresh) /\ CountsOK(row)
    BY <2>1, ResetCounts DEF CountInv
  <2>3. today' = today /\ top' = top /\ (row' = row \/ row' = fresh)
    BY <1>2 DEF Check, history
  <2>4. CountsOK(row)'
    BY <2>2, <2>3 DEF CountsOK
  <2>5. /\ pc'[p] \notin HoldsRow
        /\ \A q \in Handlers \ {p} : pc'[q] = pc[q] /\ loc'[q] = loc[q]
    BY <1>2, GotoOne DEF Check, Finish, TypeOK
  <2>6. \A kk \in Kinds : top'[kk] >= top[kk]
    BY <2>3 DEF TypeOK
  <2>7. QED BY <2>3, <2>4, <2>5, <2>6, CountsKept
<1>3. CASE IncrementUsage(p)
  <2>1. today' = today /\ top' = top /\ row' = row
    BY <1>3 DEF IncrementUsage, history
  <2>2. /\ loc'[p].row = row
        /\ \A q \in Handlers \ {p} : pc'[q] = pc[q] /\ loc'[q] = loc[q]
    BY <1>3, GotoOne DEF IncrementUsage, TypeOK, Local
  <2>3. CountsOK(row)' /\ CountsOK(loc[p].row)'
    BY <2>1, <2>2 DEF CountInv, CountsOK
  <2>4. \A kk \in Kinds : top'[kk] >= top[kk]
    BY <2>1 DEF TypeOK
  <2>5. QED BY <2>1, <2>2, <2>3, <2>4, CountsKept
<1>4. CASE SaveUsage(p)
  <2> DEFINE k == loc[p].kind
             r == loc[p].row
  <2>1. r \in Row /\ k \in Kinds /\ CountsOK(r)
    BY <1>4 DEF SaveUsage, CountInv, TypeOK, Local
  <2>2. /\ today' = today /\ row' = [r EXCEPT !.used[k] = @ + 1]
        /\ top' = [top EXCEPT ![k] = @ + 1]
    BY <1>4 DEF SaveUsage
  <2>3. CountsOK(row)'
    BY <2>1, <2>2 DEF CountsOK, Row, TypeOK
  <2>4. /\ pc'[p] \notin HoldsRow
        /\ \A q \in Handlers \ {p} : pc'[q] = pc[q] /\ loc'[q] = loc[q]
    BY <1>4, GotoOne DEF SaveUsage, Finish, TypeOK
  <2>5. \A kk \in Kinds : top'[kk] >= top[kk]
    BY <2>1, <2>2 DEF TypeOK
  <2>6. QED BY <2>2, <2>3, <2>4, <2>5, CountsKept
<1>5. QED BY <1>1, <1>2, <1>3, <1>4 DEF CallStep

\* An admin's edit keeps CountInv: the counter may stand at what it was set to.
LEMMA SaveLimitsCounts ==
  ASSUME TypeOK, TypeOK', CountInv, NEW p \in Handlers,
         NEW ks \in SUBSET Kinds, NEW v \in Nat, SaveLimits(p, ks, v)
  PROVE  CountInv'
<1>1. loc[p].row \in Row /\ CountsOK(loc[p].row)
  BY DEF SaveLimits, CountInv, TypeOK, Local, HoldsRow
<1>2. \A k \in Kinds : top'[k] >= top[k] /\ (k \in ks => top'[k] >= v)
  BY DEF SaveLimits, TypeOK
<1>3. CountsOK(row)'
  <2> SUFFICES ASSUME NEW k \in Kinds
               PROVE  /\ row'.day[k] <= today'
                      /\ row'.day[k] = today' => row'.used[k] <= top'[k]
    BY DEF CountsOK
  <2>0. today' = today /\ today \in Nat /\ top[k] \in Nat /\ top'[k] \in Nat
    BY DEF SaveLimits, TypeOK
  <2>1. CASE k \in ks
    <3>1. row'.day[k] = today /\ row'.used[k] = v
      BY <2>1 DEF SaveLimits
    <3>2. QED BY <3>1, <2>0, <2>1, <1>2
  <2>2. CASE k \notin ks
    <3>1. row'.day[k] = loc[p].row.day[k] /\ row'.used[k] = loc[p].row.used[k]
      BY <2>2 DEF SaveLimits
    <3>2. loc[p].row.day[k] \in Nat /\ loc[p].row.used[k] \in Nat
      BY <1>1 DEF Row
    <3>3. QED BY <3>1, <3>2, <2>0, <1>1, <1>2 DEF CountsOK
  <2>3. QED BY <2>1, <2>2
<1>4. /\ pc'[p] \notin HoldsRow
      /\ \A q \in Handlers \ {p} : pc'[q] = pc[q] /\ loc'[q] = loc[q]
  BY GotoOne DEF SaveLimits, Finish, TypeOK, HoldsRow
<1>5. QED BY <1>2, <1>3, <1>4, CountsKept DEF SaveLimits

\* All other steps keep CountInv.
LEMMA OtherCounts ==
  ASSUME TypeOK, TypeOK', CountInv, NEW p \in Handlers, OtherStep(p) \/ Return(p)
  PROVE  CountInv'
<1> USE DEF HoldsRow
<1>1. CASE GetUserUsageStatus(p) \/ EditUser(p)
  BY <1>1, BeginCounts DEF GetUserUsageStatus, EditUser
<1>2. CASE CheckAndResetDailyUsage(p)
  <2>1. loc[p].row \in Row /\ "chat" \in Kinds /\ CountsOK(loc[p].row) /\ CountsOK(row)
    BY <1>2 DEF CheckAndResetDailyUsage, CountInv, TypeOK, Local, Kinds
  <2>2. CountsOK(Reset(loc[p].row, "chat"))
    BY <2>1, ResetCounts
  <2>3. today' = today /\ top' = top /\ (row' = row \/ row' = Reset(loc[p].row, "chat"))
    BY <1>2 DEF CheckAndResetDailyUsage, history
  <2>4. CountsOK(row)'
    BY <2>1, <2>2, <2>3 DEF CountsOK
  <2>5. /\ pc'[p] \notin HoldsRow
        /\ \A q \in Handlers \ {p} : pc'[q] = pc[q] /\ loc'[q] = loc[q]
    BY <1>2, GotoOne DEF CheckAndResetDailyUsage, Finish, TypeOK
  <2>6. \A kk \in Kinds : top'[kk] >= top[kk]
    BY <2>3 DEF TypeOK
  <2>7. QED BY <2>3, <2>4, <2>5, <2>6, CountsKept
<1>3. CASE SaveProfile(p)
  <2>1. today' = today /\ top' = top /\ row' = loc[p].row /\ CountsOK(loc[p].row)
    BY <1>3 DEF SaveProfile, history, CountInv
  <2>2. CountsOK(row)'
    BY <2>1 DEF CountsOK
  <2>3. /\ pc'[p] \notin HoldsRow
        /\ \A q \in Handlers \ {p} : pc'[q] = pc[q] /\ loc'[q] = loc[q]
    BY <1>3, GotoOne DEF SaveProfile, Finish, TypeOK
  <2>4. \A kk \in Kinds : top'[kk] >= top[kk]
    BY <2>1 DEF TypeOK
  <2>5. QED BY <2>1, <2>2, <2>3, <2>4, CountsKept
<1>4. CASE UpdateAiLimit(p)
  BY <1>4, SaveLimitsCounts DEF UpdateAiLimit
<1>5. CASE ResetAiLimit(p)
  BY <1>5, SaveLimitsCounts DEF ResetAiLimit
<1>6. CASE Return(p)
  <2>1. today' = today /\ top' = top /\ row' = row
    BY <1>6 DEF Return, history
  <2>2. CountsOK(row)'
    BY <2>1 DEF CountInv, CountsOK
  <2>3. /\ pc'[p] \notin HoldsRow
        /\ \A q \in Handlers \ {p} : pc'[q] = pc[q] /\ loc'[q] = loc[q]
    BY <1>6, GotoOne DEF Return, Finish, TypeOK
  <2>4. \A kk \in Kinds : top'[kk] >= top[kk]
    BY <2>1 DEF TypeOK
  <2>5. QED BY <2>1, <2>2, <2>3, <2>4, CountsKept
<1>7. QED BY <1>1, <1>2, <1>3, <1>4, <1>5, <1>6 DEF OtherStep

\* At midnight every copy becomes one of an earlier day.
LEMMA MidnightCounts ==
  ASSUME TypeOK, CountInv, Midnight
  PROVE  CountInv'
<1>1. ASSUME NEW r \in Row, CountsOK(r)
      PROVE  \A k \in Kinds : r.day[k] <= today' /\ r.day[k] # today'
  <2>1. \A k \in Kinds : r.day[k] \in Nat /\ r.day[k] <= today
    BY <1>1 DEF Row, CountsOK
  <2>2. today' = today + 1 /\ today \in Nat
    BY DEF Midnight, TypeOK
  <2>3. QED BY <2>1, <2>2
<1>2. row' = row /\ pc' = pc /\ loc' = loc /\ row \in Row
  BY DEF Midnight, TypeOK
<1>3. CountsOK(row)'
  BY <1>1, <1>2 DEF CountInv, CountsOK
<1>4. ASSUME NEW p \in Handlers, pc'[p] \in HoldsRow PROVE CountsOK(loc[p].row)'
  <2>1. loc[p].row \in Row /\ CountsOK(loc[p].row)
    BY <1>2, <1>4 DEF CountInv, TypeOK, Local
  <2>2. QED BY <1>1, <1>2, <2>1 DEF CountsOK
<1>5. QED BY <1>3, <1>4 DEF CountInv

\* Every step keeps CountInv.
LEMMA NextCounts ==
  ASSUME TypeOK, TypeOK', CountInv, [Next]_vars
  PROVE  CountInv'
<1>1. CASE Midnight
  BY <1>1, MidnightCounts
<1>2. CASE \E p \in Handlers : CallStep(p) \/ OtherStep(p) \/ Return(p)
  BY <1>2, CallCounts, OtherCounts
<1>3. CASE UNCHANGED vars
  BY <1>3 DEF vars, history, CountInv, CountsOK
<1>4. QED BY <1>1, <1>2, <1>3 DEF Next

\* A user begins with nothing counted.
LEMMA InitInv == Init => TypeOK /\ CountInv
<1> SUFFICES ASSUME Init PROVE TypeOK /\ CountInv
  OBVIOUS
<1>1. TypeOK
  BY RowTypes DEF Init, TypeOK, PC
<1>2. CountsOK(row)
  BY DEF Init, CountsOK, NewRow
<1>3. QED BY <1>1, <1>2 DEF Init, CountInv, HoldsRow

\* TypeOK, for every set of handlers and plans and every bound.
THEOREM TypeCorrect == Spec => []TypeOK
<1>1. TypeOK /\ [Next]_vars => TypeOK'
  BY NextType
<1>2. QED BY <1>1, InitInv, PTL DEF Spec

\* CountInv holds at all times.
LEMMA CountInvariant == Spec => [](TypeOK /\ CountInv)
<1>1. TypeOK /\ CountInv /\ [Next]_vars => TypeOK' /\ CountInv'
  BY NextType, NextCounts
<1>2. QED BY <1>1, InitInv, PTL DEF Spec

\* However many requests of a user interleave, and however the days pass, the
\* stored counters never stand above the calls counted that day: no late Save of
\* an old copy charges the user for calls not made.
THEOREM NeverChargedForNothing == Spec => []NeverOvercharged
<1>1. TypeOK /\ CountInv => NeverOvercharged
  BY DEF CountInv, CountsOK, NeverOvercharged, Effective, TypeOK
<1>2. QED BY <1>1, CountInvariant, PTL

-----------------------------------------------------------------------------
(* While requests come one at a time, no day exceeds its limit *)

\* The only request in progress is p: its copy is the row.
Alone(p) ==
  /\ \A q \in Handlers \ {p} : pc[q] = "idle"
  /\ pc[p] \in HoldsRow => loc[p].row = row
  /\ CallOK(p)
  /\ \A k \in Kinds : served[k] <= Effective(row, k)
  /\ WithinLimit

\* As long as no two requests were under way at once, one that is under way is alone.
LEMMA SerialAlone ==
  ASSUME SerialInv, ~overlap, NEW p \in Handlers, pc[p] # "idle"
  PROVE  Alone(p)
BY DEF SerialInv, Alone

\* SerialInv is about a request only: with one there is one to look at.
LEMMA AloneSerial ==
  ASSUME NEW p \in Handlers, Alone(p)'
  PROVE  SerialInv'
BY DEF SerialInv, Alone, CallOK, HoldsRow, Calling

\* A request that begins keeps SerialInv.
LEMMA BeginSerial ==
  ASSUME TypeOK, SerialInv, NEW p \in Handlers, NEW c \in HoldsRow \ Calling, NEW k \in Kinds,
         Begin(p, c, k)
  PROVE  SerialInv'
<1> SUFFICES ASSUME ~overlap' PROVE Alone(p)'
  BY AloneSerial DEF SerialInv
<1>1. ~overlap /\ (\A q \in Handlers \ {p} : pc[q] = "idle")
  BY DEF Begin
<1>2. /\ today' = today /\ plan' = plan /\ row' = row /\ served' = served
      /\ pc'[p] = c /\ loc'[p].row = row
      /\ \A q \in Handlers \ {p} : pc'[q] = pc[q]
  BY GotoOne DEF Begin, TypeOK
<1>3. CallOK(p)'
  BY <1>2 DEF CallOK
<1>4. (\A kk \in Kinds : served[kk] <= Effective(row, kk))' /\ WithinLimit'
  BY <1>1, <1>2 DEF SerialInv, Effective, WithinLimit
<1>5. QED BY <1>1, <1>2, <1>3, <1>4 DEF Alone

\* A reset does not change what counts today, but says so in the row.
LEMMA ResetEffective ==
  ASSUME TypeOK, NEW r \in Row, NEW k \in Kinds
  PROVE  /\ \A kk \in Kinds : Effective(Reset(r, k), kk) = Effective(r, kk)
         /\ Reset(r, k).day[k] = today
         /\ Reset(r, k).used[k] = Effective(r, k)
BY DEF Reset, Effective, Row, TypeOK

\* A step of the only request that leaves it idle, or about to run a call.
LEMMA StepAlone ==
  ASSUME TypeOK, NEW p \in Handlers, Alone(p),
         today' = today, plan' = plan,
         \A q \in Handlers \ {p} : pc'[q] = pc[q],
         pc'[p] \notin HoldsRow, CallOK(p)',
         \A k \in Kinds : (served[k] <= Effective(row, k))',
         WithinLimit'
  PROVE  SerialInv'
BY AloneSerial DEF Alone

\* The steps of a call keep SerialInv: from the test on, the limit has room for it.
LEMMA CallSerial ==
  ASSUME TypeOK, TypeOK', SerialInv, NEW p \in Handlers, CallStep(p)
  PROVE  SerialInv'
<1>1. CASE VerifyAccessAndLimits(p) \/ VerifySemanticSearchAccess(p)
  BY <1>1, BeginSerial
     DEF VerifyAccessAndLimits, VerifySemanticSearchAccess, Verify, Kinds, HoldsRow, Calling
<1>2. CASE Check(p)
  <2> DEFINE k == loc[p].kind
             fresh == Reset(loc[p].row, k)
  <2> SUFFICES ASSUME ~overlap' PROVE SerialInv'
    BY DEF SerialInv
  <2>1. Alone(p)
    BY <1>2, SerialAlone DEF Check, history
  <2>2. loc[p].row = row /\ row \in Row /\ k \in Kinds /\ loc[p] \in Local
    BY <1>2, <2>1 DEF Check, Alone, HoldsRow, TypeOK, Local
  <2>3. /\ today' = today /\ plan' = plan /\ served' = served
        /\ row' = IF row.day[k] = today THEN row ELSE fresh
    BY <1>2, <2>2 DEF Check, history
  <2>4. /\ \A kk \in Kinds : Effective(row, kk)' = Effective(row, kk)
        /\ row'.day[k] = today /\ row'.used[k] = fresh.used[k]
    BY <2>2, <2>3, ResetEffective DEF Effective, Reset
  <2>5. \A kk \in Kinds : (served[kk] <= Effective(row, kk))'
    BY <2>1, <2>3, <2>4 DEF Alone
  <2>6. WithinLimit'
    BY <2>1, <2>3 DEF Alone, WithinLimit
  <2>7. \A q \in Handlers \ {p} : pc'[q] = pc[q]
    BY <1>2, GotoOne DEF Check, Finish, TypeOK
  <2>8. CASE Admits(fresh, k)
    <3>1. pc'[p] = "run" /\ loc'[p] = [loc[p] EXCEPT !.day = today, !.row = NewRow]
      BY <1>2, <2>8, GotoOne DEF Check, TypeOK
    <3>2. loc'[p].kind = k /\ loc'[p].day = today
      BY <3>1, <2>2 DEF Local
    <3>3. CallOK(p)'
      BY <2>3, <2>4, <2>8, <3>1, <3>2 DEF CallOK, Admits, TypeOK
    <3>4. QED BY <2>1, <2>3, <2>5, <2>6, <2>7, <3>1, <3>3, StepAlone DEF HoldsRow
  <2>9. CASE ~ Admits(fresh, k)
    <3>1. pc'[p] = "idle"
      BY <1>2, <2>9, GotoOne DEF Check, Finish, TypeOK
    <3>2. CallOK(p)'
      BY <3>1 DEF CallOK, Calling
    <3>3. QED BY <2>1, <2>3, <2>5, <2>6, <2>7, <3>1, <3>2, StepAlone DEF HoldsRow
  <2>10. QED BY <2>8, <2>9
<1>3. CASE IncrementUsage(p)
  <2> SUFFICES ASSUME ~overlap' PROVE SerialInv'
    BY DEF SerialInv
  <2>1. Alone(p) /\ pc[p] = "run" /\ loc[p] \in Local
    BY <1>3, SerialAlone DEF IncrementUsage, history, TypeOK
  <2>2. /\ today' = today /\ plan' = plan /\ served' = served /\ row' = row
        /\ pc'[p] = "count" /\ loc'[p] = [loc[p] EXCEPT !.row = row]
        /\ \A q \in Handlers \ {p} : pc'[q] = pc[q]
    BY <1>3, GotoOne DEF IncrementUsage, history, TypeOK
  <2>3. loc'[p].kind = loc[p].kind /\ loc'[p].day = loc[p].day /\ loc'[p].row = row'
    BY <2>1, <2>2 DEF Local
  <2>4. CallOK(p)'
    BY <2>1, <2>2, <2>3 DEF Alone, CallOK, Calling
  <2>5. (\A kk \in Kinds : served[kk] <= Effective(row, kk))' /\ WithinLimit'
    BY <2>1, <2>2 DEF Alone, Effective, WithinLimit
  <2>6. QED BY <2>1, <2>2, <2>3, <2>4, <2>5, AloneSerial DEF Alone
<1>4. CASE SaveUsage(p)
  <2> DEFINE k == loc[p].kind
  <2> SUFFICES ASSUME ~overlap' PROVE SerialInv'
    BY DEF SerialInv
  <2>1. Alone(p) /\ pc[p] = "count"
    BY <1>4, SerialAlone DEF SaveUsage
  <2>2. loc[p].row = row /\ row \in Row /\ k \in Kinds /\ loc[p].day \in Nat
    BY <2>1 DEF Alone, HoldsRow, TypeOK, Local
  <2>3. /\ today' = today /\ plan' = plan /\ row' = [row EXCEPT !.used[k] = @ + 1]
        /\ served' = IF loc[p].day = today THEN [served EXCEPT ![k] = @ + 1] ELSE served
    BY <1>4, <2>2 DEF SaveUsage
  <2>4. pc'[p] = "idle" /\ \A q \in Handlers \ {p} : pc'[q] = pc[q]
    BY <1>4, GotoOne DEF SaveUsage, Finish, TypeOK
  <2>5. /\ row'.day = row.day /\ row'.used[k] = row.used[k] + 1
        /\ \A kk \in Kinds \ {k} : row'.used[kk] = row.used[kk]
    BY <2>2, <2>3 DEF Row
  <2>6. \A kk \in Kinds : (served[kk] <= Effective(row, kk))'
    <3> SUFFICES ASSUME NEW kk \in Kinds PROVE served'[kk] <= Effective(row, kk)'
      OBVIOUS
    <3>1. served[kk] \in Nat /\ row.used[kk] \in Nat /\ served[kk] <= Effective(row, kk)
      BY <2>1, <2>2 DEF Alone, TypeOK, Row
    <3>2. CASE kk = k /\ loc[p].day = today
      <4>1. row.day[k] = today
        BY <2>1, <3>2 DEF Alone, CallOK, Calling
      <4>2. served'[kk] = served[kk] + 1
        BY <2>2, <2>3, <3>2 DEF TypeOK
      <4>3. QED BY <2>3, <2>5, <3>1, <3>2, <4>1, <4>2 DEF Effective
    <3>3. CASE ~ (kk = k /\ loc[p].day = today)
      <4>1. served'[kk] = served[kk]
        BY <2>3, <3>3 DEF TypeOK
      <4>2. QED BY <2>3, <2>5, <3>1, <4>1 DEF Effective
    <3>4. QED BY <3>2, <3>3
  <2>7. WithinLimit'
    <3>1. CASE loc[p].day = today
      <4>1. row.day[k] = today /\ (plan.limit[k] < 0 \/ row.used[k] < plan.limit[k])
        BY <2>1, <3>1 DEF Alone, CallOK, Calling
      <4>2. served[k] <= row.used[k]
        BY <2>1, <2>2, <4>1 DEF Alone, Effective
      <4>3. /\ served' = [served EXCEPT ![k] = @ + 1]
            /\ served[k] \in Nat /\ row.used[k] \in Nat /\ plan.limit[k] \in Int
        BY <2>2, <2>3, <3>1 DEF TypeOK, Row, Plan
      <4>4. plan.limit[k] < 0 \/ served'[k] <= plan.limit[k]
        BY <2>2, <4>1, <4>2, <4>3 DEF TypeOK
      <4>5. ASSUME NEW kk \in Kinds \ {k} PROVE served'[kk] = served[kk]
        BY <4>3, <4>5 DEF TypeOK
      <4>6. plan.limit \in [Kinds -> Int]
        BY DEF TypeOK, Plan
      <4>7. QED BY <2>1, <2>2, <2>3, <4>4, <4>5, <4>6 DEF Alone, WithinLimit
    <3>2. CASE loc[p].day # today
      BY <2>1, <2>3, <3>2 DEF Alone, WithinLimit
    <3>3. QED BY <3>1, <3>2
  <2>8. CallOK(p)'
    BY <2>4 DEF CallOK, Calling
  <2>9. QED BY <2>1, <2>3, <2>4, <2>6, <2>7, <2>8, StepAlone DEF HoldsRow
<1>5. QED BY <1>1, <1>2, <1>3, <1>4 DEF CallStep

\* A new value for a counter is one an admin granted, or zero.
LEMMA SaveLimitsSerial ==
  ASSUME TypeOK, SerialInv, NEW p \in Handlers,
         NEW ks \in SUBSET Kinds, NEW v \in Grants \cup {0}, SaveLimits(p, ks, v)
  PROVE  SerialInv'
<1> SUFFICES ASSUME ~overlap' PROVE SerialInv'
  BY DEF SerialInv
<1>1. Alone(p) /\ pc[p] = "edit"
  BY SerialAlone DEF SaveLimits
<1>2. loc[p].row = row /\ row \in Row /\ v \in Nat
  BY <1>1 DEF Alone, HoldsRow, TypeOK
<1>3. /\ today' = today /\ plan' = plan
      /\ pc'[p] = "idle" /\ \A q \in Handlers \ {p} : pc'[q] = pc[q]
  BY GotoOne DEF SaveLimits, Finish, TypeOK
<1>4. ASSUME NEW k \in Kinds
      PROVE  IF k \in ks
             THEN row'.used[k] = v /\ row'.day[k] = today /\ served'[k] = v
             ELSE /\ row'.used[k] = row.used[k] /\ row'.day[k] = row.day[k]
                  /\ served'[k] = served[k]
  BY <1>2 DEF SaveLimits
<1>5. \A k \in Kinds : (served[k] <= Effective(row, k))'
  BY <1>1, <1>2, <1>3, <1>4 DEF Alone, Effective
<1>6. WithinLimit'
  <2> SUFFICES ASSUME NEW k \in Kinds, plan.limit[k] >= 0
               PROVE  served'[k] <= plan.limit[k] \/ served'[k] \in Grants
    BY <1>3 DEF WithinLimit
  <2>1. plan.limit[k] \in Int
    BY DEF TypeOK, Plan
  <2>2. QED BY <1>1, <1>4, <2>1 DEF Alone, WithinLimit
<1>7. CallOK(p)'
  BY <1>3 DEF CallOK, Calling
<1>8. QED BY <1>1, <1>3, <1>5, <1>6, <1>7, StepAlone DEF HoldsRow

\* A Save of an unchanged copy, or of one whose counter was reset.
LEMMA OtherSaveSerial ==
  ASSUME TypeOK, SerialInv, NEW p \in Handlers, ~overlap', pc[p] # "idle", Finish(p),
         UNCHANGED <<today, plan, history>>,
         Alone(p) => \A k \in Kinds : Effective(row, k)' = Effective(row, k)
  PROVE  SerialInv'
<1>1. Alone(p) /\ served' = served /\ today' = today /\ plan' = plan
  BY SerialAlone DEF history
<1>2. pc'[p] = "idle" /\ \A q \in Handlers \ {p} : pc'[q] = pc[q]
  BY GotoOne DEF Finish, TypeOK
<1>3. (\A k \in Kinds : served[k] <= Effective(row, k))' /\ WithinLimit'
  BY <1>1 DEF Alone, WithinLimit
<1>4. CallOK(p)'
  BY <1>2 DEF CallOK, Calling
<1>5. QED BY <1>1, <1>2, <1>3, <1>4, StepAlone DEF HoldsRow

\* All other steps keep SerialInv.
LEMMA OtherSerial ==
  ASSUME TypeOK, SerialInv, NEW p \in Handlers, OtherStep(p) \/ Return(p)
  PROVE  SerialInv'
<1> SUFFICES ASSUME ~overlap' PROVE SerialInv'
  BY DEF SerialInv
<1>1. CASE GetUserUsageStatus(p) \/ EditUser(p)
  BY <1>1, BeginSerial DEF GetUserUsageStatus, EditUser, Kinds, HoldsRow, Calling
<1>2. CASE CheckAndResetDailyUsage(p)
  <2>1. today' = today /\ Finish(p) /\ UNCHANGED <<today, plan, history>> /\ pc[p] = "status"
    BY <1>2 DEF CheckAndResetDailyUsage
  <2>2. ASSUME Alone(p) PROVE \A k \in Kinds : Effective(row, k)' = Effective(row, k)
    <3>1. loc[p].row = row /\ row \in Row /\ "chat" \in Kinds
      BY <2>1, <2>2 DEF Alone, HoldsRow, TypeOK, Kinds
    <3>2. row' = IF row.day["chat"] = today THEN row ELSE Reset(row, "chat")
      BY <1>2, <3>1 DEF CheckAndResetDailyUsage
    <3>3. QED BY <2>1, <3>1, <3>2, ResetEffective DEF Effective
  <2>3. QED BY <2>1, <2>2, OtherSaveSerial
<1>3. CASE SaveProfile(p)
  <2>1. Finish(p) /\ UNCHANGED <<today, plan, history>> /\ pc[p] = "edit" /\ row' = loc[p].row
    BY <1>3 DEF SaveProfile
  <2>2. Alone(p) => \A k \in Kinds : Effective(row, k)' = Effective(row, k)
    BY <2>1 DEF Alone, HoldsRow, Effective
  <2>3. QED BY <2>1, <2>2, OtherSaveSerial
<1>4. CASE UpdateAiLimit(p)
  BY <1>4, SaveLimitsSerial DEF UpdateAiLimit
<1>5. CASE ResetAiLimit(p)
  BY <1>5, SaveLimitsSerial DEF ResetAiLimit
<1>6. CASE Return(p)
  <2>1. Finish(p) /\ UNCHANGED <<today, plan, history>> /\ pc[p] # "idle" /\ row' = row
    BY <1>6 DEF Return
  <2>2. \A k \in Kinds : Effective(row, k)' = Effective(row, k)
    BY <2>1 DEF Effective
  <2>3. QED BY <2>1, <2>2, OtherSaveSerial
<1>7. QED BY <1>1, <1>2, <1>3, <1>4, <1>5, <1>6 DEF OtherStep

\* A call verified before midnight and counted after it is no call of the new day.
LEMMA MidnightSerial ==
  ASSUME TypeOK, CountInv, SerialInv, Midnight
  PROVE  SerialInv'
<1> SUFFICES ASSUME ~overlap' PROVE SerialInv'
  BY DEF SerialInv
<1>1. /\ today' = today + 1 /\ plan' = plan /\ row' = row /\ pc' = pc /\ loc' = loc
      /\ \A k \in Kinds : served'[k] = 0
      /\ ~overlap
  BY DEF Midnight
<1>2. \A k \in Kinds : Effective(row, k)' = 0
  BY <1>1 DEF CountInv, CountsOK, Effective, TypeOK, Row
<1>3. (\A k \in Kinds : served[k] <= Effective(row, k))' /\ WithinLimit'
  BY <1>1, <1>2 DEF WithinLimit, TypeOK, Plan
<1>4. ASSUME NEW p \in Handlers PROVE CallOK(p)'
  <2>1. loc[p].day \in Nat /\ today \in Nat
    BY DEF TypeOK, Local
  <2>2. QED BY <1>1, <2>1 DEF SerialInv, CallOK
<1>5. QED BY <1>1, <1>3, <1>4 DEF SerialInv

\* Every step keeps SerialInv.
LEMMA NextSerial ==
  ASSUME TypeOK, TypeOK', CountInv, SerialInv, [Next]_vars
  PROVE  SerialInv'
<1>1. CASE Midnight
  BY <1>1, MidnightSerial
<1>2. CASE \E p \in Handlers : CallStep(p) \/ OtherStep(p) \/ Return(p)
  BY <1>2, CallSerial, OtherSerial
<1>3. CASE UNCHANGED vars
  BY <1>3 DEF vars, history, SerialInv, CallOK, WithinLimit, Effective
<1>4. QED BY <1>1, <1>2, <1>3 DEF Next

\* A user begins with no request under way.
LEMMA InitSerial == Init => SerialInv
BY DEF Init, SerialInv, CallOK, HoldsRow, Calling, WithinLimit, Effective, NewRow, Plan

\* All parts of IInv hold at all times.
LEMMA Invariant == Spec => []IInv
<1>1. Init => IInv
  BY InitInv, InitSerial DEF IInv
<1>2. IInv /\ [Next]_vars => IInv'
  BY NextType, NextCounts, NextSerial DEF IInv
<1>3. QED BY <1>1, <1>2, PTL DEF Spec

\* While a user's requests come one at a time, the calls verified and counted in a
\* day stay within the plan's limit or the value an admin set, for every plan.
THEOREM SerialDailyLimit == Spec => []DailyLimitHeld
<1>1. IInv => DailyLimitHeld
  BY DEF IInv, SerialInv, DailyLimitHeld
<1>2. QED BY <1>1, Invariant, PTL

-----------------------------------------------------------------------------
(* Nobody but an admin takes a counter of the day down *)

\* Within a day no step but an admin's takes down what counts.
LEMMA StepKeepsUsage ==
  ASSUME IInv, [Next]_vars, ~overlap', today' = today,
         \A p \in Handlers : ~ UpdateAiLimit(p) /\ ~ ResetAiLimit(p),
         NEW k \in Kinds
  PROVE  Effective(row, k)' >= Effective(row, k)
<1>1. TypeOK /\ SerialInv /\ row \in Row /\ today \in Nat
  BY DEF IInv, TypeOK
<1>2. Effective(row, k) \in Nat
  BY <1>1 DEF Effective, Row
<1>3. CASE row' = row
  BY <1>2, <1>3 DEF Effective
<1>4. CASE \E p \in Handlers : Check(p)
  <2>1. PICK p \in Handlers : Check(p)
    BY <1>4
  <2>2. loc[p].row = row /\ loc[p].kind \in Kinds
    BY <1>1, <2>1, SerialAlone DEF Check, history, Alone, HoldsRow, TypeOK, Local
  <2>3. row' = row \/ row' = Reset(row, loc[p].kind)
    BY <2>1, <2>2 DEF Check
  <2>4. QED BY <1>1, <1>2, <2>2, <2>3, ResetEffective DEF Effective
<1>5. CASE \E p \in Handlers : SaveUsage(p)
  <2>1. PICK p \in Handlers : SaveUsage(p)
    BY <1>5
  <2>2. loc[p].row = row /\ loc[p].kind \in Kinds
    BY <1>1, <2>1, SerialAlone DEF SaveUsage, Alone, HoldsRow, TypeOK, Local
  <2>3. row' = [row EXCEPT !.used[loc[p].kind] = @ + 1]
    BY <2>1, <2>2 DEF SaveUsage
  <2>4. row'.day = row.day /\ row'.used[k] >= row.used[k] /\ row.used[k] \in Nat
    BY <1>1, <2>2, <2>3 DEF Row
  <2>5. QED BY <2>4 DEF Effective
<1>6. CASE \E p \in Handlers : CheckAndResetDailyUsage(p)
  <2>1. PICK p \in Handlers : CheckAndResetDailyUsage(p)
    BY <1>6
  <2>2. loc[p].row = row /\ "chat" \in Kinds
    BY <1>1, <2>1, SerialAlone
       DEF CheckAndResetDailyUsage, history, Alone, HoldsRow, Kinds
  <2>3. row' = row \/ row' = Reset(row, "chat")
    BY <2>1, <2>2 DEF CheckAndResetDailyUsage
  <2>4. QED BY <1>1, <1>2, <2>2, <2>3, ResetEffective DEF Effective
<1>7. CASE \E p \in Handlers : SaveProfile(p)
  <2>1. PICK p \in Handlers : SaveProfile(p)
    BY <1>7
  <2>2. row' = row
    BY <1>1, <2>1, SerialAlone DEF SaveProfile, history, Alone, HoldsRow
  <2>3. QED BY <1>3, <2>2
<1>8. ASSUME NEW p \in Handlers,
             \/ VerifyAccessAndLimits(p) \/ VerifySemanticSearchAccess(p)
             \/ IncrementUsage(p) \/ GetUserUsageStatus(p) \/ EditUser(p) \/ Return(p)
      PROVE  row' = row
  BY <1>8 DEF VerifyAccessAndLimits, VerifySemanticSearchAccess, Verify, Begin,
              IncrementUsage, GetUserUsageStatus, EditUser, Return
<1>9. CASE Midnight \/ UNCHANGED vars
  BY <1>3, <1>9 DEF Midnight, vars
<1>10. QED BY <1>3, <1>4, <1>5, <1>6, <1>7, <1>8, <1>9 DEF Next, CallStep, OtherStep

\* While requests come one at a time, page views, profile edits and calls of the
\* other kind never take down a counter of the day.
THEOREM UsageKept == Spec => UsageIsKept
<1>1. IInv /\ [Next]_vars =>
        [\A k \in Kinds :
           /\ ~overlap' /\ today' = today
           /\ \A p \in Handlers : ~ UpdateAiLimit(p) /\ ~ ResetAiLimit(p)
           => Effective(row, k)' >= Effective(row, k)]_vars
  BY StepKeepsUsage
<1>2. QED BY <1>1, Invariant, PTL DEF Spec, UsageIsKept

-----------------------------------------------------------------------------
(***************************************************************************)
(* Routing, for messages of any length.  What is taken out of a sequence   *)
(* of words stands in it in the same order, each once; so a message that   *)
(* its references are taken out of keeps all that is said in it, and its   *)
(* first word unless that is a reference.  The invariant says so of the    *)
(* last message, and that its references are to notes of the user.         *)
(***************************************************************************)

\* A set of numbers has a least one: what an induction needs, over data too.
LEMMA LeastOne ==
  ASSUME NEW S \in SUBSET Nat, S # {}
  PROVE  \E i \in S : \A j \in S : i <= j
<1> DEFINE R == OpToRel(<, Nat)
<1>1. IsWellFoundedOn(R, Nat)
  BY NatLessThanWellFounded
<1>2. PICK i \in S : \A j \in S : ~(<<j, i>> \in R)
  BY <1>1, WFMin
<1>3. ASSUME NEW j \in S PROVE i <= j
  <2>1. ~(j < i)
    BY <1>2 DEF OpToRel
  <2>2. QED BY <2>1
<1>4. QED BY <1>3

\* One more element of the sequence: taken over, or not.
More(t, s, at, i) == IF i \in at THEN Append(t, s[i]) ELSE t
\* g[i] is what is taken from the first i.
Grows(g, s, at, n) ==
  g = [i \in 0..n |-> IF i = 0 THEN <<>> ELSE More(g[i - 1], s, at, i)]

\* There is a function that walks the sequence as Only does.
LEMMA GrowsExists ==
  ASSUME NEW s, NEW at, NEW n \in Nat
  PROVE  \E g : Grows(g, s, at, n)
<1> DEFINE bad == {k \in Nat : ~\E g : Grows(g, s, at, k)}
<1> SUFFICES ASSUME bad # {} PROVE FALSE
  OBVIOUS
<1>1. PICK k \in bad : \A j \in bad : k <= j
  BY LeastOne
<1>2. CASE k = 0
  <2> DEFINE g == [i \in 0..0 |-> <<>>]
  <2>1. \A i \in 0..0 : i = 0
    OBVIOUS
  <2>2. g = [i \in 0..0 |-> IF i = 0 THEN <<>> ELSE More(g[i - 1], s, at, i)]
    BY <2>1
  <2>3. Grows(g, s, at, 0)
    BY <2>2 DEF Grows
  <2>4. QED BY <1>2, <2>3
<1>3. CASE k # 0
  <2>1. k - 1 \in Nat /\ k \in Nat /\ k - 1 \notin bad
    BY <1>1, <1>3
  <2>2. PICK f : Grows(f, s, at, k - 1)
    BY <2>1
  <2> DEFINE g == [i \in 0..k |-> IF i = k THEN More(f[k - 1], s, at, k) ELSE f[i]]
  <2>3. \A i \in 0..k : g[i] = IF i = 0 THEN <<>> ELSE More(g[i - 1], s, at, i)
    <3> SUFFICES ASSUME NEW i \in 0..k
                 PROVE  g[i] = IF i = 0 THEN <<>> ELSE More(g[i - 1], s, at, i)
      OBVIOUS
    <3>1. CASE i = k
      <4>1. k - 1 \in 0..k /\ k - 1 # k
        BY <2>1
      <4>2. g[k - 1] = f[k - 1] /\ g[k] = More(f[k - 1], s, at, k)
        BY <2>1, <4>1
      <4>3. QED BY <1>3, <3>1, <4>2
    <3>2. CASE i # k
      <4>1. i \in 0..(k - 1)
        BY <2>1, <3>2
      <4>2. f[i] = IF i = 0 THEN <<>> ELSE More(f[i - 1], s, at, i)
        BY <2>2, <4>1 DEF Grows
      <4>3. g[i] = f[i]
        BY <3>2
      <4>4. i # 0 => g[i - 1] = f[i - 1]
        BY <2>1, <4>1
      <4>5. QED BY <4>2, <4>3, <4>4
    <3>3. QED BY <3>1, <3>2
  <2>4. g = [i \in 0..k |-> g[i]]
    OBVIOUS
  <2> HIDE DEF g
  <2>5. Grows(g, s, at, k)
    BY <2>3, <2>4, Zenon DEF Grows
  <2>6. QED BY <2>5
<1>4. QED BY <1>2, <1>3

\* Only is what that function has at the end.
LEMMA OnlyTaken ==
  ASSUME NEW T, NEW s \in Seq(T), NEW at
  PROVE  \E g : Grows(g, s, at, Len(s)) /\ Only(s, at) = g[Len(s)]
<1> DEFINE n == Len(s)
           G == CHOOSE g : g = [i \in 0..n |-> IF i = 0 THEN <<>>
                                               ELSE IF i \in at THEN Append(g[i - 1], s[i])
                                               ELSE g[i - 1]]
<1>1. n \in Nat
  OBVIOUS
<1>2. Only(s, at) = G[n]
  BY DEF Only
<1>3. PICK f : Grows(f, s, at, n)
  BY <1>1, GrowsExists
<1>4. f = [i \in 0..n |-> IF i = 0 THEN <<>>
                          ELSE IF i \in at THEN Append(f[i - 1], s[i]) ELSE f[i - 1]]
  BY <1>3 DEF Grows, More
<1>5. G = [i \in 0..n |-> IF i = 0 THEN <<>>
                          ELSE IF i \in at THEN Append(G[i - 1], s[i]) ELSE G[i - 1]]
  BY <1>4
<1>6. Grows(G, s, at, n)
  BY <1>5 DEF Grows, More
<1>7. QED BY <1>2, <1>6

\* h tells where the elements of t stand among the first i of s.
Places(h, t, s, at, i) ==
  /\ h \in [1..Len(t) -> at \cap (1..i)]
  /\ \A j \in 1..Len(t) : \A k \in 1..Len(t) : j < k => h[j] < h[k]
  /\ \A j \in at \cap (1..i) : \E k \in 1..Len(t) : h[k] = j
  /\ \A k \in 1..Len(t) : t[k] = s[h[k]]
  /\ 1..i \subseteq at => Len(t) = i /\ \A k \in 1..i : h[k] = k

\* One more place of the sequence is taken, behind those taken before, or passed over.
LEMMA PlacesMore ==
  ASSUME NEW T, NEW s \in Seq(T), NEW at, NEW i \in 1..Len(s),
         NEW t \in Seq(T), NEW h, Places(h, t, s, at, i - 1)
  PROVE  More(t, s, at, i) \in Seq(T) /\ \E f : Places(f, More(t, s, at, i), s, at, i)
<1>1. i \in Nat /\ i - 1 \in Nat /\ Len(s) \in Nat /\ s[i] \in T /\ Len(t) \in Nat
  OBVIOUS
<1>2. 1..i = (1..(i - 1)) \cup {i}
  BY <1>1
<1>3. CASE i \notin at
  <2>1. More(t, s, at, i) = t /\ at \cap (1..i) = at \cap (1..(i - 1))
    BY <1>2, <1>3 DEF More
  <2>2. ~(1..i \subseteq at)
    BY <1>2, <1>3
  <2>3. Places(h, t, s, at, i)
    BY <2>1, <2>2 DEF Places
  <2>4. QED BY <2>1, <2>3
<1>4. CASE i \in at
  <2> DEFINE m == Len(t)
             u == Append(t, s[i])
             f == [k \in 1..(m + 1) |-> IF k = m + 1 THEN i ELSE h[k]]
  <2>1. More(t, s, at, i) = u /\ at \cap (1..i) = (at \cap (1..(i - 1))) \cup {i}
    BY <1>2, <1>4 DEF More
  <2>2. /\ u \in Seq(T) /\ Len(u) = m + 1 /\ u[m + 1] = s[i]
        /\ \A k \in 1..m : u[k] = t[k]
    BY <1>1
  <2>3. 1..(m + 1) = (1..m) \cup {m + 1} /\ m + 1 \notin 1..m
    BY <1>1
  <2>4. f[m + 1] = i /\ \A k \in 1..m : f[k] = h[k]
    BY <1>1, <2>3
  <2>5. \A k \in 1..m : h[k] \in at \cap (1..(i - 1))
    BY DEF Places
  <2>6. f \in [1..(m + 1) -> at \cap (1..i)]
    BY <2>1, <2>3, <2>4, <2>5
  <2> HIDE DEF f, u
  <2>7. \A j \in 1..(m + 1) : \A k \in 1..(m + 1) : j < k => f[j] < f[k]
    <3> SUFFICES ASSUME NEW j \in 1..(m + 1), NEW k \in 1..(m + 1), j < k
                 PROVE  f[j] < f[k]
      OBVIOUS
    <3>1. j \in 1..m
      BY <1>1
    <3>2. CASE k = m + 1
      <4>1. f[j] = h[j] /\ f[k] = i /\ h[j] \in 1..(i - 1)
        BY <2>4, <2>5, <3>1, <3>2
      <4>2. QED BY <1>1, <4>1
    <3>3. CASE k # m + 1
      <4>1. k \in 1..m
        BY <1>1, <3>3
      <4>2. QED BY <2>4, <3>1, <4>1 DEF Places
    <3>4. QED BY <3>2, <3>3
  <2>8. \A j \in at \cap (1..i) : \E k \in 1..(m + 1) : f[k] = j
    <3>1. ASSUME NEW j \in at \cap (1..(i - 1)) PROVE \E k \in 1..(m + 1) : f[k] = j
      <4>1. PICK k \in 1..m : h[k] = j
        BY DEF Places
      <4>2. QED BY <2>3, <2>4, <4>1
    <3>2. \E k \in 1..(m + 1) : f[k] = i
      BY <2>3, <2>4
    <3>3. QED BY <2>1, <3>1, <3>2
  <2>9. \A k \in 1..(m + 1) : u[k] = s[f[k]]
    BY <2>2, <2>3, <2>4 DEF Places
  <2>10. 1..i \subseteq at => m + 1 = i /\ \A k \in 1..i : f[k] = k
    <3> SUFFICES ASSUME 1..i \subseteq at PROVE m + 1 = i /\ \A k \in 1..i : f[k] = k
      OBVIOUS
    <3>1. m = i - 1 /\ \A k \in 1..(i - 1) : h[k] = k
      BY <1>2 DEF Places
    <3>2. m + 1 = i
      BY <1>1, <3>1
    <3>3. QED BY <1>2, <2>4, <3>1, <3>2
  <2>11. Places(f, u, s, at, i)
    BY <2>2, <2>6, <2>7, <2>8, <2>9, <2>10 DEF Places
  <2>12. QED BY <2>1, <2>2, <2>11
<1>5. QED BY <1>3, <1>4

\* What is taken are the elements at the positions asked for, each once and in order.
LEMMA OnlyPlaces ==
  ASSUME NEW T, NEW s \in Seq(T), NEW at
  PROVE  Only(s, at) \in Seq(T) /\ \E h : Places(h, Only(s, at), s, at, Len(s))
<1> DEFINE n == Len(s)
<1>1. PICK g : Grows(g, s, at, n) /\ Only(s, at) = g[n]
  BY OnlyTaken
<1> DEFINE Good(i) == g[i] \in Seq(T) /\ \E h : Places(h, g[i], s, at, i)
           bad == {i \in 0..n : ~Good(i)}
<1>2. n \in Nat
  OBVIOUS
<1>3. bad = {}
  <2> SUFFICES ASSUME bad # {} PROVE FALSE
    OBVIOUS
  <2>1. bad \in SUBSET Nat
    BY <1>2
  <2>2. PICK i \in bad : \A j \in bad : i <= j
    BY <2>1, LeastOne
  <2> HIDE DEF Good
  <2>3. i \in 0..n /\ g[i] = IF i = 0 THEN <<>> ELSE More(g[i - 1], s, at, i)
    BY <1>1 DEF Grows
  <2>4. CASE i = 0
    <3> DEFINE h == [k \in 1..0 |-> k]
    <3>1. g[i] = <<>>
      BY <2>3, <2>4
    <3>2. <<>> \in Seq(T) /\ Len(<<>>) = 0 /\ 1..0 = {}
      OBVIOUS
    <3>3. Places(h, <<>>, s, at, 0)
      BY <3>2 DEF Places
    <3>4. Good(i)
      BY <2>4, <3>1, <3>2, <3>3 DEF Good
    <3>5. QED BY <2>2, <3>4
  <2>5. CASE i # 0
    <3>1. i \in 1..n /\ i - 1 \in 0..n /\ i - 1 < i /\ i \in Nat /\ i - 1 \in Nat
      BY <1>2, <2>3, <2>5
    <3>2. i - 1 \notin bad
      BY <2>2, <3>1
    <3>3. Good(i - 1)
      BY <3>1, <3>2
    <3>4. PICK h : Places(h, g[i - 1], s, at, i - 1)
      BY <3>3 DEF Good
    <3>5. g[i] = More(g[i - 1], s, at, i)
      BY <2>3, <2>5
    <3>6. Good(i)
      <4> DEFINE t == g[i - 1]
      <4>1. t \in Seq(T) /\ Places(h, t, s, at, i - 1) /\ g[i] = More(t, s, at, i)
        BY <3>3, <3>4, <3>5 DEF Good
      <4> HIDE DEF t
      <4>2. More(t, s, at, i) \in Seq(T) /\ \E f : Places(f, More(t, s, at, i), s, at, i)
        BY <3>1, <4>1, PlacesMore
      <4>3. QED BY <4>1, <4>2 DEF Good
    <3>7. QED BY <2>2, <3>6
  <2>6. QED BY <2>4, <2>5
<1>4. n \in 0..n
  BY <1>2
<1>5. Good(n)
  BY <1>3, <1>4
<1>6. QED BY <1>1, <1>5

\* Nothing is taken if nothing is asked for, and then only; all is taken if all is asked for.
LEMMA OnlyNone ==
  ASSUME NEW T, NEW s \in Seq(T), NEW at, at \cap DOMAIN s = {}
  PROVE  Only(s, at) = <<>>
<1> DEFINE t == Only(s, at)
<1>1. t \in Seq(T)
  BY OnlyPlaces
<1>2. PICK h : Places(h, t, s, at, Len(s))
  BY OnlyPlaces
<1> HIDE DEF t
<1>3. h \in [1..Len(t) -> {}]
  BY <1>2 DEF Places
<1>4. 1 \notin 1..Len(t)
  BY <1>3
<1>5. t = <<>>
  BY <1>1, <1>4
<1>6. QED BY <1>5 DEF t

\* If nothing was taken, there was none to take.
LEMMA OnlyEmpty ==
  ASSUME NEW T, NEW s \in Seq(T), NEW at, Only(s, at) = <<>>
  PROVE  at \cap DOMAIN s = {}
<1>1. PICK h : Places(h, <<>>, s, at, Len(s))
  BY OnlyPlaces
<1>2. \A j \in at \cap (1..Len(s)) : \E k \in 1..Len(<<>>) : h[k] = j
  BY <1>1 DEF Places
<1>3. 1..Len(<<>>) = {}
  OBVIOUS
<1>4. QED BY <1>2, <1>3

\* If every place is taken, nothing is changed.
LEMMA OnlyAll ==
  ASSUME NEW T, NEW s \in Seq(T), NEW at, DOMAIN s \subseteq at
  PROVE  Only(s, at) = s
<1>1. Only(s, at) \in Seq(T)
  BY OnlyPlaces
<1>2. PICK h : Places(h, Only(s, at), s, at, Len(s))
  BY OnlyPlaces
<1>3. 1..Len(s) \subseteq at
  OBVIOUS
<1>4. /\ Len(Only(s, at)) = Len(s) /\ \A k \in 1..Len(s) : h[k] = k
      /\ \A k \in 1..Len(Only(s, at)) : Only(s, at)[k] = s[h[k]]
  BY <1>2, <1>3 DEF Places
<1>5. \A k \in 1..Len(s) : Only(s, at)[k] = s[k]
  BY <1>4
<1>6. QED BY <1>1, <1>4, <1>5

\* The first stays the first.
LEMMA OnlyHead ==
  ASSUME NEW T, NEW s \in Seq(T), s # <<>>, NEW at, 1 \in at
  PROVE  Only(s, at) # <<>> /\ Head(Only(s, at)) = Head(s)
<1> DEFINE t == Only(s, at)
<1>1. t \in Seq(T)
  BY OnlyPlaces
<1>2. PICK h : Places(h, t, s, at, Len(s))
  BY OnlyPlaces
<1> HIDE DEF t
<1>3. 1 \in at \cap (1..Len(s)) /\ Len(t) \in Nat
  BY <1>1
<1>4. PICK k \in 1..Len(t) : h[k] = 1
  BY <1>2, <1>3 DEF Places
<1>5. 1 \in 1..Len(t) /\ h[1] \in 1..Len(s)
  BY <1>2, <1>3, <1>4 DEF Places
<1>6. k = 1
  <2>1. 1 < k => h[1] < h[k]
    BY <1>2, <1>5 DEF Places
  <2>2. QED BY <1>3, <1>4, <1>5, <2>1
<1>7. t[1] = s[1]
  BY <1>2, <1>4, <1>5, <1>6 DEF Places
<1>8. QED BY <1>1, <1>5, <1>7 DEF t

\* Each element taken is one of those asked for, and no two are the same one.
LEMMA OnlyEach ==
  ASSUME NEW T, NEW s \in Seq(T), NEW at
  PROVE  \E h : /\ h \in [DOMAIN Only(s, at) -> at \cap DOMAIN s]
                /\ \A k \in DOMAIN Only(s, at) : Only(s, at)[k] = s[h[k]]
                /\ \A j \in DOMAIN Only(s, at) : \A k \in DOMAIN Only(s, at) : h[j] = h[k] => j = k
<1> DEFINE t == Only(s, at)
<1>1. t \in Seq(T)
  BY OnlyPlaces
<1>2. PICK h : Places(h, t, s, at, Len(s))
  BY OnlyPlaces
<1> HIDE DEF t
<1>3. DOMAIN t = 1..Len(t) /\ Len(t) \in Nat /\ DOMAIN s = 1..Len(s)
  BY <1>1
<1>4. /\ h \in [DOMAIN t -> at \cap DOMAIN s]
      /\ \A k \in DOMAIN t : t[k] = s[h[k]]
  BY <1>2, <1>3 DEF Places
<1>5. ASSUME NEW j \in DOMAIN t, NEW k \in DOMAIN t, h[j] = h[k] PROVE j = k
  <2>1. h[j] \in Nat /\ h[k] \in Nat
    BY <1>3, <1>4
  <2>2. j \in 1..Len(t) /\ k \in 1..Len(t)
    BY <1>3
  <2>3. (j < k => h[j] < h[k]) /\ (k < j => h[k] < h[j])
    BY <1>2, <2>2 DEF Places
  <2>4. QED BY <1>3, <1>5, <2>1, <2>2, <2>3
<1>6. QED BY <1>4, <1>5 DEF t

-----------------------------------------------------------------------------
(* What is said in a message, and what is referred to *)

\* A word is said or it is a reference.
LEMMA WordKinds ==
  ASSUME NEW w \in Word
  PROVE  /\ w.kind \in Said \/ w.kind \in Links
         /\ ~(w.kind \in Said /\ w.kind \in Links)
BY DEF Word, Said, Links, Commands

\* A function on 1..n with its values in S is a sequence over S of length n.
LEMMA AsSequence ==
  ASSUME NEW S, NEW n \in Nat, NEW f \in [1..n -> S]
  PROVE  f \in Seq(S) /\ Len(f) = n
BY ONLY n \in Nat, f \in [1..n -> S]

\* The references of a message come in three lists.
LEMMA ThreeLists ==
  ASSUME NEW words \in Seq(Word)
  PROVE  LET quoted    == Those(words, {"quoted"})
             plain     == Those(words, {"plain"})
             Linked(w) == w.kind = "wiki" \/ (w.kind \in Links /\ w.arg \in DOMAIN Inner)
             links     == Only(words, {i \in DOMAIN words : Linked(words[i])})
             refs      == ParseReferences(words).refs
         IN  /\ \E V : refs \in Seq(V) /\ \A v \in V : v.type \in {"uuid", "title", "partial"}
             /\ Len(refs) = Len(quoted) + Len(plain) + Len(links)
             /\ quoted \in Seq(Word) /\ plain \in Seq(Word) /\ links \in Seq(Word)
<1> DEFINE quoted == Those(words, {"quoted"})
           plain  == Those(words, {"plain"})
           Linked(w) == w.kind = "wiki" \/ (w.kind \in Links /\ w.arg \in DOMAIN Inner)
           links  == Only(words, {i \in DOMAIN words : Linked(words[i])})
           one(i)   == [type |-> "title", value |-> quoted[i].arg]
           two(i)   == [type |-> TypeOf(plain[i].arg), value |-> plain[i].arg]
           three(i) == [type  |-> "title",
                        value |-> IF links[i].kind = "wiki" THEN links[i].arg
                                  ELSE Inner[links[i].arg]]
           A == [i \in DOMAIN quoted |-> one(i)]
           B == [i \in DOMAIN plain |-> two(i)]
           C == [i \in DOMAIN links |-> three(i)]
           V == {A[i] : i \in DOMAIN A} \cup {B[i] : i \in DOMAIN B} \cup {C[i] : i \in DOMAIN C}
<1>1. ParseReferences(words).refs = (A \o B) \o C
  BY DEF ParseReferences, Titles, Wiki
<1>2. quoted \in Seq(Word) /\ plain \in Seq(Word) /\ links \in Seq(Word)
  BY OnlyPlaces DEF Those
<1>2a. \A i : /\ one(i).type = "title" /\ two(i).type \in {"uuid", "partial"}
              /\ three(i).type = "title"
  BY DEF TypeOf
<1> HIDE DEF quoted, plain, links, one, two, three
<1>2b. \A v \in V : v.type \in {"uuid", "title", "partial"}
  BY <1>2a
<1>2c. /\ Len(quoted) \in Nat /\ A \in [1..Len(quoted) -> V]
       /\ Len(plain) \in Nat /\ B \in [1..Len(plain) -> V]
       /\ Len(links) \in Nat /\ C \in [1..Len(links) -> V]
  BY <1>2
<1> HIDE DEF A, B, C, V
<1>3. A \in Seq(V) /\ Len(A) = Len(quoted)
  BY ONLY <1>2c, AsSequence
<1>4. B \in Seq(V) /\ Len(B) = Len(plain)
  BY ONLY <1>2c, AsSequence
<1>5. C \in Seq(V) /\ Len(C) = Len(links)
  BY ONLY <1>2c, AsSequence
<1> DEFINE D == A \o B
<1>6. D \in Seq(V) /\ Len(D) = Len(quoted) + Len(plain)
  BY <1>3, <1>4
<1> HIDE DEF D
<1>7a. D \o C \in Seq(V) /\ Len(D \o C) = Len(D) + Len(C)
  BY <1>5, <1>6
<1>7. (A \o B) \o C \in Seq(V) /\ Len((A \o B) \o C) = Len(quoted) + Len(plain) + Len(links)
  BY <1>5, <1>6, <1>7a DEF D
<1>8. QED BY <1>1, <1>2, <1>2b, <1>7 DEF quoted, plain, links

\* A message has references just if a word of it is one.
LEMMA Refers ==
  ASSUME NEW words \in Seq(Word)
  PROVE  (ParseReferences(words).refs # <<>>) <=> \E i \in DOMAIN words : words[i].kind \in Links
<1> DEFINE quoted == Those(words, {"quoted"})
           plain  == Those(words, {"plain"})
           Linked(w) == w.kind = "wiki" \/ (w.kind \in Links /\ w.arg \in DOMAIN Inner)
           links  == Only(words, {i \in DOMAIN words : Linked(words[i])})
           refs   == ParseReferences(words).refs
<1>1. /\ Len(refs) = Len(quoted) + Len(plain) + Len(links)
      /\ quoted \in Seq(Word) /\ plain \in Seq(Word) /\ links \in Seq(Word)
      /\ \E V : refs \in Seq(V)
  BY ThreeLists
<1> HIDE DEF quoted, plain, links, refs
<1>2. refs = <<>> <=> (quoted = <<>> /\ plain = <<>> /\ links = <<>>)
  <2>1. Len(quoted) \in Nat /\ Len(plain) \in Nat /\ Len(links) \in Nat
    BY <1>1
  <2>2. refs = <<>> <=> Len(refs) = 0
    BY <1>1
  <2>3. /\ quoted = <<>> <=> Len(quoted) = 0
        /\ plain = <<>> <=> Len(plain) = 0
        /\ links = <<>> <=> Len(links) = 0
    BY <1>1
  <2>4. QED BY <1>1, <2>1, <2>2, <2>3
<1>3. CASE refs = <<>>
  <2>1. {i \in DOMAIN words : words[i].kind \in {"quoted"}} \cap DOMAIN words = {}
    BY <1>2, <1>3, OnlyEmpty DEF quoted, Those
  <2>2. {i \in DOMAIN words : words[i].kind \in {"plain"}} \cap DOMAIN words = {}
    BY <1>2, <1>3, OnlyEmpty DEF plain, Those
  <2>3. {i \in DOMAIN words : Linked(words[i])} \cap DOMAIN words = {}
    BY <1>2, <1>3, OnlyEmpty DEF links
  <2>4. \A i \in DOMAIN words : words[i].kind \notin {"quoted", "plain", "wiki"}
    BY <2>1, <2>2, <2>3
  <2>5. QED BY <1>3, <2>4 DEF Links, refs
<1>4. CASE refs # <<>>
  <2>1. SUFFICES ASSUME \A i \in DOMAIN words : words[i].kind \notin Links PROVE FALSE
    BY <1>4 DEF refs
  <2>2. /\ {i \in DOMAIN words : words[i].kind \in {"quoted"}} \cap DOMAIN words = {}
        /\ {i \in DOMAIN words : words[i].kind \in {"plain"}} \cap DOMAIN words = {}
        /\ {i \in DOMAIN words : Linked(words[i])} \cap DOMAIN words = {}
    BY <2>1 DEF Links
  <2>3. quoted = <<>> /\ plain = <<>> /\ links = <<>>
    BY <2>2, OnlyNone DEF quoted, plain, links, Those
  <2>4. QED BY <1>2, <1>4, <2>3
<1>5. QED BY <1>3, <1>4

\* What is taken out of a message leaves its first word where it is.
LEMMA SaidHead ==
  ASSUME NEW words \in Seq(Word), words # <<>>, Head(words).kind \notin Links
  PROVE  Those(words, Said) # <<>> /\ Head(Those(words, Said)) = Head(words)
<1>1. 1 \in DOMAIN words /\ words[1] = Head(words) /\ words[1] \in Word
  OBVIOUS
<1>2. 1 \in {i \in DOMAIN words : words[i].kind \in Said}
  BY <1>1, WordKinds
<1>3. QED BY <1>2, OnlyHead DEF Those

\* A prefix asks for a mode, and is cut off, if need be with what is glued to it; all else is as
\* it was.
LEMMA ParseFacts ==
  ASSUME NEW words
  PROVE  \/ /\ words # <<>> /\ Head(words).kind \in Commands
            /\ Parse(words).mode = Asks(Head(words)) /\ Parse(words).mode \in Sticky
            /\ \/ Parse(words).clean = Tail(words)
               \/ /\ Head(words).kind # "/bypass" /\ ~Apart(words)
                  /\ Parse(words).clean = After(words)
         \/ Parse(words).mode = "RAG" /\ Parse(words).clean = words
<1>1. CASE ~Obeyed(words)
  BY <1>1 DEF Parse
<1>2. CASE Obeyed(words) /\ Head(words).kind = "/bypass"
  BY <1>2 DEF Parse, Obeyed, Asks, Commands, Sticky
<1>3. CASE Obeyed(words) /\ Head(words).kind # "/bypass"
  <2>1. /\ Parse(words).mode = Asks(Head(words))
        /\ Parse(words).clean = KeyAndPrompt(words)[2]
    BY <1>3 DEF Parse
  <2>2. Asks(Head(words)) \in Sticky /\ words # <<>> /\ Head(words).kind \in Commands
    BY <1>3 DEF Obeyed, Asks, Commands, Sticky
  <2>3. \/ KeyAndPrompt(words)[2] = Tail(words)
        \/ ~Apart(words) /\ KeyAndPrompt(words)[2] = After(words)
    BY DEF KeyAndPrompt
  <2>4. QED BY <1>3, <2>1, <2>2, <2>3
<1>4. QED BY <1>1, <1>2, <1>3

\* With its white space made single spaces, a sequence of words has the same first word and ends
\* that word at a space.
LEMMA SpacedHead ==
  ASSUME NEW s \in Seq(Word), s # <<>>
  PROVE  /\ Spaced(s) # <<>> /\ Apart(Spaced(s))
         /\ Head(Spaced(s)).kind = Head(s).kind
         /\ Head(s).kind \in Commands => Head(Spaced(s)).arg = Head(s).arg
<1>1. Len(s) \in Nat \ {0} /\ DOMAIN s = 1..Len(s) /\ Head(s) = s[1] /\ s[1] \in Word
  OBVIOUS
<1> DEFINE t == Spaced(s)
<1>2. t = [i \in 1..Len(s) |-> [s[i] EXCEPT !.gap = "space"]]
  BY <1>1 DEF Spaced
<1> DEFINE V == {t[i] : i \in 1..Len(s)}
<1>3. t \in Seq(V) /\ Len(t) = Len(s)
  <2>1. t \in [1..Len(s) -> V] /\ Len(s) \in Nat
    BY <1>1, <1>2
  <2> HIDE DEF t, V
  <2>2. QED BY <2>1, AsSequence
<1>3a. \A i \in 1..Len(s) : t[i] = [s[i] EXCEPT !.gap = "space"]
  BY <1>2
<1> HIDE DEF t, V
<1>4. t # <<>> /\ Head(t) = t[1] /\ t[1] = [s[1] EXCEPT !.gap = "space"]
  BY <1>1, <1>3, <1>3a
<1>5. \A w \in Word : /\ [w EXCEPT !.gap = "space"].kind = w.kind
                      /\ w.kind \in Commands => [w EXCEPT !.gap = "space"].arg = w.arg
                      /\ [w EXCEPT !.gap = "space"].gap = "space"
  BY DEF Word, Commands, Links
<1>6. Len(t) = 1 \/ t[2].gap = "space"
  <2>1. CASE Len(s) = 1
    BY <1>3, <2>1
  <2>2. CASE Len(s) # 1
    <3>1. 2 \in 1..Len(s) /\ s[2] \in Word
      BY <1>1, <2>2
    <3>2. QED BY <1>3a, <1>5, <3>1
  <2>3. QED BY <2>1, <2>2
<1>7. /\ Head(t).kind = s[1].kind
      /\ s[1].kind \in Commands => Head(t).arg = s[1].arg
  <2>1. s[1] \in Word /\ Head(t) = [s[1] EXCEPT !.gap = "space"]
    BY <1>1, <1>4
  <2>2. QED BY <1>5, <2>1, Zenon
<1>8. QED BY <1>1, <1>4, <1>6, <1>7 DEF Apart, t

\* The mode a prompt asks for is told by its first word and where that ends: a bypass found when
\* all white space is single spaces was found before, but for a plain one not ending at a space.
LEMMA ParseHead ==
  ASSUME RoutingAssumption, NEW words, NEW other, words # <<>>, other # <<>>, Apart(other),
         Head(words).kind = Head(other).kind,
         Head(words).kind \in Commands => Head(other).arg = Head(words).arg,
         Parse(other).mode \in {"BYPASS", "BYPASS_NUANCE"},
         ~(Head(words).kind = "/bypass" /\ ~Apart(words))
  PROVE  Parse(words).mode \in {"BYPASS", "BYPASS_NUANCE"}
<1>1. Obeyed(other) /\ Head(other).kind \in Commands
  BY DEF Parse, Obeyed
<1>2. CASE Head(words).kind = "/bypass"
  <2>1. Obeyed(words)
    BY <1>2 DEF Obeyed, Commands
  <2>2. QED BY <1>2, <2>1 DEF Parse
<1>3. CASE Head(words).kind # "/bypass"
  <2>1. Parse(other).mode = Asks(Head(other))
    BY <1>1, <1>3 DEF Parse
  <2>2. Head(words).kind = "/bypass/nuance:"
    BY <1>1, <1>3, <2>1 DEF Asks, Commands
  <2>3. Head(words).arg # NoKey
    BY <1>1, <1>3 DEF Obeyed, KeyAndPrompt
  <2>4. KeyAndPrompt(words)[1] # NoKey
    BY <2>3 DEF KeyAndPrompt, RoutingAssumption
  <2>5. Obeyed(words)
    BY <1>1, <1>3, <2>4 DEF Obeyed
  <2>6. QED BY <1>3, <2>2, <2>5 DEF Parse, Asks
<1>4. QED BY <1>2, <1>3

-----------------------------------------------------------------------------
(* Answers *)

\* The fields of an answer, from notes referred to or from a pipeline.
LEMMA AnswerFields ==
  ASSUME mode \in Sticky \cup {NoKey}, NEW m, NEW a \in Answers(m)
  PROVE  LET inline == ParseReferences(m.words)
             words  == IF m.picked = <<>> /\ inline.refs # <<>> THEN inline.clean ELSE m.words
             found  == IF m.picked # <<>> THEN {Picked(m.picked)} ELSE Resolve(inline.refs)
             r      == Routed(words)
         IN  /\ a.msg = m /\ a.locked = mode /\ a.primed = Primed(m.words)
             /\ \/ a.by = "explicit" /\ a.text = words /\ a.refs \in found
                \/ /\ a.by # "explicit" /\ a.text = r.text /\ a.mode = r.mode /\ a.refs = <<>>
                   /\ a.by = "bypass" => r.mode \in {"BYPASS", "BYPASS_NUANCE"}
<1> DEFINE inline == ParseReferences(m.words)
           words  == IF m.picked = <<>> /\ inline.refs # <<>> THEN inline.clean ELSE m.words
           found  == IF m.picked # <<>> THEN {Picked(m.picked)} ELSE Resolve(inline.refs)
           r      == Routed(words)
<1>1. PICK f \in found :
        a = IF Resolved(f) # <<>> THEN Answer(m, "explicit", NoKey, words, NoKey, f)
            ELSE Answer(m, Execute(r).by, r.mode, r.text, Execute(r).nuance, <<>>)
  BY DEF Answers
<1>2. r.mode \in Sticky \cup {"RAG"}
  BY ParseFacts DEF Routed
<1> HIDE DEF words, found, r
<1>3. /\ Execute(r).by \in {"help", "bypass", "rag"}
      /\ Execute(r).by = "bypass" => r.mode \in {"BYPASS", "BYPASS_NUANCE"}
  <2>1. CASE r.text = <<>> /\ r.mode # "RAG"
    BY <2>1 DEF Execute, Help
  <2>2. CASE r.text # <<>> /\ r.mode \in {"BYPASS", "BYPASS_NUANCE"}
    BY <2>2 DEF Execute, Bypass
  <2>3. CASE r.mode = "RAG" \/ (r.text # <<>> /\ r.mode = "RAG_NUANCE")
    BY <2>3 DEF Execute, Rag
  <2>4. QED BY <1>2, <2>1, <2>2, <2>3 DEF Sticky
<1>4. CASE Resolved(f) # <<>>
  <2>1. a = Answer(m, "explicit", NoKey, words, NoKey, f)
    BY <1>1, <1>4
  <2>2. /\ a.msg = m /\ a.locked = mode /\ a.primed = Primed(m.words)
        /\ a.by = "explicit" /\ a.text = words /\ a.refs = f
    BY <2>1 DEF Answer
  <2>3. QED BY <1>1, <2>2 DEF words, found, r
<1>5. CASE ~(Resolved(f) # <<>>)
  <2>1. a = Answer(m, Execute(r).by, r.mode, r.text, Execute(r).nuance, <<>>)
    BY <1>1, <1>5
  <2>2. /\ a.msg = m /\ a.locked = mode /\ a.primed = Primed(m.words)
        /\ a.by = Execute(r).by /\ a.text = r.text /\ a.mode = r.mode /\ a.refs = <<>>
    BY <2>1 DEF Answer
  <2>3. QED BY <1>3, <2>2 DEF words, found, r
<1>6. QED BY <1>4, <1>5

\* No note is twice in a list.
Once(f) == \A j \in DOMAIN f : \A k \in DOMAIN f : j # k /\ f[j] = f[k] => f[j] = NoKey

\* Whatever is looked up finds notes of the user only.
LEMMA FindsMine ==
  ASSUME NEW ref
  PROVE  ref.type \in {"uuid", "title", "partial"} => FindsOf(ref) \subseteq Mine
BY DEF FindsOf, ByUUID, ByTitle, ByNoteTitle, ByPartial, Visible

\* What references are looked up as are notes of the user, or none.
LEMMA LookupsMine ==
  ASSUME NEW V, \A v \in V : v.type \in {"uuid", "title", "partial"}, NEW refs \in Seq(V),
         NEW f \in Lookups(refs)
  PROVE  f \in Seq(Mine \cup {NoKey})
<1>1. /\ f \in [DOMAIN refs -> Notes \cup {NoKey}]
      /\ \A i \in DOMAIN refs : f[i] \in IF FindsOf(refs[i]) = {} THEN {NoKey} ELSE FindsOf(refs[i])
  BY DEF Lookups
<1>2. \A i \in DOMAIN refs : f[i] \in Mine \cup {NoKey}
  <2>1. \A i \in DOMAIN refs : refs[i].type \in {"uuid", "title", "partial"}
    OBVIOUS
  <2>2. QED BY <1>1, <2>1, FindsMine
<1>3. Len(refs) \in Nat /\ f \in [1..Len(refs) -> Mine \cup {NoKey}]
  BY <1>1, <1>2
<1>4. QED BY ONLY <1>3, AsSequence

\* Resolving blanks every repetition of a note.
LEMMA ResolveOnce ==
  ASSUME NEW V, \A v \in V : v.type \in {"uuid", "title", "partial"}, NEW refs \in Seq(V),
         NEW g \in Resolve(refs)
  PROVE  g \in Seq(Mine \cup {NoKey}) /\ Once(g)
<1> DEFINE New(f) == {i \in DOMAIN f : f[i] = NoKey \/ \A j \in 1..(i - 1) : f[j] # f[i]}
<1>1. PICK f \in Lookups(refs) : g = Only(f, New(f))
  BY DEF Resolve
<1>2. f \in Seq(Mine \cup {NoKey})
  BY LookupsMine
<1> DEFINE at == New(f)
<1>3. \A i \in at : i \in Nat /\ (f[i] = NoKey \/ \A j \in 1..(i - 1) : f[j] # f[i])
  BY <1>2
<1>4. g = Only(f, at)
  BY <1>1
<1>4a. at \subseteq DOMAIN f /\ DOMAIN f \subseteq Nat \ {0}
  BY <1>2
<1> HIDE DEF at
<1>5. g \in Seq(Mine \cup {NoKey})
  BY <1>2, <1>4, OnlyPlaces
<1>6. PICK h : /\ h \in [DOMAIN g -> at \cap DOMAIN f]
               /\ \A k \in DOMAIN g : g[k] = f[h[k]]
               /\ \A j \in DOMAIN g : \A k \in DOMAIN g : h[j] = h[k] => j = k
  BY <1>2, <1>4, OnlyEach
<1>7. ASSUME NEW j \in DOMAIN g, NEW k \in DOMAIN g, j # k, g[j] = g[k] PROVE g[j] = NoKey
  <2>1. h[j] \in at /\ h[k] \in at /\ h[j] # h[k] /\ f[h[j]] = f[h[k]] /\ g[j] = f[h[j]]
    BY <1>6, <1>7
  <2>2. h[j] \in Nat \ {0} /\ h[k] \in Nat \ {0}
    BY <1>4a, <2>1
  <2>3. CASE h[j] < h[k]
    <3>1. h[j] \in 1..(h[k] - 1)
      BY <2>2, <2>3
    <3>2. QED BY <1>3, <2>1, <3>1
  <2>4. CASE h[k] < h[j]
    <3>1. h[k] \in 1..(h[j] - 1)
      BY <2>2, <2>4
    <3>2. QED BY <1>3, <2>1, <3>1
  <2>5. QED BY <2>1, <2>2, <2>3, <2>4
<1>8. QED BY <1>5, <1>7 DEF Once

\* What is reported with a message: notes of the user, and each once if it was looked for.
RefsInv ==
  /\ last.refs \in Seq(Mine \cup {NoKey})
  /\ last.msg.picked = <<>> => Once(last.refs)
  /\ last.by # "explicit" => last.refs = <<>>

\* The last message was sent in a mode there is, and its answer is what the properties say.
RoutingInv ==
  /\ mode \in Sticky \cup {NoKey}
  /\ RefsInv /\ NothingIsLost /\ BypassIsClean

\* The references reported with a message are notes of the user, and each once if it was looked
\* for.
LEMMA FoundRefs ==
  ASSUME RoutingAssumption, NEW m \in Messages,
         NEW g \in IF m.picked # <<>> THEN {Picked(m.picked)}
                   ELSE Resolve(ParseReferences(m.words).refs)
  PROVE  g \in Seq(Mine \cup {NoKey}) /\ (m.picked = <<>> => Once(g))
<1>1. m.words \in Seq(Word) /\ m.picked \in Seq(Notes)
  BY DEF RoutingAssumption
<1>2. CASE m.picked # <<>>
  <2>1. g = [i \in DOMAIN m.picked |-> IF m.picked[i] \in Visible THEN m.picked[i] ELSE NoKey]
    BY <1>2 DEF Picked
  <2> DEFINE n == Len(m.picked)
  <2>2. n \in Nat /\ DOMAIN m.picked = 1..n
    BY <1>1
  <2>3. \A i \in 1..n :
          (IF m.picked[i] \in Visible THEN m.picked[i] ELSE NoKey) \in Mine \cup {NoKey}
    BY DEF Visible
  <2>4. g \in [1..n -> Mine \cup {NoKey}]
    BY <2>1, <2>2, <2>3
  <2> HIDE DEF n
  <2>5. g \in Seq(Mine \cup {NoKey})
    BY <2>2, <2>4
  <2>6. QED BY <1>2, <2>5
<1>3. CASE m.picked = <<>>
  <2>1. PICK V : /\ ParseReferences(m.words).refs \in Seq(V)
                 /\ \A v \in V : v.type \in {"uuid", "title", "partial"}
    BY <1>1, ThreeLists
  <2>2. g \in Resolve(ParseReferences(m.words).refs)
    BY <1>3
  <2>3. QED BY <2>1, <2>2, ResolveOnce
<1>4. QED BY <1>2, <1>3

-----------------------------------------------------------------------------
(* Steps *)

\* A session begins with all parts of RoutingInv.
LEMMA RoutingStart ==
  ASSUME RoutingInit
  PROVE  RoutingInv
<1>1. /\ mode = NoKey
      /\ last = [msg |-> Nothing, locked |-> NoKey, by |-> "nobody", mode |-> NoKey, text |-> <<>>,
                 nuance |-> NoKey, primed |-> FALSE, refs |-> <<>>]
  BY DEF RoutingInit
<1>2. /\ last.refs = <<>> /\ last.by = "nobody" /\ last.text = <<>>
      /\ last.msg.words = <<>> /\ last.msg.picked = <<>>
  BY <1>1 DEF Nothing
<1>3. RefsInv
  BY <1>2 DEF RefsInv, Once
<1>4. NothingIsLost
  <2>1. <<>> \in Seq(Word) /\ DOMAIN <<>> = {}
    OBVIOUS
  <2>2. Given(last.msg) = <<>>
    BY <1>2, <2>1 DEF Given
  <2>3. QED BY <1>2, <2>2 DEF NothingIsLost
<1>5. BypassIsClean
  BY <1>2 DEF BypassIsClean
<1>6. QED BY <1>1, <1>3, <1>4, <1>5 DEF RoutingInv

\* Without its references, where they were taken out, a message is what the router is given.
LEMMA WordsLeft ==
  ASSUME RoutingAssumption, NEW m \in Messages
  PROVE  LET inline == ParseReferences(m.words)
             words  == IF m.picked = <<>> /\ inline.refs # <<>> THEN inline.clean ELSE m.words
         IN  words = Given(m)
<1>1. m.words \in Seq(Word)
  BY DEF RoutingAssumption
<1>2. ParseReferences(m.words).clean = Spaced(Those(m.words, Said))
  BY DEF ParseReferences
<1>3. QED BY <1>1, <1>2, Refers DEF Given

\* However a message is answered, the answer is as RoutingInv says.
LEMMA AnswerKeeps ==
  ASSUME RoutingAssumption, mode \in Sticky \cup {NoKey}, NEW m \in Messages, NEW a \in Answers(m),
         last' = a
  PROVE  RefsInv' /\ NothingIsLost' /\ BypassIsClean'
<1> DEFINE inline == ParseReferences(m.words)
           words  == IF m.picked = <<>> /\ inline.refs # <<>> THEN inline.clean ELSE m.words
           found  == IF m.picked # <<>> THEN {Picked(m.picked)} ELSE Resolve(inline.refs)
           r      == Routed(words)
           rest   == Given(m)
<1>1. m.words \in Seq(Word) /\ m.words # <<>>
  BY DEF RoutingAssumption
<1>2. words = rest
  BY WordsLeft
<1>3. /\ a.msg = m /\ a.locked = mode /\ a.primed = Primed(m.words)
      /\ \/ a.by = "explicit" /\ a.text = words /\ a.refs \in found
         \/ /\ a.by # "explicit" /\ a.text = r.text /\ a.mode = r.mode /\ a.refs = <<>>
            /\ a.by = "bypass" => r.mode \in {"BYPASS", "BYPASS_NUANCE"}
  BY AnswerFields
<1>4. \A g \in found : g \in Seq(Mine \cup {NoKey}) /\ (m.picked = <<>> => Once(g))
  BY FoundRefs
<1>5. Once(<<>>) /\ <<>> \in Seq(Mine \cup {NoKey})
  BY DEF Once
<1>6. /\ r.mode = IF mode # NoKey THEN mode ELSE Parse(words).mode
      /\ r.text = IF \/ Parse(words).mode = r.mode
                     \/ r.mode = "BYPASS" /\ Parse(words).mode = "BYPASS_NUANCE"
                  THEN Parse(words).clean ELSE words
  BY DEF Routed
<1> HIDE DEF words, found, r, rest
<1>7. RefsInv'
  BY <1>3, <1>4, <1>5 DEF RefsInv
<1>8. NothingIsLost'
  <2>1. CASE a.text = words
    BY <1>2, <1>3, <2>1 DEF NothingIsLost, rest
  <2>2. CASE a.text # words
    <3>1. a.text = r.text /\ a.mode = r.mode
      BY <1>3, <2>2
    <3>2. /\ a.text = Parse(words).clean
          /\ \/ Parse(words).mode = r.mode
             \/ r.mode = "BYPASS" /\ Parse(words).mode = "BYPASS_NUANCE"
      BY <1>6, <2>2, <3>1
    <3>3. /\ rest # <<>> /\ Head(rest).kind \in Commands
          /\ Asks(Head(rest)) = a.mode \/ (a.mode = "BYPASS" /\ Asks(Head(rest)) = "BYPASS_NUANCE")
          /\ \/ a.text = Tail(rest)
             \/ Head(rest).kind # "/bypass" /\ ~Apart(rest) /\ a.text = After(rest)
      BY <1>2, <2>2, <3>1, <3>2, ParseFacts
    <3>4. last'.msg = m /\ last'.mode = a.mode /\ last'.text = a.text
      BY <1>3
    <3>5. QED BY <3>3, <3>4 DEF NothingIsLost, InForce, rest
  <2>3. QED BY <2>1, <2>2
<1>9. BypassIsClean'
  <2>1. ASSUME a.by = "bypass", a.primed, a.locked # "BYPASS_NUANCE",
                Head(m.words).kind \notin Links
        PROVE  Head(m.words).kind = "/bypass" /\ ~Apart(m.words)
    <3>1. r.mode \in {"BYPASS", "BYPASS_NUANCE"} /\ mode # "BYPASS_NUANCE" /\ Primed(m.words)
      BY <1>3, <2>1
    <3>2. /\ mode # "BYPASS"
          /\ Parse(m.words).mode \notin {"BYPASS", "BYPASS_NUANCE"} \/ mode = "BYPASS"
      BY <3>1 DEF Primed, Filtered
    <3>3. mode = NoKey
      BY <1>6, <3>1, <3>2
    <3>4. /\ Parse(words).mode \in {"BYPASS", "BYPASS_NUANCE"}
          /\ Parse(m.words).mode \notin {"BYPASS", "BYPASS_NUANCE"}
      BY <1>6, <3>1, <3>2, <3>3
    <3>5. words = Spaced(Those(m.words, Said))
      BY <1>2, <3>4 DEF rest, Given
    <3>6. Those(m.words, Said) # <<>> /\ Head(Those(m.words, Said)) = Head(m.words)
      BY <1>1, <2>1, SaidHead
    <3>7. Those(m.words, Said) \in Seq(Word)
      BY <1>1, OnlyPlaces DEF Those
    <3>8. /\ words # <<>> /\ Apart(words) /\ Head(words).kind = Head(m.words).kind
          /\ Head(m.words).kind \in Commands => Head(words).arg = Head(m.words).arg
      BY <3>5, <3>6, <3>7, SpacedHead
    <3>9. QED BY <1>1, <3>4, <3>8, ParseHead
  <2>2. QED BY <1>3, <2>1 DEF BypassIsClean
<1>10. QED BY <1>7, <1>8, <1>9

\* While no message is answered, RoutingInv is kept.
LEMMA LastKeeps ==
  ASSUME RoutingInv, UNCHANGED last, mode' \in Sticky \cup {NoKey}
  PROVE  RoutingInv'
<1>1. RefsInv'
  BY DEF RoutingInv, RefsInv
<1>2. NothingIsLost'
  BY DEF RoutingInv, NothingIsLost, InForce
<1>3. BypassIsClean'
  BY DEF RoutingInv, BypassIsClean
<1>4. QED BY <1>1, <1>2, <1>3 DEF RoutingInv

\* Every step keeps RoutingInv.
LEMMA RoutingKeeps ==
  ASSUME RoutingInv, [RoutingNext]_routing
  PROVE  RoutingInv'
<1>1. mode \in Sticky \cup {NoKey}
  BY DEF RoutingInv
<1>2. CASE Lose
  <2>1. UNCHANGED last /\ mode' = NoKey
    BY <1>2 DEF Lose
  <2>2. QED BY <2>1, LastKeeps
<1>3. ASSUME NEW m \in Messages, Send(m) PROVE RoutingInv'
  <2>1. PICK a \in Answers(m) :
          /\ mode' = IF a.mode \in Sticky THEN a.mode ELSE mode
          /\ (last' = a /\ raw' = raw + 2) \/ UNCHANGED <<last, raw>>
    BY <1>3 DEF Send
  <2>2. mode' \in Sticky \cup {NoKey}
    BY <1>1, <2>1
  <2>3. CASE last' = a
    BY <1>1, <2>2, <2>3, RoutingAssumption, AnswerKeeps DEF RoutingInv
  <2>4. CASE UNCHANGED last
    BY <2>2, <2>4, LastKeeps
  <2>5. QED BY <2>1, <2>3, <2>4
<1>4. ASSUME NEW n \in Mine, DeleteNote(n) PROVE RoutingInv'
  <2>1. UNCHANGED <<mode, last>>
    BY <1>4 DEF DeleteNote
  <2>2. QED BY <1>1, <2>1, LastKeeps
<1>5. CASE UNCHANGED routing
  <2>1. UNCHANGED <<mode, last>>
    BY <1>5 DEF routing
  <2>2. QED BY <1>1, <2>1, LastKeeps
<1>6. QED BY <1>2, <1>3, <1>4, <1>5 DEF RoutingNext

\* All parts of RoutingInv hold at all times.
LEMMA RoutingInvariant == RoutingSpec => []RoutingInv
<1>1. RoutingInit => RoutingInv
  BY RoutingStart
<1>2. RoutingInv /\ [RoutingNext]_routing => RoutingInv'
  BY RoutingKeeps
<1>3. QED BY <1>1, <1>2, PTL DEF RoutingSpec

\* Whatever a user writes, in whatever session, every word that is no reference reaches the
\* pipeline, except a prefix that is obeyed and what line breaks glue to the key of a nuance
\* (chatbot_service.go:491-509, router.go:69-93, parser.go:95).
THEOREM WordsArrive == RoutingSpec => []NothingIsLost
<1>1. RoutingInv => NothingIsLost
  BY DEF RoutingInv
<1>2. QED BY <1>1, RoutingInvariant, PTL

\* The history shows live notes of the user only, each once unless it was picked twice
\* (reference_resolver.go:33-34).
THEOREM HistoryShowsOnce == RoutingSpec => []ShownOnce
<1>1. RoutingInv => ShownOnce
  <2> SUFFICES ASSUME RefsInv PROVE ShownOnce
    BY DEF RoutingInv
  <2> DEFINE at == {i \in DOMAIN last.refs : last.refs[i] # NoKey /\ last.refs[i] \in live}
  <2>1. last.refs \in Seq(Mine \cup {NoKey}) /\ Shown = Only(last.refs, at)
    BY DEF RefsInv, Shown
  <2>2. \A i \in at : last.refs[i] \in live \cap Mine /\ last.refs[i] # NoKey
    BY <2>1
  <2> HIDE DEF at
  <2>3. PICK h : /\ h \in [DOMAIN Shown -> at \cap DOMAIN last.refs]
                 /\ \A k \in DOMAIN Shown : Shown[k] = last.refs[h[k]]
                 /\ \A j \in DOMAIN Shown : \A k \in DOMAIN Shown : h[j] = h[k] => j = k
    BY <2>1, OnlyEach
  <2>4. \A k \in DOMAIN Shown : Shown[k] \in live \cap Mine
    BY <2>2, <2>3
  <2>5. last.msg.picked = <<>> => IsInjective(Shown)
    <3> SUFFICES ASSUME Once(last.refs), NEW j \in DOMAIN Shown, NEW k \in DOMAIN Shown,
                        Shown[j] = Shown[k]
                 PROVE  j = k
      BY DEF RefsInv, IsInjective
    <3>1. /\ h[j] \in DOMAIN last.refs /\ h[k] \in DOMAIN last.refs
          /\ last.refs[h[j]] = last.refs[h[k]] /\ last.refs[h[j]] # NoKey
      BY <2>2, <2>3
    <3>2. h[j] = h[k]
      BY <3>1 DEF Once
    <3>3. QED BY <2>3, <3>2
  <2>6. Shown # <<>> => last.by = "explicit"
    <3>1. last.by # "explicit" => last.refs = <<>>
      BY DEF RefsInv
    <3>2. <<>> \in Seq(Mine) /\ at \cap DOMAIN <<>> = {}
      OBVIOUS
    <3>3. Only(<<>>, at) = <<>>
      BY <3>2, OnlyNone
    <3>4. QED BY <2>1, <3>1, <3>3
  <2>7. QED BY <2>4, <2>5, <2>6 DEF ShownOnce
<1>2. QED BY <1>1, RoutingInvariant, PTL

\* Rows that prime the language model are kept from a bypass, but for the two cases in which
\* the rules that tell one disagree (chatbot_service.go:452).
THEOREM BypassUnprimed == RoutingSpec => []BypassIsClean
<1>1. RoutingInv => BypassIsClean
  BY DEF RoutingInv
<1>2. QED BY <1>1, RoutingInvariant, PTL
=============================================================================
