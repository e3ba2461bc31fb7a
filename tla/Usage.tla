------------------------------- MODULE Usage -------------------------------
(***************************************************************************)
(* The daily limits on AI chats and semantic searches of one user.  The    *)
(* counters are columns of the user's row, next to the day each was last   *)
(* reset; there is no job that resets them, every reader does it when it   *)
(* finds an older day.  UserRepository.Update is GORM's Save: each writer  *)
(* reads the whole row and writes the whole row back later, so chats,      *)
(* searches, the status page, profile edits and admins overwrite each      *)
(* other's columns.                                                        *)
(*                                                                         *)
(* Whether a subscription gives the user the plan is Access!HasPlan of     *)
(* module Billing; a call refused for want of one changes nothing, so here *)
(* only calls of a subscriber appear.  AiDailyLimitOverride is not         *)
(* modelled: the user mapper drops it, so no row ever carries one.         *)
(***************************************************************************)
EXTENDS Integers

CONSTANTS
  Handlers,   \* requests that may be in progress at once
  Plans,      \* plans the user may be on
  Grants,     \* usage values an admin may write
  MaxDay,     \* bound: last calendar day
  MaxCalls,   \* bound: calls counted a day before another may begin
  MaxRaced    \* bound: the same, once requests have overlapped

Kinds == {"chat", "search"}

\* on: AiChatEnabled and SemanticSearchEnabled; a negative limit is unlimited.
Plan == [on : [Kinds -> BOOLEAN], limit : [Kinds -> Int]]

ASSUME UsageAssumption ==
  /\ Plans \subseteq Plan /\ Grants \subseteq Nat
  /\ MaxDay \in Nat /\ MaxCalls \in Nat /\ MaxRaced \in Nat

VARIABLES
  today,      \* the calendar day
  plan,       \* the plan the user pays for
  row,        \* the counters of the user's row and the days of their last resets
  served,     \* history: calls verified and counted today, since an admin's last write
  top,        \* history: what each counter can at most stand at today
  overlap,    \* history: whether two requests were ever in progress together
  pc, loc     \* where each handler is, and what it holds

history == <<served, top, overlap>>
vars    == <<today, plan, row, history, pc, loc>>

Row   == [used : [Kinds -> Nat], day : [Kinds -> Nat]]
PC    == {"idle", "check", "run", "count", "status", "edit"}
Local == [kind : Kinds, day : Nat, row : Row]

\* The zero time a new user's row carries is day 0, before every calendar day.
NewRow  == [used |-> [k \in Kinds |-> 0], day |-> [k \in Kinds |-> 0]]
NoLocal == [kind |-> "chat", day |-> 0, row |-> NewRow]

Init ==
  /\ today = 1 /\ plan \in Plans
  /\ row = NewRow
  /\ served = [k \in Kinds |-> 0] /\ top = [k \in Kinds |-> 0] /\ overlap = FALSE
  /\ pc = [p \in Handlers |-> "idle"] /\ loc = [p \in Handlers |-> NoLocal]

Goto(p, c, l) == pc' = [pc EXCEPT ![p] = c] /\ loc' = [loc EXCEPT ![p] = l]
Finish(p)     == Goto(p, "idle", NoLocal)

\* A request begins by reading the row into a local copy.
Begin(p, c, k) ==
  /\ pc[p] = "idle"
  /\ Goto(p, c, [kind |-> k, day |-> 0, row |-> row])
  /\ overlap' = (overlap \/ \E q \in Handlers \ {p} : pc[q] # "idle")
  /\ UNCHANGED <<today, plan, row, served, top>>

-----------------------------------------------------------------------------
(* The clock *)

Midnight ==
  /\ today < MaxDay
  /\ today' = today + 1
  /\ served' = [k \in Kinds |-> 0] /\ top' = [k \in Kinds |-> 0]
  /\ UNCHANGED <<plan, row, overlap, pc, loc>>

-----------------------------------------------------------------------------
(* The access verifier: a chat and a search are verified, run and counted  *)
(* by the same three steps on counters of their own.                       *)

\* Fault: the day is set and the counter is not.
FaultReset(r, k) == IF r.day[k] = today THEN r ELSE [r EXCEPT !.day[k] = today]

\* A counter of an earlier day is set to zero.
Reset(r, k) ==
  IF r.day[k] = today THEN r ELSE [r EXCEPT !.used[k] = 0, !.day[k] = today]

\* Fault: off by one.
FaultAdmits(r, k) == plan.limit[k] < 0 \/ r.used[k] <= plan.limit[k]
Admits(r, k)      == plan.limit[k] < 0 \/ r.used[k] < plan.limit[k]

Verify(p, k) ==
  /\ plan.on[k]
  /\ top[k] < IF overlap THEN MaxRaced ELSE MaxCalls
  /\ Begin(p, "check", k)

VerifyAccessAndLimits(p)      == Verify(p, "chat")
VerifySemanticSearchAccess(p) == Verify(p, "search")

\* The row is written only if a new day began; the call is refused at the limit.
Check(p) ==
  /\ pc[p] = "check"
  /\ LET k     == loc[p].kind
         fresh == Reset(loc[p].row, k)
     IN  /\ row' = IF loc[p].row.day[k] = today THEN row ELSE fresh
         /\ IF Admits(fresh, k)
            THEN Goto(p, "run", [loc[p] EXCEPT !.day = today, !.row = NewRow])
            ELSE Finish(p)
  /\ UNCHANGED <<today, plan, history>>

\* The chat pipeline, or the search, has succeeded: the row is read again.
IncrementUsage(p) ==
  /\ pc[p] = "run"
  /\ Goto(p, "count", [loc[p] EXCEPT !.row = row])
  /\ UNCHANGED <<today, plan, row, history>>

SaveUsage(p) ==
  LET k == loc[p].kind IN
  /\ pc[p] = "count"
  /\ row' = [loc[p].row EXCEPT !.used[k] = @ + 1]
  /\ served' = IF loc[p].day = today THEN [served EXCEPT ![k] = @ + 1] ELSE served
  /\ top' = [top EXCEPT ![k] = @ + 1]
  /\ Finish(p)
  /\ UNCHANGED <<today, plan, overlap>>

-----------------------------------------------------------------------------
(* The other writers of the row *)

\* GetUserUsageStatus resets the chat counter, and only that one.
GetUserUsageStatus(p) == Begin(p, "status", "chat")

\* Fault: the comparison of the days is left out.
FaultCheckAndReset(p) ==
  /\ pc[p] = "status"
  /\ row' = [loc[p].row EXCEPT !.used["chat"] = 0, !.day["chat"] = today]
  /\ Finish(p)
  /\ UNCHANGED <<today, plan, history>>

CheckAndResetDailyUsage(p) ==
  /\ pc[p] = "status"
  /\ row' = IF loc[p].row.day["chat"] = today THEN row ELSE Reset(loc[p].row, "chat")
  /\ Finish(p)
  /\ UNCHANGED <<today, plan, history>>

\* UpdateProfile, UpdateAiLimit and ResetAiLimit read the row to edit it.
EditUser(p) == Begin(p, "edit", "chat")

\* Profile edits of the user or of an admin leave the counters as they were read.
SaveProfile(p) ==
  /\ pc[p] = "edit"
  /\ row' = loc[p].row
  /\ Finish(p)
  /\ UNCHANGED <<today, plan, history>>

\* The tracker's single and bulk forms: new values v for the counters in ks.
SaveLimits(p, ks, v) ==
  /\ pc[p] = "edit"
  /\ row' = [used |-> [k \in Kinds |-> IF k \in ks THEN v ELSE loc[p].row.used[k]],
             day  |-> [k \in Kinds |-> IF k \in ks THEN today ELSE loc[p].row.day[k]]]
  /\ served' = [k \in Kinds |-> IF k \in ks THEN v ELSE served[k]]
  /\ top' = [k \in Kinds |-> IF k \in ks /\ v > top[k] THEN v ELSE top[k]]
  /\ Finish(p)
  /\ UNCHANGED <<today, plan, overlap>>

UpdateAiLimit(p) == \E ks \in SUBSET Kinds \ {{}}, v \in Grants : SaveLimits(p, ks, v)
ResetAiLimit(p)  == SaveLimits(p, Kinds, 0)

\* An error, a crash, or a chat rolled back.  A search by meaning that finds nothing, or
\* one whose count could not be saved, has answered all the same and is not counted.
Return(p) ==
  /\ pc[p] # "idle" /\ Finish(p)
  /\ UNCHANGED <<today, plan, row, history>>

-----------------------------------------------------------------------------
CallStep(p)  == \/ VerifyAccessAndLimits(p) \/ VerifySemanticSearchAccess(p)
                \/ Check(p) \/ IncrementUsage(p) \/ SaveUsage(p)
OtherStep(p) == \/ GetUserUsageStatus(p) \/ CheckAndResetDailyUsage(p)
                \/ EditUser(p) \/ SaveProfile(p) \/ UpdateAiLimit(p) \/ ResetAiLimit(p)

Next ==
  \/ Midnight
  \/ \E p \in Handlers : CallStep(p) \/ OtherStep(p) \/ Return(p)

Spec == Init /\ [][Next]_vars

-----------------------------------------------------------------------------
(* Properties *)

TypeOK ==
  /\ today \in Nat /\ plan \in Plans
  /\ row \in Row
  /\ served \in [Kinds -> Nat] /\ top \in [Kinds -> Nat] /\ overlap \in BOOLEAN
  /\ pc \in [Handlers -> PC] /\ loc \in [Handlers -> Local]

\* What the verifier will find in counter k of a row.
Effective(r, k) == IF r.day[k] = today THEN r.used[k] ELSE 0

\* However requests interleave, around midnight too, a user is never charged for
\* more calls of a day than were completed (or set by an admin) that day: stale
\* copies of the row carry their own reset days with them.
NeverOvercharged == \A k \in Kinds : Effective(row, k) <= top[k]

\* While requests of a user come one at a time, no day sees more calls verified
\* and counted than the plan's daily limit, whatever the status page, profile
\* edits and midnight do in between, except where an admin set a counter.
WithinLimit ==
  \A k \in Kinds :
    plan.limit[k] >= 0 => served[k] <= plan.limit[k] \/ served[k] \in Grants
DailyLimitHeld == ~overlap => WithinLimit

\* The counter of a day is taken down by nobody but an admin while requests come
\* one at a time: not by a page view, a profile edit or the other kind of call.
UsageIsKept ==
  [][\A k \in Kinds :
       /\ ~overlap' /\ today' = today
       /\ \A p \in Handlers : ~ UpdateAiLimit(p) /\ ~ ResetAiLimit(p)
       => Effective(row, k)' >= Effective(row, k)]_vars

=============================================================================
