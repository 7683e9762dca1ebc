------------------------- MODULE AutoFallbackProofs -------------------------
(* Proofs about the auto-fallback controller, for any models, ranking, scope, *)
(* budget and blacklist parameters, and any bounds on the environment.        *)
EXTENDS AutoFallback, SequenceTheorems, TLAPS

----------------------------------------------------------------------------
(* the blacklist's functions *)

(* A strike gives a record, and bans the model at once. *)
LEMMA StruckEntry ==
  ASSUME NEW e \in BL!Entry, NEW t \in Nat
  PROVE  BL!Struck(e, t) \in BL!Entry /\ BL!IsBanned(BL!Struck(e, t), t)
<1>1. CASE BL!Present(e) /\ t - e.windowStart <= TTL
  <2>1. BL!Struck(e, t) = [count |-> e.count + 1, windowStart |-> e.windowStart,
                           lastFailureAt |-> t]
    BY <1>1 DEF BL!Struck, BL!Entry
  <2> QED BY <1>1, <2>1, AutoFallbackAssumption DEF BL!Entry, BL!Present, BL!IsBanned
<1>2. CASE ~(BL!Present(e) /\ t - e.windowStart <= TTL)
  <2>1. BL!Struck(e, t) = [count |-> 1, windowStart |-> t, lastFailureAt |-> t]
    BY <1>2 DEF BL!Struck
  <2> QED BY <2>1, AutoFallbackAssumption DEF BL!Entry, BL!Present, BL!IsBanned
<1> QED BY <1>1, <1>2

(* Striking a set of models touches these alone. *)
LEMMA StruckAllEntries ==
  ASSUME NEW bl \in [Model -> BL!Entry], NEW S, NEW t \in Nat
  PROVE  /\ BL!StruckAll(bl, S, t) \in [Model -> BL!Entry]
         /\ \A m \in Model \ S : BL!StruckAll(bl, S, t)[m] = bl[m]
         /\ \A m \in Model \cap S : BL!IsBanned(BL!StruckAll(bl, S, t)[m], t)
BY StruckEntry DEF BL!StruckAll

(* Time never bans a model. *)
LEMMA UnbannedStaysUnbanned ==
  ASSUME NEW e \in BL!Entry, NEW t \in Nat, ~BL!IsBanned(e, t)
  PROVE  ~BL!IsBanned(e, t + 1)
BY AutoFallbackAssumption DEF BL!Entry, BL!IsBanned, BL!HardBan, BL!Present

(* An absent record bans nothing. *)
LEMMA EmptyBansNothing ==
  BL!Empty \in [Model -> BL!Entry]
  /\ \A m \in Model, t \in Nat : ~BL!IsBanned(BL!Empty[m], t)
BY DEF BL!Empty, BL!Entry, BL!NoEntry, BL!IsBanned, BL!Present

(* Candidates are unbanned models other than the current one. *)
LEMMA CandidatesAreUnbanned ==
  ASSUME NEW m, NEW bl
  PROVE  /\ Candidates(m, bl) \in SUBSET Model
         /\ \A c \in Candidates(m, bl) : ~BL!IsBanned(bl[c], now)
BY AutoFallbackAssumption DEF Candidates, RankCandidates

----------------------------------------------------------------------------
(* the parts of handlers keep the types *)

LEMMA DispatchTypes ==
  ASSUME TypeOK, NEW isArmed \in BOOLEAN, NEW stale \in BOOLEAN,
         NEW rest \in {"idle", "running"}, Dispatch(isArmed, stale, rest)
  PROVE  /\ run' \in {"idle", "running"} /\ armed' \in BOOLEAN
         /\ budget' \in Nat /\ budgetInit' \in BOOLEAN
         /\ replays' \in Nat /\ prompted' \in BOOLEAN /\ produced' \in BOOLEAN
<1> DEFINE send == isArmed /\ Left > 0 /\ prompted
<1>1. Left \in Nat
  BY AutoFallbackAssumption DEF TypeOK, Left
<1>2. send \in BOOLEAN /\ (send => Left - 1 \in Nat)
  BY <1>1 DEF TypeOK
<1>3. budget' = IF send THEN Left - 1 ELSE IF isArmed THEN Left ELSE budget
  BY DEF Dispatch
<1>4. budget' \in Nat
  BY <1>1, <1>2, <1>3 DEF TypeOK
<1>5. replays' \in Nat
  BY DEF Dispatch, TypeOK
<1> QED BY <1>4, <1>5 DEF Dispatch, TypeOK

LEMMA TryNextTypes ==
  ASSUME TypeOK, NEW bl \in [Model -> BL!Entry], NEW todo \in SUBSET Model,
         NEW from \in Model, NEW failed \in Model, NEW stale \in BOOLEAN,
         NEW rest \in {"idle", "running"},
         TryNext(bl, todo, from, failed, stale, rest)
  PROVE  /\ blacklist' \in [Model -> BL!Entry]
         /\ own' \in Model \cup {NoModel}
         /\ handler' \in Handler \cup {NoHandler}
         /\ run' \in {"idle", "running"} /\ armed' \in BOOLEAN
         /\ budget' \in Nat /\ budgetInit' \in BOOLEAN
         /\ replays' \in Nat /\ prompted' \in BOOLEAN /\ produced' \in BOOLEAN
<1>1. blacklist' \in [Model -> BL!Entry]
  <2>1. \A S : BL!StruckAll(bl, S, now) \in [Model -> BL!Entry]
    BY StruckAllEntries DEF TypeOK
  <2>2. \E S : blacklist' = BL!StruckAll(bl, S, now)
    BY Zenon DEF TryNext
  <2> QED BY <2>1, <2>2
<1>2. CASE \E c \in todo :
             /\ own' = c
             /\ handler' = [stage |-> "calling", cand |-> c,
                            todo |-> todo \ ({d \in todo : Rank[d] < Rank[c]} \cup {c}),
                            from |-> from, failed |-> failed, stale |-> stale,
                            overtaken |-> FALSE]
             /\ run' = rest
             /\ UNCHANGED <<replay, produced>>
  BY <1>1, <1>2 DEF TypeOK, Handler, replay
<1>3. CASE /\ own' = Untagged
           /\ handler' = NoHandler
           /\ Dispatch(StillArmed, stale, rest)
  <2>1. StillArmed \in BOOLEAN
    BY DEF TypeOK, StillArmed
  <2> QED BY <1>1, <1>3, <2>1, DispatchTypes DEF TypeOK, Untagged
<1> QED BY <1>2, <1>3 DEF TryNext

LEMMA AppliedTypes ==
  ASSUME TypeOK, NEW m \in Model, Applied(m)
  PROVE  /\ cur' \in Model
         /\ own' \in Model \cup {NoModel} /\ pre' \in Model \cup {NoModel}
         /\ flight' \in Flight \cup {NoFlight}
<1>1. cur' \in Model /\ own' \in Model \cup {NoModel} /\ pre' \in Model \cup {NoModel}
  BY DEF TypeOK, Applied, ModelSelect, marks
<1>2. ASSUME flight # NoFlight PROVE [flight EXCEPT !.pick = m] \in Flight
  BY <1>2 DEF TypeOK, Flight
<1> QED BY <1>1, <1>2 DEF TypeOK, Applied, ModelSelect, marks

LEMMA CappedType ==
  ASSUME NEW h \in Seq(Switch), NEW s \in Switch, Len(h) <= MaxHistory
  PROVE  /\ Capped(Append(h, s)) \in Seq(Switch)
         /\ Len(Capped(Append(h, s))) <= MaxHistory
<1>1. Append(h, s) \in Seq(Switch) /\ Len(Append(h, s)) = Len(h) + 1
  BY AppendProperties
<1>2. Append(h, s) # <<>>
  BY AppendProperties
<1>3. Tail(Append(h, s)) \in Seq(Switch) /\ Len(Tail(Append(h, s))) = Len(h)
  BY <1>1, <1>2, HeadTailProperties, LenProperties
<1> QED BY <1>1, <1>3, LenProperties, AutoFallbackAssumption DEF Capped

----------------------------------------------------------------------------

(* Whoever sets the model in mid-switch leaves the switch as it is. *)
LEMMA OvertakenHandler ==
  ASSUME TypeOK
  PROVE  /\ Overtaken \in Handler \cup {NoHandler}
         /\ Overtaken.stage = handler.stage /\ Overtaken.cand = handler.cand
         /\ Overtaken.todo = handler.todo /\ Overtaken.failed = handler.failed
         /\ Overtaken.stale = handler.stale
         /\ handler.stage = "applied" => Overtaken.overtaken
<1>1. CASE handler.stage = "applied"
  <2>1. handler \in Handler /\ Overtaken = [handler EXCEPT !.overtaken = TRUE]
    BY <1>1 DEF TypeOK, NoHandler, Overtaken
  <2> QED BY <2>1 DEF Handler
<1>2. CASE handler.stage # "applied"
  BY <1>2 DEF Overtaken, TypeOK
<1> QED BY <1>1, <1>2

(* The environment's counters stay within their bounds. *)
LEMMA CounterTypes ==
  ASSUME TypeOK
  PROVE  /\ count.runs < MaxRuns => [count EXCEPT !.runs = @ + 1] \in Counter
         /\ count.picks < MaxPicks => [count EXCEPT !.picks = @ + 1] \in Counter
         /\ count.sessions < MaxSessions => [count EXCEPT !.sessions = @ + 1] \in Counter
         /\ count.toggles < MaxToggles => [count EXCEPT !.toggles = @ + 1] \in Counter
<1>1. MaxRuns \in Nat /\ MaxPicks \in Nat /\ MaxSessions \in Nat /\ MaxToggles \in Nat
  BY AutoFallbackAssumption
<1>2. count \in Counter
  BY DEF TypeOK
<1> QED BY <1>1, <1>2 DEF Counter

(* The controller's state keeps its types. *)
LEMMA InitTypes == Init => TypeOK
<1> SUFFICES ASSUME Init PROVE TypeOK
  OBVIOUS
<1>1. history \in Seq(Switch) /\ Len(history) <= MaxHistory
  BY AutoFallbackAssumption DEF Init
<1>2. count \in Counter
  BY AutoFallbackAssumption DEF Init, Counter
<1> QED BY <1>1, <1>2, EmptyBansNothing DEF Init, TypeOK

LEMMA SettleTypes == TypeOK /\ Settle => TypeOK'
<1> SUFFICES ASSUME TypeOK, Settle PROVE TypeOK'
  OBVIOUS
<1>1. CASE ~enabled
  BY <1>1 DEF Settle, Spent, TypeOK, marks, replay
<1>2. CASE enabled /\ (msg.model = NoModel \/ msg.verdict = "ignored")
  <2>1. UNCHANGED <<blacklist, history, marks, replay, handler, produced,
                    cur, now, loose, enabled, choice, count>>
        /\ msg' = NoMsg /\ run' = "idle"
    BY <1>2, Zenon DEF Settle, Spent, Recover, Fail
  <2> QED BY <2>1 DEF TypeOK, marks, replay
<1>3. CASE enabled /\ msg.model # NoModel /\ msg.verdict = "clean"
  <2>1. Recover /\ msg' = NoMsg /\ run' = "idle"
    BY <1>3 DEF Settle, Spent
  <2>2. /\ history' \in Seq(Switch) /\ Len(history') <= MaxHistory
        /\ blacklist' \in [Model -> BL!Entry]
        /\ pre' \in Model \cup {NoModel}
        /\ flight' \in Flight \cup {NoFlight}
    <3>1. CASE UNCHANGED <<history, blacklist, pre, flight>>
      BY <3>1 DEF TypeOK
    <3>2. ASSUME NEW i \in Latest(cur),
                 history' = [history EXCEPT ![i].recovered = TRUE],
                 blacklist' = BL!Cleared(blacklist, history[i].from),
                 MaybeRestore
          PROVE  <2>2
      <4>1. i \in 1 .. Len(history) /\ history[i] \in Switch
        BY <3>2 DEF Latest, TypeOK
      <4>2. [history[i] EXCEPT !.recovered = TRUE] \in Switch
        BY <4>1 DEF Switch
      <4>3. history' = [history EXCEPT ![i] = [history[i] EXCEPT !.recovered = TRUE]]
        BY <3>2
      <4>4. history' \in Seq(Switch) /\ Len(history') = Len(history)
        BY <4>1, <4>2, <4>3, ExceptSeq DEF TypeOK
      <4>5. blacklist' \in [Model -> BL!Entry]
        BY <3>2 DEF TypeOK, BL!Cleared, BL!NoEntry, BL!Entry
      <4>6. pre' \in Model \cup {NoModel} /\ flight' \in Flight \cup {NoFlight}
        BY <3>2 DEF MaybeRestore, TypeOK, Flight
      <4> QED BY <4>4, <4>5, <4>6 DEF TypeOK
    <3> QED BY <2>1, <3>1, <3>2 DEF Recover
  <2> QED BY <2>1, <2>2, AutoFallbackAssumption DEF Settle, Spent, Recover, TypeOK
<1>4. CASE enabled /\ msg.model # NoModel /\ msg.verdict = "failed"
  <2>1. Fail(msg.model) /\ msg' = NoMsg
    BY <1>4 DEF Settle, Spent
  <2>2. msg.model \in Model
    BY <1>4 DEF TypeOK, Message, NoMsg
  <2> DEFINE bl == BL!StruckAll(blacklist, {msg.model}, now)
  <2>3. bl \in [Model -> BL!Entry]
    BY StruckAllEntries DEF TypeOK
  <2>4. TryNext(bl, Candidates(cur, bl), cur, msg.model, FALSE, "idle")
        /\ UNCHANGED <<history, pre, flight>>
    BY <2>1 DEF Fail
  <2>5. Candidates(cur, bl) \in SUBSET Model /\ cur \in Model
    BY CandidatesAreUnbanned DEF TypeOK
  <2> HIDE DEF bl
  <2> QED BY <2>1, <2>2, <2>3, <2>4, <2>5, TryNextTypes DEF Settle, Spent, TypeOK
<1>5. msg.model = NoModel \/ msg.verdict \in Verdict
  BY DEF TypeOK, Message, NoMsg
<1> QED BY <1>1, <1>2, <1>3, <1>4, <1>5 DEF Verdict, TypeOK

THEOREM Typing == Spec => []TypeOK
<1>1. TypeOK /\ [Next]_vars => TypeOK'
  <2> SUFFICES ASSUME TypeOK, [Next]_vars PROVE TypeOK'
    OBVIOUS
  <2>1. CASE Prompt
    BY <2>1, CounterTypes DEF Prompt, TypeOK, marks
  <2>2. CASE MessageEnd
    BY <2>2 DEF MessageEnd, TypeOK, Message, pi, marks, replay
  <2>3. CASE Settle
    BY <2>3, SettleTypes
  <2>4. CASE SwitchApply
    <3>1. handler \in Handler /\ handler.cand \in Model /\ handler' \in Handler
      BY <2>4 DEF SwitchApply, TypeOK, Handler, NoHandler
    <3> QED BY <2>4, <3>1, AppliedTypes DEF SwitchApply, TypeOK, replay
  <2>5. CASE SwitchLand
    <3>1. handler \in Handler
      BY <2>5 DEF SwitchLand, TypeOK, NoHandler
    <3>2. history' \in Seq(Switch) /\ Len(history') <= MaxHistory
      BY <2>5, <3>1, CappedType DEF SwitchLand, TypeOK, Handler, Switch
    <3>3. Dispatch(TRUE, handler.stale, run) /\ handler.stale \in BOOLEAN
      BY <2>5, <3>1 DEF SwitchLand, Handler
    <3> QED BY <2>5, <3>1, <3>2, <3>3, DispatchTypes DEF SwitchLand, TypeOK, Handler, Untagged
  <2>6. CASE SwitchReject
    <3>1. handler \in Handler
      BY <2>6 DEF SwitchReject, TypeOK, NoHandler
    <3>2. BL!StruckAll(blacklist, {handler.cand}, now) \in [Model -> BL!Entry]
      BY StruckAllEntries DEF TypeOK
    <3>3. /\ handler.todo \in SUBSET Model /\ handler.from \in Model
          /\ handler.failed \in Model /\ handler.stale \in BOOLEAN
      BY <3>1 DEF Handler
    <3> DEFINE bl == BL!StruckAll(blacklist, {handler.cand}, now)
    <3>4. TryNext(bl, handler.todo, handler.from, handler.failed, handler.stale, run)
      BY <2>6 DEF SwitchReject
    <3> HIDE DEF bl
    <3>5. run \in {"idle", "running"} /\ bl \in [Model -> BL!Entry]
      BY <3>2 DEF TypeOK, bl
    <3>6. /\ blacklist' \in [Model -> BL!Entry]
          /\ own' \in Model \cup {NoModel} /\ handler' \in Handler \cup {NoHandler}
          /\ run' \in {"idle", "running"} /\ armed' \in BOOLEAN
          /\ budget' \in Nat /\ budgetInit' \in BOOLEAN /\ replays' \in Nat
          /\ prompted' \in BOOLEAN /\ produced' \in BOOLEAN
      BY <3>3, <3>4, <3>5, TryNextTypes
    <3> QED BY <2>6, <3>6 DEF SwitchReject, TypeOK
  <2>7. CASE RestoreApply
    <3>1. flight \in Flight /\ flight' \in Flight
      BY <2>7 DEF RestoreApply, TypeOK, Flight, NoFlight
    <3> QED BY <2>7, <3>1, OvertakenHandler DEF RestoreApply, TypeOK, Flight, replay
  <2>8. CASE RestoreLand
    <3>1. flight \in Flight
      BY <2>8 DEF RestoreLand, TypeOK, NoFlight
    <3>2. loose' \in SUBSET Model
      BY <2>8, <3>1 DEF RestoreLand, TypeOK, Flight
    <3> QED BY <2>8, <3>2 DEF RestoreLand, TypeOK, replay
  <2>9. CASE LooseApply
    BY <2>9, AppliedTypes, OvertakenHandler DEF LooseApply, TypeOK, replay
  <2>10. CASE LooseReject
    BY <2>10 DEF LooseReject, TypeOK, marks, replay
  <2>11. CASE UserPick
    BY <2>11, AppliedTypes, CounterTypes, OvertakenHandler DEF UserPick, TypeOK, replay
  <2>12. CASE SessionStart
    <3>1. loose' \in SUBSET Model
      BY <2>12 DEF SessionStart, TypeOK, Flight, NoFlight
    <3>2. handler' \in Handler \cup {NoHandler}
      BY <2>12 DEF SessionStart, TypeOK, Handler
    <3> QED BY <2>12, <3>1, <3>2, CounterTypes DEF SessionStart, TypeOK
  <2>13. CASE Toggle
    BY <2>13, CounterTypes DEF Toggle, TypeOK, pi, marks, replay
  <2>14. CASE ResetBlacklist
    BY <2>14, EmptyBansNothing DEF ResetBlacklist, TypeOK, pi, marks, replay
  <2>15. CASE Tick
    BY <2>15 DEF Tick, TypeOK, marks, replay
  <2>16. CASE UNCHANGED vars
    BY <2>16 DEF vars, TypeOK, pi, marks, replay
  <2> QED BY <2>1, <2>2, <2>3, <2>4, <2>5, <2>6, <2>7, <2>8, <2>9, <2>10,
             <2>11, <2>12, <2>13, <2>14, <2>15, <2>16 DEF Next
<1> QED BY <1>1, InitTypes, PTL DEF Spec

----------------------------------------------------------------------------
(* the replay budget *)

(* What is left and what was sent add up to at most the maximum, once the     *)
(* budget is initialised; before that nothing was sent.                       *)
BudgetInv == IF budgetInit THEN replays + budget <= AutoContinueMax ELSE replays = 0

LEMMA DispatchKeepsBudget ==
  ASSUME TypeOK, BudgetInv, NEW isArmed \in BOOLEAN, NEW stale \in BOOLEAN, NEW rest,
         Dispatch(isArmed, stale, rest)
  PROVE  BudgetInv'
<1> DEFINE send == isArmed /\ Left > 0 /\ prompted
<1>1. Left \in Nat /\ replays \in Nat /\ replays + Left <= AutoContinueMax
  BY AutoFallbackAssumption DEF TypeOK, BudgetInv, Left
<1>2. /\ budgetInit' = (budgetInit \/ isArmed)
      /\ budget' = IF send THEN Left - 1 ELSE IF isArmed THEN Left ELSE budget
      /\ replays' = IF send /\ ~stale THEN replays + 1 ELSE replays
  BY DEF Dispatch
<1>3. CASE isArmed
  <2>1. budgetInit' = TRUE
    BY <1>2, <1>3
  <2>2. replays' + budget' <= AutoContinueMax
    BY <1>1, <1>2, <1>3, AutoFallbackAssumption
  <2> QED BY <2>1, <2>2 DEF BudgetInv
<1>4. CASE ~isArmed
  BY <1>2, <1>4 DEF BudgetInv, TypeOK
<1> QED BY <1>3, <1>4

LEMMA TryNextKeepsBudget ==
  ASSUME TypeOK, BudgetInv, NEW bl, NEW todo, NEW from, NEW failed,
         NEW stale \in BOOLEAN, NEW rest,
         TryNext(bl, todo, from, failed, stale, rest)
  PROVE  BudgetInv'
<1>1. UNCHANGED replay \/ Dispatch(StillArmed, stale, rest)
  BY Zenon DEF TryNext
<1>2. CASE UNCHANGED replay
  BY <1>2 DEF replay, BudgetInv
<1>3. CASE Dispatch(StillArmed, stale, rest)
  BY <1>3, DispatchKeepsBudget DEF TypeOK, StillArmed
<1> QED BY <1>1, <1>2, <1>3

(* At most AutoContinueMax replays are sent between two refills of the budget.*)
THEOREM ReplaysAreBounded == Spec => []ReplaysBounded
<1>1. Init => BudgetInv
  BY DEF Init, BudgetInv
<1>2. TypeOK /\ BudgetInv /\ [Next]_vars => BudgetInv'
  <2> SUFFICES ASSUME TypeOK, BudgetInv, [Next]_vars PROVE BudgetInv'
    OBVIOUS
  <2>1. ASSUME UNCHANGED <<budget, budgetInit, replays>> PROVE BudgetInv'
    BY <2>1 DEF BudgetInv
  <2>2. CASE Settle
    <3>1. CASE UNCHANGED replay
      BY <2>1, <3>1 DEF replay
    <3>2. CASE Recover
      BY <3>2, AutoFallbackAssumption DEF Recover, BudgetInv
    <3>3. CASE Fail(msg.model)
      BY <3>3, TryNextKeepsBudget DEF Fail
    <3> QED BY <2>2, <3>1, <3>2, <3>3, Zenon DEF Settle, Spent
  <2>3. CASE SwitchLand
    <3>1. handler \in Handler
      BY <2>3 DEF SwitchLand, TypeOK, NoHandler
    <3> QED BY <2>3, <3>1, DispatchKeepsBudget DEF SwitchLand, Handler
  <2>4. CASE SwitchReject
    <3>1. handler \in Handler
      BY <2>4 DEF SwitchReject, TypeOK, NoHandler
    <3> QED BY <2>4, <3>1, TryNextKeepsBudget DEF SwitchReject, Handler
  <2>5. CASE SessionStart
    BY <2>5 DEF SessionStart, BudgetInv
  <2>6. CASE Prompt \/ MessageEnd \/ SwitchApply \/ RestoreApply \/ RestoreLand
    BY <2>1, <2>6 DEF Prompt, MessageEnd, SwitchApply, RestoreApply, RestoreLand, replay
  <2>7. CASE LooseApply \/ LooseReject \/ UserPick \/ Toggle \/ ResetBlacklist \/ Tick
    BY <2>1, <2>7 DEF LooseApply, LooseReject, UserPick, Toggle, ResetBlacklist,
                      Tick, replay
  <2>8. CASE UNCHANGED vars
    BY <2>1, <2>8 DEF vars, replay
  <2> QED BY <2>2, <2>3, <2>4, <2>5, <2>6, <2>7, <2>8 DEF Next
<1>3. TypeOK /\ BudgetInv => ReplaysBounded
  BY AutoFallbackAssumption DEF TypeOK, BudgetInv, ReplaysBounded
<1> QED BY <1>1, <1>2, <1>3, Typing, PTL DEF Spec

----------------------------------------------------------------------------
(* the switch in progress *)

(* The tag belongs to the pending call; the candidates are distinct, unbanned *)
(* and other than the model that failed.                                      *)
SwitchInv ==
  /\ TagScoped
  /\ FailedNotRetried
  /\ CandidatesUnbanned
  /\ handler.cand \notin handler.todo

(* The loop of performSwitch establishes the invariant for what it leaves. *)
LEMMA TryNextKeepsSwitch ==
  ASSUME TypeOK, TagScoped, NEW bl \in [Model -> BL!Entry],
         NEW todo \in SUBSET Model, NEW from, NEW failed, NEW stale, NEW rest,
         failed \notin todo, \A m \in todo : ~BL!IsBanned(bl[m], now),
         TryNext(bl, todo, from, failed, stale, rest), now' = now
  PROVE  SwitchInv'
<1>1. CASE \E c \in todo :
             LET skipped == {d \in todo : Rank[d] < Rank[c]}
             IN /\ blacklist' = BL!StruckAll(bl, skipped, now)
                /\ own' = c
                /\ handler' = [stage |-> "calling", cand |-> c,
                               todo |-> todo \ (skipped \cup {c}),
                               from |-> from, failed |-> failed, stale |-> stale,
                               overtaken |-> FALSE]
  <2> PICK c \in todo :
         LET skipped == {d \in todo : Rank[d] < Rank[c]}
         IN /\ blacklist' = BL!StruckAll(bl, skipped, now)
            /\ own' = c
            /\ handler' = [stage |-> "calling", cand |-> c,
                           todo |-> todo \ (skipped \cup {c}),
                           from |-> from, failed |-> failed, stale |-> stale,
                           overtaken |-> FALSE]
    BY <1>1
  <2> DEFINE skipped == {d \in todo : Rank[d] < Rank[c]}
  <2>1. c \notin skipped
    BY AutoFallbackAssumption
  <2>2. \A m \in Model \ skipped : blacklist'[m] = bl[m]
    BY StruckAllEntries DEF TypeOK
  <2>3. /\ handler'.stage = "calling" /\ handler'.cand = c
        /\ handler'.todo = todo \ (skipped \cup {c}) /\ handler'.failed = failed
    OBVIOUS
  <2>4. CandidatesUnbanned'
    BY <2>1, <2>2, <2>3 DEF CandidatesUnbanned
  <2> QED BY <2>3, <2>4 DEF SwitchInv, TagScoped, FailedNotRetried
<1>2. CASE handler' = NoHandler /\ own' = Untagged
  BY <1>2 DEF SwitchInv, TagScoped, FailedNotRetried, CandidatesUnbanned, NoHandler, Untagged
<1> QED BY <1>1, <1>2 DEF TryNext

(* During a switch the tag is the candidate's, and every model still to be    *)
(* tried is unbanned and not the one that failed.                             *)
THEOREM TagsAreScoped == Spec => [](TagScoped /\ SwitchesSound)
<1>1. Init => SwitchInv
  BY DEF Init, SwitchInv, TagScoped, FailedNotRetried, CandidatesUnbanned, NoHandler
<1>2. TypeOK /\ SwitchInv /\ [Next]_vars => SwitchInv'
  <2> SUFFICES ASSUME TypeOK, SwitchInv, [Next]_vars PROVE SwitchInv'
    OBVIOUS
  <2>1. ASSUME handler' \in {handler, Overtaken}, UNCHANGED <<now, blacklist>>,
               own' \in {own, NoModel}
        PROVE  SwitchInv'
    BY <2>1, OvertakenHandler DEF SwitchInv, TagScoped, FailedNotRetried, CandidatesUnbanned
  <2>2. ASSUME handler.stage = "none", UNCHANGED <<handler, now, own>>
        PROVE  SwitchInv'
    BY <2>2 DEF SwitchInv, TagScoped, FailedNotRetried, CandidatesUnbanned
  <2>3. CASE Settle
    <3>1. CASE Recover
      BY <2>2, <2>3, <3>1 DEF Settle, Spent, Recover
    <3>2. CASE UNCHANGED <<blacklist, marks, handler>>
      BY <2>1, <2>3, <3>2 DEF Settle, Spent, marks
    <3>3. CASE msg.model # NoModel /\ Fail(msg.model)
      <4> DEFINE bl == BL!StruckAll(blacklist, {msg.model}, now)
      <4>1. msg.model \in Model
        BY <3>3 DEF TypeOK, Message, NoMsg
      <4>2. bl \in [Model -> BL!Entry] /\ BL!IsBanned(bl[msg.model], now)
        BY <4>1, StruckAllEntries DEF TypeOK
      <4>3. TryNext(bl, Candidates(cur, bl), cur, msg.model, FALSE, "idle")
        BY <3>3 DEF Fail
      <4> HIDE DEF bl
      <4>4. /\ Candidates(cur, bl) \in SUBSET Model
            /\ \A c \in Candidates(cur, bl) : ~BL!IsBanned(bl[c], now)
        BY CandidatesAreUnbanned
      <4>5. msg.model \notin Candidates(cur, bl)
        BY <4>2, <4>4
      <4>6. TagScoped /\ now' = now
        BY <2>3 DEF SwitchInv, Settle, Spent
      <4> QED BY <4>2, <4>3, <4>4, <4>5, <4>6, TryNextKeepsSwitch
    <3> QED BY <2>3, <3>1, <3>2, <3>3, Zenon DEF Settle, Spent
  <2>4. CASE SwitchApply
    <3>1. handler \in Handler /\ handler' = [handler EXCEPT !.stage = "applied"]
      BY <2>4 DEF SwitchApply, TypeOK, NoHandler
    <3>2. /\ handler'.stage = "applied" /\ handler'.cand = handler.cand
          /\ handler'.todo = handler.todo /\ handler'.failed = handler.failed
      BY <3>1 DEF Handler
    <3>3. own' \in {own, NoModel} /\ UNCHANGED <<now, blacklist>>
      BY <2>4 DEF SwitchApply, Applied, ModelSelect, marks
    <3> QED BY <2>4, <3>2, <3>3
            DEF SwitchApply, SwitchInv, TagScoped, FailedNotRetried, CandidatesUnbanned
  <2>5. CASE SwitchLand
    BY <2>5 DEF SwitchLand, Untagged, SwitchInv, TagScoped, FailedNotRetried,
                CandidatesUnbanned, NoHandler
  <2>6. CASE SwitchReject
    <3> DEFINE bl == BL!StruckAll(blacklist, {handler.cand}, now)
    <3>1. handler \in Handler /\ handler.stage # "none"
      BY <2>6 DEF SwitchReject, TypeOK, NoHandler
    <3>2. /\ handler.todo \in SUBSET Model /\ handler.cand \notin handler.todo
          /\ handler.failed \notin handler.todo
          /\ \A m \in handler.todo : ~BL!IsBanned(blacklist[m], now)
      BY <3>1 DEF Handler, SwitchInv, FailedNotRetried, CandidatesUnbanned
    <3>3. bl \in [Model -> BL!Entry] /\ \A m \in handler.todo : bl[m] = blacklist[m]
      BY <3>2, StruckAllEntries DEF TypeOK
    <3>4. TryNext(bl, handler.todo, handler.from, handler.failed, handler.stale, run)
          /\ now' = now
      BY <2>6 DEF SwitchReject
    <3> HIDE DEF bl
    <3> QED BY <3>2, <3>3, <3>4, TryNextKeepsSwitch DEF SwitchInv
  <2>7. CASE SessionStart
    <3>1. CASE handler = NoHandler
      BY <2>1, <2>7, <3>1 DEF SessionStart
    <3>2. CASE handler # NoHandler
      <4>1. /\ handler'.stage = handler.stage /\ handler'.cand = handler.cand
            /\ handler'.todo = handler.todo /\ handler'.failed = handler.failed
        BY <2>7, <3>2 DEF SessionStart, TypeOK, Handler
      <4> QED BY <2>7, <4>1
              DEF SessionStart, SwitchInv, TagScoped, FailedNotRetried, CandidatesUnbanned
    <3> QED BY <3>1, <3>2
  <2>8. CASE ResetBlacklist
    <3>1. CandidatesUnbanned'
      BY <2>8, EmptyBansNothing
         DEF ResetBlacklist, CandidatesUnbanned, TypeOK, Handler, NoHandler, pi
    <3> QED BY <2>8, <3>1 DEF ResetBlacklist, SwitchInv, TagScoped, FailedNotRetried, marks
  <2>9. CASE Tick
    <3>1. CandidatesUnbanned'
      BY <2>9, UnbannedStaysUnbanned
         DEF Tick, SwitchInv, CandidatesUnbanned, TypeOK, Handler, NoHandler
    <3> QED BY <2>9, <3>1 DEF Tick, SwitchInv, TagScoped, FailedNotRetried, marks
  <2>10. CASE Prompt \/ MessageEnd \/ RestoreApply \/ RestoreLand
    BY <2>1, <2>10 DEF Prompt, MessageEnd, RestoreApply, RestoreLand, marks, pi
  <2>11. CASE LooseApply \/ LooseReject \/ UserPick \/ Toggle
    BY <2>1, <2>11 DEF LooseApply, LooseReject, UserPick, Toggle, Applied,
                       ModelSelect, marks, pi
  <2>12. CASE UNCHANGED vars
    BY <2>1, <2>12 DEF vars, pi, marks
  <2> QED BY <2>3, <2>4, <2>5, <2>6, <2>7, <2>8, <2>9, <2>10, <2>11, <2>12 DEF Next
<1>3. SwitchInv => TagScoped /\ SwitchesSound
  BY DEF SwitchInv, SwitchesSound
<1> QED BY <1>1, <1>2, <1>3, Typing, PTL DEF Spec

(* A switch calls for neither the model that failed nor one that a strike has *)
(* banned since the candidates were ranked (performSwitch's loop).            *)
THEOREM SwitchesAreSound == Spec => []SwitchesSound
BY TagsAreScoped, PTL

----------------------------------------------------------------------------
(* the message of a run *)

(* As long as the feature was never switched off, a message is there only     *)
(* while the run that produced it is underway; and a switch of the current    *)
(* session runs between two runs.                                             *)
RunInv ==
  /\ count.toggles = 0 => enabled
  /\ count.toggles = 0 /\ (run = "idle" \/ ~produced) => msg = NoMsg
  /\ handler.stage # "none" /\ ~handler.stale => run = "idle"

(* A replay starts a run that has produced nothing; otherwise `rest' stands.  *)
LEMMA DispatchKeepsRun ==
  ASSUME RunInv, NEW isArmed, NEW stale, NEW rest,
         Dispatch(isArmed, stale, rest), handler' = NoHandler,
         count' = count, enabled' = enabled, msg' = msg \/ msg' = NoMsg,
         rest = run \/ (rest = "idle" /\ msg' = NoMsg),
         run = "idle" \/ stale \/ msg' = NoMsg
  PROVE  RunInv'
<1>1. \/ run' = "running" /\ produced' = FALSE /\ ~stale
      \/ run' = rest /\ produced' = produced
  BY DEF Dispatch
<1>2. handler'.stage = "none"
  BY DEF NoHandler
<1> QED BY <1>1, <1>2 DEF RunInv

LEMMA TryNextKeepsRun ==
  ASSUME RunInv, NEW bl, NEW todo, NEW from, NEW failed, NEW stale, NEW rest,
         TryNext(bl, todo, from, failed, stale, rest),
         count' = count, enabled' = enabled, msg' = msg \/ msg' = NoMsg,
         rest = run \/ (rest = "idle" /\ msg' = NoMsg), rest = "idle" \/ stale
  PROVE  RunInv'
<1>1. CASE /\ \E c, s : handler' = [stage |-> "calling", cand |-> c, todo |-> todo \ s,
                                    from |-> from, failed |-> failed, stale |-> stale,
                                    overtaken |-> FALSE]
           /\ run' = rest /\ produced' = produced
  <2>1. handler'.stale = stale
    BY <1>1
  <2> QED BY <1>1, <2>1 DEF RunInv
<1>2. CASE handler' = NoHandler /\ Dispatch(StillArmed, stale, rest)
  <2>1. run = "idle" \/ stale \/ msg' = NoMsg
    OBVIOUS
  <2> QED BY <1>2, <2>1, DispatchKeepsRun
<1> QED BY <1>1, <1>2 DEF TryNext

LEMMA RunInvKept == TypeOK /\ RunInv /\ [Next]_vars => RunInv'
<1> SUFFICES ASSUME TypeOK, RunInv, [Next]_vars PROVE RunInv'
  OBVIOUS
<1>1. ASSUME UNCHANGED <<run, produced, msg, enabled>>, count'.toggles = count.toggles,
             handler' \in {handler, Overtaken}
      PROVE  RunInv'
  BY <1>1, OvertakenHandler DEF RunInv
<1>2. CASE Prompt
  <2>1. /\ run = "idle" /\ run' = "running" /\ UNCHANGED <<enabled, msg, handler>>
        /\ handler.stage = "none" \/ handler.stale
    BY <1>2 DEF Prompt
  <2>2. count'.toggles = count.toggles
    BY <1>2 DEF Prompt, TypeOK, Counter
  <2> QED BY <2>1, <2>2 DEF RunInv
<1>3. CASE MessageEnd
  BY <1>3 DEF MessageEnd, RunInv, pi
<1>4. CASE Settle
  <2>1. count' = count /\ enabled' = enabled
    BY <1>4 DEF Settle
  <2>2. CASE ~enabled
    BY <1>4, <2>1, <2>2 DEF Settle, RunInv
  <2>3. CASE msg' = NoMsg /\ run' = "idle"
    BY <1>4, <2>1, <2>3 DEF Settle, RunInv
  <2>4. CASE msg' = NoMsg /\ Fail(msg.model)
    BY <2>1, <2>4, TryNextKeepsRun DEF Fail
  <2> QED BY <1>4, <2>2, <2>3, <2>4, Zenon DEF Settle, Spent
<1>5. CASE SwitchApply
  <2>1. handler'.stage = "applied" /\ handler'.stale = handler.stale
    BY <1>5 DEF SwitchApply, TypeOK, Handler, NoHandler
  <2> QED BY <1>5, <2>1 DEF SwitchApply, RunInv
<1>6. CASE SwitchLand
  <2>1. run = "idle" \/ handler.stale
    BY <1>6 DEF SwitchLand, RunInv
  <2> QED BY <1>6, <2>1, DispatchKeepsRun DEF SwitchLand
<1>7. CASE SwitchReject
  <2>1. run = "idle" \/ handler.stale
    BY <1>7 DEF SwitchReject, RunInv
  <2> QED BY <1>7, <2>1, TryNextKeepsRun DEF SwitchReject
<1>8. CASE UserPick
  <2>1. count'.toggles = count.toggles
    BY <1>8 DEF UserPick, TypeOK, Counter
  <2> QED BY <1>1, <1>8, <2>1 DEF UserPick
<1>9. CASE SessionStart
  <2>1. count'.toggles = count.toggles
    BY <1>9 DEF SessionStart, TypeOK, Counter
  <2> QED BY <1>9, <2>1 DEF SessionStart, RunInv
<1>10. CASE Toggle
  <2>1. count'.toggles # 0
    BY <1>10 DEF Toggle, TypeOK, Counter
  <2> QED BY <1>10, <2>1 DEF Toggle, RunInv, pi
<1>11. CASE RestoreApply \/ RestoreLand \/ LooseApply \/ LooseReject \/ ResetBlacklist \/ Tick
  BY <1>1, <1>11 DEF RestoreApply, RestoreLand, LooseApply, LooseReject, ResetBlacklist,
                     Tick, pi
<1>12. CASE UNCHANGED vars
  BY <1>1, <1>12 DEF vars, pi
<1> QED BY <1>2, <1>3, <1>4, <1>5, <1>6, <1>7, <1>8, <1>9, <1>10, <1>11, <1>12 DEF Next

(* A settle never judges a message that an earlier run has left.              *)
THEOREM MessagesOfTheirRun == Spec => []MessageOfThisRun
<1>1. Init => RunInv
  BY DEF Init, RunInv, NoHandler
<1>2. RunInv => MessageOfThisRun
  BY DEF RunInv, MessageOfThisRun
<1> QED BY <1>1, <1>2, RunInvKept, Typing, PTL DEF Spec

----------------------------------------------------------------------------
(* where a replay goes *)

(* In the first session an arm is used up in the handler that set it, and a   *)
(* switch that nobody has overtaken is where it switched to.                  *)
ReplayInv ==
  /\ count.sessions = 0 => ~armed /\ ~handler.stale
  /\ handler.stage = "applied" /\ ~handler.overtaken => cur = handler.cand

(* The loop sends a replay only if the arm was up before. *)
LEMMA TryNextKeepsReplay ==
  ASSUME ReplayInv, NEW bl, NEW todo, NEW from, NEW failed, NEW stale, NEW rest,
         TryNext(bl, todo, from, failed, stale, rest), count' = count,
         count.sessions = 0 => ~stale
  PROVE  ReplayInv' /\ (count.sessions = 0 => replays' = replays)
<1>1. CASE /\ \E c, s : handler' = [stage |-> "calling", cand |-> c, todo |-> todo \ s,
                                    from |-> from, failed |-> failed, stale |-> stale,
                                    overtaken |-> FALSE]
           /\ UNCHANGED replay
  <2>1. handler'.stale = stale /\ handler'.stage = "calling"
    BY <1>1
  <2> QED BY <1>1, <2>1 DEF ReplayInv, replay
<1>2. CASE handler' = NoHandler /\ Dispatch(StillArmed, stale, rest)
  <2>1. armed' = (armed /\ Left > 0 /\ prompted /\ stale)
    BY <1>2 DEF Dispatch, StillArmed
  <2>2. replays' = IF armed /\ Left > 0 /\ prompted /\ ~stale THEN replays + 1 ELSE replays
    BY <1>2 DEF Dispatch, StillArmed
  <2>3. ~handler'.stale /\ handler'.stage = "none"
    BY <1>2 DEF NoHandler
  <2> QED BY <2>1, <2>2, <2>3 DEF ReplayInv
<1> QED BY <1>1, <1>2 DEF TryNext

LEMMA ReplayInvKept == TypeOK /\ ReplayInv /\ [Next]_vars => ReplayInv'
<1> SUFFICES ASSUME TypeOK, ReplayInv, [Next]_vars PROVE ReplayInv'
  OBVIOUS
<1>1. ASSUME UNCHANGED <<cur, armed, handler>>, count'.sessions = count.sessions
      PROVE  ReplayInv'
  BY <1>1 DEF ReplayInv
<1>2. ASSUME UNCHANGED armed, handler' = Overtaken, count'.sessions = count.sessions
      PROVE  ReplayInv'
  BY <1>2, OvertakenHandler DEF ReplayInv
<1>3. CASE Prompt
  <2>1. count'.sessions = count.sessions
    BY <1>3 DEF Prompt, TypeOK, Counter
  <2> QED BY <1>3, <2>1 DEF Prompt, ReplayInv
<1>4. CASE Settle
  <2>1. CASE UNCHANGED <<armed, handler>>
    BY <1>1, <1>4, <2>1 DEF Settle
  <2>2. CASE Fail(msg.model)
    BY <1>4, <2>2, TryNextKeepsReplay DEF Settle, Fail
  <2> QED BY <1>4, <2>1, <2>2, Zenon DEF Settle, Spent, Recover, replay
<1>5. CASE SwitchApply
  <2>1. /\ handler' = [handler EXCEPT !.stage = "applied"] /\ handler \in Handler
        /\ cur' = handler.cand /\ UNCHANGED <<armed, count>>
    BY <1>5 DEF SwitchApply, Applied, TypeOK, NoHandler, replay
  <2>2. handler'.stale = handler.stale /\ handler'.cand = handler.cand
    BY <2>1 DEF Handler
  <2> QED BY <2>1, <2>2 DEF ReplayInv
<1>6. CASE SwitchLand
  <2>1. count.sessions = 0 => ~handler.stale
    BY DEF ReplayInv
  <2>2. count.sessions = 0 => ~armed'
    BY <1>6, <2>1 DEF SwitchLand, Dispatch
  <2> QED BY <1>6, <2>2 DEF SwitchLand, ReplayInv, NoHandler
<1>7. CASE SwitchReject
  BY <1>7, TryNextKeepsReplay DEF SwitchReject, ReplayInv
<1>8. CASE UserPick
  <2>1. count'.sessions = count.sessions
    BY <1>8 DEF UserPick, TypeOK, Counter
  <2> QED BY <1>2, <1>8, <2>1 DEF UserPick, replay
<1>9. CASE SessionStart
  <2>1. count'.sessions # 0
    BY <1>9 DEF SessionStart, TypeOK, Counter
  <2>2. /\ handler'.stage = handler.stage /\ handler'.cand = handler.cand
        /\ handler'.overtaken = handler.overtaken
    BY <1>9 DEF SessionStart, TypeOK, Handler
  <2> QED BY <1>9, <2>1, <2>2 DEF SessionStart, ReplayInv
<1>10. CASE Toggle
  <2>1. count'.sessions = count.sessions
    BY <1>10 DEF Toggle, TypeOK, Counter
  <2> QED BY <1>1, <1>10, <2>1 DEF Toggle, pi, replay
<1>11. CASE RestoreApply \/ LooseApply
  BY <1>2, <1>11 DEF RestoreApply, LooseApply, replay
<1>12. CASE MessageEnd \/ RestoreLand \/ LooseReject \/ ResetBlacklist \/ Tick
  BY <1>1, <1>12 DEF MessageEnd, RestoreLand, LooseReject, ResetBlacklist, Tick, pi, replay
<1>13. CASE UNCHANGED vars
  BY <1>1, <1>13 DEF vars, pi, replay
<1> QED BY <1>3, <1>4, <1>5, <1>6, <1>7, <1>8, <1>9, <1>10, <1>11, <1>12, <1>13 DEF Next

(* A replay goes out at the landing of a switch, to the model switched to.    *)
LEMMA ReplayStep ==
  ASSUME TypeOK, ReplayInv, SwitchesSound, [Next]_vars,
         replays' > replays, count.sessions = 0
  PROVE  /\ handler.stage = "applied"
         /\ ~handler.overtaken => cur = handler.cand /\ cur # handler.failed
<1>1. replays' # replays /\ replays' # 0
  BY DEF TypeOK
<1>2. ~Settle
  <2>1. ~Recover
    BY <1>1 DEF Recover
  <2>2. ASSUME Settle, Fail(msg.model) PROVE FALSE
    BY <1>1, <2>2, TryNextKeepsReplay DEF Settle, Fail
  <2>3. ~UNCHANGED replay
    BY <1>1 DEF replay
  <2> QED BY <2>1, <2>2, <2>3, Zenon DEF Settle
<1>3. ~SwitchReject
  <2> SUFFICES ASSUME SwitchReject PROVE FALSE
    OBVIOUS
  <2>1. ~handler.stale
    BY DEF ReplayInv
  <2> QED BY <1>1, <2>1, TryNextKeepsReplay DEF SwitchReject
<1>4. ~(Prompt \/ MessageEnd \/ SwitchApply \/ RestoreApply \/ RestoreLand)
  BY <1>1 DEF Prompt, MessageEnd, SwitchApply, RestoreApply, RestoreLand, replay
<1>5. ~(LooseApply \/ LooseReject \/ UserPick \/ SessionStart \/ Toggle \/ ResetBlacklist \/ Tick)
  BY <1>1 DEF LooseApply, LooseReject, UserPick, SessionStart, Toggle, ResetBlacklist,
              Tick, replay
<1>6. ~UNCHANGED vars
  BY <1>1 DEF vars, replay
<1>7. SwitchLand
  BY <1>2, <1>3, <1>4, <1>5, <1>6 DEF Next
<1>8. handler.stage = "applied"
  BY <1>7 DEF SwitchLand
<1>9. handler.failed # handler.cand
  BY <1>8 DEF SwitchesSound, FailedNotRetried
<1> QED BY <1>8, <1>9 DEF ReplayInv

(* A replay goes out only when a switch of the session's own settle has       *)
(* landed, and, unless something set the model in between, to the model       *)
(* switched to, which is not the one that failed.                             *)
THEOREM ReplaysFollowSwitches == Spec => ReplayOnNewModel
<1>1. Init => ReplayInv
  BY DEF Init, ReplayInv, NoHandler
<1>2. TypeOK /\ ReplayInv /\ SwitchesSound /\ [Next]_vars
        => [replays' > replays /\ count.sessions = 0
              => /\ handler.stage = "applied"
                 /\ ~handler.overtaken => cur = handler.cand /\ cur # handler.failed]_vars
  BY ReplayStep
<1>3. Spec => []ReplayInv
  BY <1>1, ReplayInvKept, Typing, PTL DEF Spec
<1> QED BY <1>2, <1>3, Typing, SwitchesAreSound, PTL DEF Spec, ReplayOnNewModel
============================================================================
