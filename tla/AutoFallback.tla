---------------------------- MODULE AutoFallback ----------------------------
(* The auto-fallback controller, lib/auto-fallback/index.ts: when a run       *)
(* settles in failure it strikes the failed model and switches Pi to another  *)
(* free model, replays the prompt there, and after a clean run restores the   *)
(* model the user had.  JavaScript runs a handler to completion up to its     *)
(* next await, so an action is a handler, or the part of one between two      *)
(* awaits.  The awaits are calls of pi.setModel: "calling" until Pi applies   *)
(* or refuses the model, "applied" until the promise resolves.  A user pick,  *)
(* a session start, a toggle or the clock can come in between.                *)
(*                                                                            *)
(* Pi itself is external.  Assumed of it: a prompt starts a run and the run   *)
(* settles once; Pi waits for the agent_settled handler before the next run,  *)
(* unless the session is replaced; setModel to the current model emits no     *)
(* model_select, any other applied setModel does.                             *)
EXTENDS Naturals, Sequences

CONSTANTS
  Model,            \* every "{provider}/{model}" key
  NoModel,          \* null
  Provider,
  ProviderOf,       \* model -> provider
  Rank,             \* model -> position in the CI-score order, 1 is best
  Free,             \* the free models of the registered providers
  Flaky,            \* models that may be missing from Pi's catalog, or lack auth
  Scope,            \* auto_fallback_scope
  Whitelist,        \* auto_fallback_providers
  Restore,          \* fallback_restore is not "manual"
  AutoContinueMax,  \* auto_fallback_auto_continue_max; 0 when auto_continue is off
  TTL, MaxStrikes,  \* of the blacklist
  MaxHistory,       \* MAX_HISTORY
  MaxTime, MaxRuns, MaxPicks, MaxSessions, MaxToggles   \* bounds on the environment

ASSUME AutoFallbackAssumption ==
  /\ NoModel \notin Model
  /\ ProviderOf \in [Model -> Provider]
  /\ Rank \in [Model -> Nat]
  /\ \A m, n \in Model : Rank[m] = Rank[n] => m = n
  /\ Free \subseteq Model /\ Flaky \subseteq Model /\ Whitelist \subseteq Provider
  /\ Scope \in {"provider", "global", "whitelist"}
  /\ Restore \in BOOLEAN
  /\ AutoContinueMax \in Nat
  /\ TTL \in Nat
  /\ MaxStrikes \in Nat \ {0}
  /\ MaxHistory \in Nat \ {0}
  /\ {MaxTime, MaxRuns, MaxPicks, MaxSessions, MaxToggles} \subseteq Nat

VARIABLES
  \* Pi and its user
  cur,          \* ctx.model
  run,          \* "idle" or "running"
  now,          \* Date.now()
  loose,        \* setModel calls whose landing changes nothing here
  \* the controller
  enabled,      \* the auto_fallback setting
  blacklist,    \* model -> Blacklist record
  history,      \* switches of this session, oldest first
  pre,          \* preFallbackModel
  flight,       \* activeRestore, with the stage of its setModel call
  own,          \* ownSwitchTarget
  msg,          \* lastAssistantMessage
  prompted,     \* lastUserPrompt is set
  armed,        \* pendingAutoContinue is set
  budget,       \* autoContinueBudget
  budgetInit,   \* budgetInitialized
  handler,      \* the performSwitch in progress; `overtaken' is read by properties only
  \* history variables, read by properties only
  choice,       \* the last model the user picked
  produced,     \* the current run has produced an assistant message
  replays,      \* replays since the budget was last refilled
  count         \* environment steps taken, bounded by the Max constants

pi == <<cur, run, now, loose>>
replay == <<prompted, armed, budget, budgetInit, replays>>
marks == <<pre, flight, own>>
vars == <<pi, enabled, blacklist, history, marks, msg, replay, handler,
          choice, produced, count>>

BL == INSTANCE Blacklist WITH Key <- Model, entries <- blacklist, MaxCount <- MaxRuns

Verdict == {"clean", "failed", "ignored"}
NoMsg == [model |-> NoModel, verdict |-> "clean"]
Message == [model : Model, verdict : Verdict]
NoFlight == [target |-> NoModel, pick |-> NoModel, stage |-> "none"]
Flight == [target : Model, pick : Model \cup {NoModel}, stage : {"calling", "applied"}]
NoHandler == [stage |-> "none", cand |-> NoModel, todo |-> {}, from |-> NoModel,
              failed |-> NoModel, stale |-> FALSE, overtaken |-> FALSE]
Handler == [stage : {"calling", "applied"}, cand : Model, todo : SUBSET Model,
            from : Model, failed : Model, stale : BOOLEAN, overtaken : BOOLEAN]
Switch == [from : Model, to : Model, recovered : BOOLEAN]
Counter == [runs : 0..MaxRuns, picks : 0..MaxPicks, sessions : 0..MaxSessions,
            toggles : 0..MaxToggles]

Init ==
  /\ cur \in Model /\ run = "idle" /\ now = 0 /\ loose = {}
  /\ enabled = TRUE /\ blacklist = BL!Empty /\ history = <<>>
  /\ pre = NoModel /\ flight = NoFlight /\ own = NoModel
  /\ msg = NoMsg /\ prompted = FALSE /\ armed = FALSE
  /\ budget = 0 /\ budgetInit = FALSE /\ handler = NoHandler
  /\ choice = cur /\ produced = FALSE /\ replays = 0
  /\ count = [runs |-> 0, picks |-> 0, sessions |-> 0, toggles |-> 0]

----------------------------------------------------------------------------
(* candidates: selection.ts and matchesScope *)

MatchesScope(c, scope, failing) ==
  /\ scope = "provider" => ProviderOf[c] = failing
  /\ scope = "whitelist" => ProviderOf[c] \in Whitelist

(* bug: banned models are ranked too *)
RankCandidatesBanned(m, scope, bl) ==
  {c \in Free \ {m} : MatchesScope(c, scope, ProviderOf[m])}

RankCandidates(m, scope, bl) ==
  {c \in Free \ {m} : /\ MatchesScope(c, scope, ProviderOf[m])
                      /\ ~BL!IsBanned(bl[c], now)}

(* an exhausted provider falls through to the global pool *)
Candidates(m, bl) ==
  LET scoped == RankCandidates(m, Scope, bl)
  IN IF scoped = {} /\ Scope = "provider" THEN RankCandidates(m, "global", bl)
                                          ELSE scoped

----------------------------------------------------------------------------
(* the model_select handler, for a change of ctx.model to m *)

ModelSelect(m) ==
  /\ own' = IF own = m THEN NoModel ELSE own
  /\ flight' = IF own # m /\ flight # NoFlight /\ flight.target # m
                 THEN [flight EXCEPT !.pick = m] ELSE flight
  /\ pre' = IF pre = m THEN pre ELSE NoModel

(* Pi applies a setModel call *)
Applied(m) ==
  /\ cur' = m
  /\ IF m = cur THEN UNCHANGED marks ELSE ModelSelect(m)

----------------------------------------------------------------------------
(* the tail of handleAgentSettled: replay the prompt if a switch armed it.    *)
(* In a replaced session the log line before the send reads a dead ctx and    *)
(* throws, after the budget was charged and before the arm was dropped.  `rest'*)
(* is what `run' is without a replay.                                         *)
(* bug: every failure starts with a full budget *)
LeftRefilled == AutoContinueMax
Left == IF budgetInit THEN budget ELSE AutoContinueMax

Dispatch(isArmed, stale, rest) ==
  LET send == isArmed /\ Left > 0 /\ prompted
  IN /\ budgetInit' = (budgetInit \/ isArmed)
     /\ budget' = IF send THEN Left - 1 ELSE IF isArmed THEN Left ELSE budget
     /\ armed' = (send /\ stale)
     /\ replays' = IF send /\ ~stale THEN replays + 1 ELSE replays
     /\ run' = IF send /\ ~stale THEN "running" ELSE rest
     /\ produced' = IF send /\ ~stale THEN FALSE ELSE produced
     /\ UNCHANGED prompted

(* bug: the tag is not dropped after the call *)
UntaggedNever == own

(* the tag is dropped after the call, unless something replaced it *)
Untagged == IF own = handler.cand THEN NoModel ELSE own

(* bug: the arm is set before a candidate has been switched to *)
ArmedEarly == TRUE
StillArmed == armed

(* performSwitch's loop, from a strike on: candidates in rank order; those not *)
(* in the catalog or without auth are struck and skipped; the first usable one *)
(* is tagged and handed to setModel.  With none left the handler ends.         *)
TryNext(bl, todo, from, failed, stale, rest) ==
  \/ \E c \in todo :
       LET skipped == {d \in todo : Rank[d] < Rank[c]}
       IN /\ skipped \subseteq Flaky
          /\ blacklist' = BL!StruckAll(bl, skipped, now)
          /\ own' = c
          /\ handler' = [stage |-> "calling", cand |-> c,
                         todo |-> todo \ (skipped \cup {c}),
                         from |-> from, failed |-> failed, stale |-> stale,
                         overtaken |-> FALSE]
          /\ run' = rest
          /\ UNCHANGED <<replay, produced>>
  \/ /\ todo \subseteq Flaky
     /\ blacklist' = BL!StruckAll(bl, todo, now)
     /\ own' = Untagged
     /\ handler' = NoHandler
     /\ Dispatch(StillArmed, stale, rest)

----------------------------------------------------------------------------
(* runs *)

(* before_agent_start: a prompt with text can be replayed later *)
Prompt ==
  /\ run = "idle"
  /\ handler.stage = "none" \/ handler.stale
  /\ count.runs < MaxRuns
  /\ run' = "running" /\ armed' = FALSE /\ prompted' \in BOOLEAN
  /\ produced' = FALSE
  /\ count' = [count EXCEPT !.runs = @ + 1]
  /\ UNCHANGED <<cur, now, loose, enabled, blacklist, history, marks, msg,
                 budget, budgetInit, replays, handler, choice>>

(* message_end of an assistant message; v is what classifySettledFailure and  *)
(* the stop reason will make of it at settle time                             *)
MessageEnd ==
  /\ run = "running"
  /\ \E v \in Verdict :
       msg' = IF enabled THEN [model |-> cur, verdict |-> v] ELSE msg
  /\ produced' = TRUE
  /\ UNCHANGED <<pi, enabled, blacklist, history, marks, replay, handler,
                 choice, count>>

(* maybeRestorePreFallback; an outstanding flight is never doubled *)
MaybeRestore ==
  \/ /\ ~Restore \/ pre = NoModel
     /\ UNCHANGED <<pre, flight>>
  \/ /\ Restore /\ pre # NoModel
     /\ cur = pre \/ pre \in Flaky
     /\ pre' = NoModel /\ UNCHANGED flight
  \/ /\ Restore /\ pre # NoModel /\ cur # pre
     /\ flight' = IF flight = NoFlight
                    THEN [target |-> pre, pick |-> NoModel, stage |-> "calling"]
                    ELSE flight
     /\ UNCHANGED pre

Latest(m) == {i \in DOMAIN history : /\ history[i].to = m
                                     /\ \A j \in i + 1 .. Len(history) : history[j].to # m}

(* a clean run refills the budget; the first one on a model we switched to    *)
(* un-bans the model we left and may start a restore                          *)
Recover ==
  /\ budget' = AutoContinueMax /\ budgetInit' = TRUE /\ replays' = 0
  /\ \/ /\ \A i \in Latest(cur) : history[i].recovered
        /\ UNCHANGED <<history, blacklist, pre, flight>>
     \/ \E i \in Latest(cur) :
          /\ ~history[i].recovered
          /\ history' = [history EXCEPT ![i].recovered = TRUE]
          /\ blacklist' = BL!Cleared(blacklist, history[i].from)
          /\ MaybeRestore
  /\ UNCHANGED <<own, prompted, armed, handler, produced>>

(* bug: the candidates are ranked before the failed model is struck *)
FailRankedFirst(failed) ==
  LET bl == BL!StruckAll(blacklist, {failed}, now)
  IN /\ TryNext(bl, Candidates(cur, blacklist), cur, failed, FALSE, "idle")
     /\ UNCHANGED <<history, pre, flight>>

(* a failure strikes the model of the message, then switches away from the    *)
(* current one                                                                *)
Fail(failed) ==
  LET bl == BL!StruckAll(blacklist, {failed}, now)
  IN /\ TryNext(bl, Candidates(cur, bl), cur, failed, FALSE, "idle")
     /\ UNCHANGED <<history, pre, flight>>

(* bug: only a failure consumes the message *)
SpentOnFailure == IF msg.verdict = "failed" THEN NoMsg ELSE msg
Spent == NoMsg

(* agent_settled, up to the first await *)
Settle ==
  /\ run = "running" /\ handler.stage = "none"
  /\ \/ /\ ~enabled
        /\ run' = "idle"
        /\ UNCHANGED <<msg, blacklist, history, marks, replay, handler, produced>>
     \/ /\ enabled /\ msg' = Spent
        /\ \/ /\ msg.model = NoModel \/ msg.verdict = "ignored"
              /\ run' = "idle"
              /\ UNCHANGED <<blacklist, history, marks, replay, handler, produced>>
           \/ /\ msg.model # NoModel /\ msg.verdict = "clean"
              /\ run' = "idle"
              /\ Recover
           \/ /\ msg.model # NoModel /\ msg.verdict = "failed"
              /\ Fail(msg.model)
  /\ UNCHANGED <<cur, now, loose, enabled, choice, count>>

----------------------------------------------------------------------------
(* the switch's setModel call *)

SwitchApply ==
  /\ handler.stage = "calling"
  /\ handler' = [handler EXCEPT !.stage = "applied"]
  /\ Applied(handler.cand)
  /\ UNCHANGED <<run, now, loose, enabled, blacklist, history, msg, replay,
                 choice, produced, count>>

(* bug: the cap is off by one *)
CappedLate(h) == IF Len(h) > MaxHistory + 1 THEN Tail(h) ELSE h
Capped(h) == IF Len(h) > MaxHistory THEN Tail(h) ELSE h

SwitchLand ==
  /\ handler.stage = "applied"
  /\ own' = Untagged
  /\ pre' = IF pre = NoModel THEN handler.from ELSE pre
  /\ history' = Capped(Append(history, [from |-> handler.from, to |-> handler.cand,
                                        recovered |-> FALSE]))
  /\ handler' = NoHandler
  /\ Dispatch(TRUE, handler.stale, run)
  /\ UNCHANGED <<cur, now, loose, enabled, blacklist, flight, msg, choice, count>>

(* refused by Pi, or thrown; in a replaced session setModel throws *)
SwitchReject ==
  /\ handler.stage = "calling"
  /\ TryNext(BL!StruckAll(blacklist, {handler.cand}, now), handler.todo,
             handler.from, handler.failed, handler.stale, run)
  /\ UNCHANGED <<cur, now, loose, enabled, history, pre, flight, msg, choice, count>>

----------------------------------------------------------------------------
(* the restore's setModel call, and the repair it may end in *)

(* someone else sets the model, after the switch's call and before its landing *)
Overtaken == IF handler.stage = "applied" THEN [handler EXCEPT !.overtaken = TRUE]
                                          ELSE handler

RestoreApply ==
  /\ flight.stage = "calling"
  /\ cur' = flight.target
  /\ \/ cur = flight.target /\ UNCHANGED <<own, pre>>
     \/ /\ cur # flight.target
        /\ own' = IF own = flight.target THEN NoModel ELSE own
        /\ pre' = IF pre = flight.target THEN pre ELSE NoModel
  /\ flight' = [flight EXCEPT !.stage = "applied"]
  /\ handler' = Overtaken
  /\ UNCHANGED <<run, now, loose, enabled, blacklist, history, msg, replay,
                 choice, produced, count>>

(* a pick recorded in flight is restored over the target, unless it is banned *)
(* or no longer in the catalog                                                *)
RestoreLand ==
  /\ flight.stage # "none"
  /\ flight' = NoFlight
  /\ pre' = IF pre = flight.target THEN NoModel ELSE pre
  /\ LET repair == flight.stage = "applied" /\ flight.pick # NoModel
         banned == BL!IsBanned(blacklist[flight.pick], now)
     IN \/ /\ repair /\ ~banned
           /\ loose' = loose \cup {flight.pick}
        \/ /\ repair => banned \/ flight.pick \in Flaky
           /\ UNCHANGED loose
  /\ UNCHANGED <<cur, run, now, enabled, blacklist, history, own, msg, replay,
                 handler, choice, produced, count>>

LooseApply ==
  \E m \in loose :
    /\ loose' = loose \ {m}
    /\ Applied(m)
    /\ handler' = Overtaken
    /\ UNCHANGED <<run, now, enabled, blacklist, history, msg, replay,
                   choice, produced, count>>

LooseReject ==
  \E m \in loose :
    /\ loose' = loose \ {m}
    /\ UNCHANGED <<cur, run, now, enabled, blacklist, history, marks, msg,
                   replay, handler, choice, produced, count>>

----------------------------------------------------------------------------
(* the user, the session and the clock *)

UserPick ==
  \E m \in Model \ {cur} :
    /\ count.picks < MaxPicks
    /\ Applied(m)
    /\ choice' = m
    /\ handler' = Overtaken
    /\ count' = [count EXCEPT !.picks = @ + 1]
    /\ UNCHANGED <<run, now, loose, enabled, blacklist, history, msg, replay,
                   produced>>

(* session_start; a restore in flight is orphaned, a switch in progress goes on *)
SessionStart ==
  /\ count.sessions < MaxSessions
  /\ count' = [count EXCEPT !.sessions = @ + 1]
  /\ run' = "idle" /\ armed' = FALSE /\ prompted' = FALSE /\ msg' = NoMsg
  /\ budgetInit' = FALSE /\ replays' = 0 /\ produced' = FALSE
  /\ flight' = NoFlight /\ own' = NoModel
  /\ loose' = IF flight.stage = "calling" THEN loose \cup {flight.target} ELSE loose
  /\ handler' = IF handler = NoHandler THEN handler ELSE [handler EXCEPT !.stale = TRUE]
  /\ UNCHANGED <<cur, now, enabled, blacklist, history, pre, budget, choice>>

Toggle ==
  /\ count.toggles < MaxToggles
  /\ count' = [count EXCEPT !.toggles = @ + 1]
  /\ enabled' = ~enabled
  /\ UNCHANGED <<pi, blacklist, history, marks, msg, replay, handler, choice, produced>>

ResetBlacklist ==
  /\ blacklist' = BL!Empty
  /\ UNCHANGED <<pi, enabled, history, marks, msg, replay, handler, choice,
                 produced, count>>

Tick ==
  /\ now < MaxTime /\ now' = now + 1
  /\ UNCHANGED <<cur, run, loose, enabled, blacklist, history, marks, msg, replay,
                 handler, choice, produced, count>>

Next == \/ Prompt \/ MessageEnd \/ Settle
        \/ SwitchApply \/ SwitchLand \/ SwitchReject
        \/ RestoreApply \/ RestoreLand \/ LooseApply \/ LooseReject
        \/ UserPick \/ SessionStart \/ Toggle \/ ResetBlacklist \/ Tick

Spec == Init /\ [][Next]_vars

----------------------------------------------------------------------------
(* Types of the controller's state. *)
TypeOK ==
  /\ cur \in Model /\ run \in {"idle", "running"} /\ now \in Nat
  /\ loose \in SUBSET Model /\ enabled \in BOOLEAN
  /\ blacklist \in [Model -> BL!Entry]
  /\ history \in Seq(Switch) /\ Len(history) <= MaxHistory
  /\ pre \in Model \cup {NoModel} /\ own \in Model \cup {NoModel}
  /\ flight \in Flight \cup {NoFlight}
  /\ msg \in Message \cup {NoMsg}
  /\ prompted \in BOOLEAN /\ armed \in BOOLEAN
  /\ budget \in Nat /\ budgetInit \in BOOLEAN
  /\ handler \in Handler \cup {NoHandler}
  /\ choice \in Model /\ produced \in BOOLEAN /\ replays \in Nat
  /\ count \in Counter

(* No run of failures replays the prompt without end: between two refills of  *)
(* the budget (a clean run or a new session) at most AutoContinueMax replays  *)
(* are sent, whatever switches, refusals, picks and session changes happen.   *)
ReplaysBounded == replays <= AutoContinueMax

(* The tag that marks a model_select as our own is only ever up while that    *)
(* very setModel call is pending: a tag left behind would swallow the user's  *)
(* next pick of that model.                                                   *)
TagScoped == own # NoModel => handler.stage # "none" /\ own = handler.cand

(* The switch that a failure starts never comes back to the failed model,     *)
(* however long the calls take and whichever model was current by then.       *)
FailedNotRetried ==
  handler.stage # "none" => handler.failed \notin handler.todo \cup {handler.cand}

(* What is tried, or still to be tried, is not banned: the list is computed   *)
(* once, yet no strike given during the loop hits a candidate still ahead.    *)
CandidatesUnbanned ==
  handler.stage # "none" =>
    \A m \in handler.todo \cup {handler.cand} : ~BL!IsBanned(blacklist[m], now)

(* A replay goes out right behind a switch of this settle, and to the model    *)
(* switched to, which is not the one that failed.  The first needs a session  *)
(* that is not replaced: a dead ctx leaves the arm behind for a later failure. *)
(* The second needs that nothing sets the model between the switch's call and *)
(* its landing: a pick does, and so does a restore that was started earlier.  *)
ReplayOnNewModel ==
  [][replays' > replays /\ count.sessions = 0
       => /\ handler.stage = "applied"
          /\ ~handler.overtaken => cur = handler.cand /\ cur # handler.failed]_vars

(* A settle judges the message of its own run: one that has produced none yet *)
(* finds none, unless the feature was switched off over an earlier settle.    *)
MessageOfThisRun == run = "running" /\ ~produced /\ count.toggles = 0 => msg = NoMsg

(* index.ts: a switch remembers "the user's original pick" to restore it.  A  *)
(* second switch of the same episode selects a third model, which drops the   *)
(* marker, and then remembers the model of the first switch.                  *)
RestoreReturnsToUserPick ==
  [][flight = NoFlight /\ flight' # NoFlight => flight'.target = choice]_vars

(* The switch of a failure tries neither the model that failed nor one that   *)
(* is banned, at any of its awaits.                                           *)
SwitchesSound == FailedNotRetried /\ CandidatesUnbanned
============================================================================
