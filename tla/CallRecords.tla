---------------------------- MODULE CallRecords ----------------------------
(* What is recorded of model calls: lib/telemetry.ts and lib/quota-monitor.ts, *)
(* driven by the listeners of index.ts.  Listeners read ctx.model, the model  *)
(* that is current when the event comes; the user may select another one      *)
(* while a run goes on.  Tokens and costs are left out: they are summed as    *)
(* the calls are.                                                             *)
EXTENDS Naturals, FiniteSets, SequencesExt

CONSTANTS Provider, Id,
          FreeId,             \* the ids that isFreeModel accepts
          MAX_RECENT_CALLS, IN_FLIGHT_TTL, MAX_SANE_LATENCY, QUOTA_TTL,
          MaxRuns, MaxTurns, MaxResponses, MaxSelects, MaxTime

VARIABLES
  current,      \* ctx.model
  run,          \* the run underway: its number, the model it was started with
  now,
  pendingCallIds,  \* of setupTelemetry; call ids are the numbers of their runs, 0 is none
  inFlight,
  recent,       \* model -> recentCalls
  stats,        \* model -> totals
  quota,        \* provider -> when its last snapshot was taken, or Never
  counters,     \* provider -> its ProviderResponseCounters
  statusBar,    \* the provider whose quota is shown, or None
  turns, responses, selects,
  \* read by properties only
  calls,        \* model -> its recorded calls
  bad,          \* responses that should count
  stray,        \* a model was selected during this run
  wrong         \* a call of an undisturbed run was paired or filed wrongly
model == <<current, statusBar, selects>>
telemetry == <<pendingCallIds, inFlight, recent, stats, calls, wrong>>
monitor == <<quota, counters, bad>>
vars == <<model, run, now, telemetry, monitor, turns, responses, stray>>

Model == [provider : Provider, id : Id]
None == "none"
Never == MaxTime + QUOTA_TTL + 1
Idle == [n |-> 0, on |-> FALSE, model |-> None]
NoCounters == [authFailures |-> 0, rateLimited |-> 0, serverErrors |-> 0, quotaHeaderDrift |-> 0]
IsFreeModel(m) == m.id \in FreeId

Init ==
  /\ current \in Model /\ statusBar = None /\ run = Idle /\ now = 0
  /\ pendingCallIds = [m \in Model |-> 0] /\ inFlight = {}
  /\ recent = [m \in Model |-> <<>>] /\ stats = [m \in Model |-> [total |-> 0, errors |-> 0]]
  /\ quota = [p \in Provider |-> Never] /\ counters = [p \in Provider |-> NoCounters]
  /\ turns = 0 /\ responses = 0 /\ calls = [m \in Model |-> 0] /\ bad = 0
  /\ selects = 0 /\ stray = FALSE /\ wrong = FALSE

----------------------------------------------------------------------------
(* formatQuotaStatus *)
FormatQuotaStatus(q, p) == IF q[p] = Never \/ now - q[p] > QUOTA_TTL THEN None ELSE p

(* bug: the old status stays where the new provider has none *)
ShownOnSelectIfAny(p) == IF FormatQuotaStatus(quota, p) = None THEN statusBar ELSE p
(* the status after model_select *)
ShownOnSelect(p) == FormatQuotaStatus(quota, p)

Select ==
  /\ selects < MaxSelects /\ selects' = selects + 1
  /\ \E m \in Model \ {current} : current' = m /\ statusBar' = ShownOnSelect(m.provider)
  /\ stray' = (stray \/ run.on)
  /\ UNCHANGED <<run, now, telemetry, monitor, turns, responses>>

(* processQuotaResponse: what a status adds *)
Counted(c, status) ==
  CASE status \in {401, 403} -> [c EXCEPT !.authFailures = @ + 1]
    [] status = 429 -> [c EXCEPT !.rateLimited = @ + 1]
    [] status \in 500..599 -> [c EXCEPT !.serverErrors = @ + 1]
    [] OTHER -> c

(* extractQuota: the headers of a response hold a pair of numbers that is     *)
(* known, both halves of a pair that is not, or no pair                       *)
Headers == {"known", "drifted", "none"}
Drifted(c, h) == IF h = "drifted" THEN [c EXCEPT !.quotaHeaderDrift = @ + 1] ELSE c
QuotaAfter(p, h) == IF h = "known" THEN [quota EXCEPT ![p] = now] ELSE quota

(* after_provider_response; the auto-fallback records the same status again.  *)
(* Without a fresh quota the status bar is left alone.                        *)
Response ==
  /\ run.on /\ responses < MaxResponses /\ responses' = responses + 1
  /\ \E status \in {200, 403, 429, 503}, h \in Headers :
       LET p == current.provider
       IN /\ counters' = [counters EXCEPT ![p] = Drifted(Counted(@, status), h)]
          /\ bad' = bad + (IF status = 200 THEN 0 ELSE 1)
          /\ quota' = QuotaAfter(p, h)
          /\ statusBar' = IF FormatQuotaStatus(quota', p) = None THEN statusBar ELSE p
  /\ UNCHANGED <<current, selects, run, now, telemetry, turns, stray>>

----------------------------------------------------------------------------
(* startModelCall and recordModelCall *)

(* bug: entries of runs that never ended stay *)
ReapedNever(s) == s
(* reapStaleInFlight *)
Reaped(s) == {e \in s : now - e.start <= IN_FLIGHT_TTL}

AgentStart ==
  /\ ~run.on /\ run.n < MaxRuns /\ run' = [n |-> run.n + 1, on |-> TRUE, model |-> current]
  /\ IF IsFreeModel(current)
     THEN /\ inFlight' = Reaped(inFlight)
                           \cup {[id |-> run'.n, model |-> current, start |-> now]}
          /\ pendingCallIds' = [pendingCallIds EXCEPT ![current] = run'.n]
     ELSE UNCHANGED <<inFlight, pendingCallIds>>
  /\ stray' = FALSE /\ turns' = 0
  /\ UNCHANGED <<model, now, recent, stats, calls, wrong, monitor, responses>>

Slept(latency) == latency > MAX_SANE_LATENCY

(* bug: the time since any start of this model *)
LatencyOfAny(m, callId) ==
  LET of == {e \in inFlight : e.model = m}
  IN IF of = {} THEN 0 ELSE now - (CHOOSE e \in of : TRUE).start

(* The latency that is recorded; 0 stands for none.                           *)
Latency(m, callId) ==
  LET entry == {e \in inFlight : e.id = callId}
  IN IF entry = {} THEN 0
     ELSE LET latency == now - (CHOOSE e \in entry : TRUE).start
          IN IF Slept(latency) THEN 0 ELSE latency

LastFew(s, n) == SubSeq(s, IF Len(s) > n THEN Len(s) - n + 1 ELSE 1, Len(s))

(* deriveModelTelemetry *)
Derived(entries) ==
  [total |-> Len(entries), errors |-> Cardinality({i \in DOMAIN entries : ~entries[i].success})]

(* turn_end with an assistant message: the provider is that of the current    *)
(* model, the model that of the message.  Later turns of the run have no id.  *)
(* The store keeps recentCalls only, so that the totals are of these and the  *)
(* new call.                                                                  *)
TurnEnd ==
  /\ run.on /\ turns < MaxTurns /\ turns' = turns + 1
  /\ IF ~IsFreeModel(current) THEN UNCHANGED telemetry
     ELSE \E m \in {[provider |-> current.provider, id |-> i] : i \in {run.model.id, current.id}},
             success \in BOOLEAN :
            LET id == pendingCallIds[m]
                pruned == LastFew(Append(recent[m], [success |-> success, latency |-> Latency(m, id)]),
                                  2 * MAX_RECENT_CALLS)
            IN /\ pendingCallIds' = [pendingCallIds EXCEPT ![m] = 0]
               /\ inFlight' = {e \in inFlight : e.id # id}
               /\ stats' = [stats EXCEPT ![m] = Derived(pruned)]
               /\ recent' = [recent EXCEPT ![m] = LastFew(pruned, MAX_RECENT_CALLS)]
               /\ calls' = [calls EXCEPT ![m] = @ + 1]
               /\ wrong' = (wrong \/ (~stray /\ (m # run.model \/ (Latency(m, id) > 0 /\ id # run.n))))
  /\ UNCHANGED <<model, run, now, monitor, responses, stray>>

(* the run settles; one that was killed has had no turn_end for its call *)
RunOver ==
  /\ run.on /\ run' = [run EXCEPT !.on = FALSE]
  /\ UNCHANGED <<model, now, telemetry, monitor, turns, responses, stray>>

Tick ==
  /\ now < MaxTime /\ now' = now + 1
  /\ UNCHANGED <<model, run, telemetry, monitor, turns, responses, stray>>

Next == Select \/ Response \/ AgentStart \/ TurnEnd \/ RunOver \/ Tick
Spec == Init /\ [][Next]_vars

----------------------------------------------------------------------------
(* "record 0 latency rather than a bogus value": unless the user selects      *)
(* another model meanwhile, a call is recorded for the model it was sent to   *)
(* and timed from the start of its own run, however runs were killed before.  *)
CallsAreOfTheirRun == ~wrong

(* A latency that a suspended machine or a killed run has made up is dropped. *)
LatencySane ==
  \A m \in Model : \A e \in ToSet(recent[m]) : e.latency <= MAX_SANE_LATENCY

(* Killed runs do not pile up: what is in flight started within the TTL of    *)
(* the last start, and a call that may be paired is one of its model.         *)
InFlightSane ==
  /\ \A e, f \in inFlight : e.id < f.id => f.start - e.start <= IN_FLIGHT_TTL
  /\ \A m \in Model : \A e \in inFlight : pendingCallIds[m] = e.id => e.model = m

(* The totals cover the last calls: all of them up to one more than are kept. *)
TotalsCoverRecent ==
  \A m \in Model :
    /\ stats[m].total = (IF calls[m] <= MAX_RECENT_CALLS THEN calls[m] ELSE MAX_RECENT_CALLS + 1)
    /\ stats[m].errors - Derived(recent[m]).errors \in {0, 1}

(* The status bar never shows the quota of a provider that is not selected.   *)
BarOfCurrent == statusBar \in {None, current.provider}

(* Every failing response is counted once, whoever is current when it comes.  *)
Failures(c) == c.authFailures + c.rateLimited + c.serverErrors
FailuresCounted == bad = SumFunction([p \in Provider |-> Failures(counters[p])])

RecordsSound ==
  CallsAreOfTheirRun /\ LatencySane /\ InFlightSane /\ TotalsCoverRecent /\ BarOfCurrent
    /\ FailuresCounted
============================================================================
