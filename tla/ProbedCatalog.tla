--------------------------- MODULE ProbedCatalog ---------------------------
(* Catalogs whose models are probed: Ollama Cloud's (ollama.ts,               *)
(* ollama-provider.ts), with a capability cache on disk that commands, Pi's   *)
(* refresh and probes rewrite, and those of the gateways of                   *)
(* provider-probe.ts.  Broken models are hidden in the config file, whose     *)
(* updates are atomic (ConfigStore); an update of a cache and what its caller *)
(* does when it returns are one step, since the next update waits for I/O.    *)
EXTENDS Naturals, FiniteSets

CONSTANTS Model,
          FallbackModels,   \* FALLBACK_MODELS of Ollama
          NamedFree,        \* models with "free" in the name: all cost nothing
          Job,              \* tasks underway at a time
          BatchSize,
          MaxJobs, MaxEdits, MaxTicks, MaxRestarts     \* bounds on the environment

VARIABLES
  kind,         \* "ollama" or "gateway"
  hidden,       \* hidden_models of the config
  cache,        \* the capability cache of Ollama
  all, free,    \* the catalog in memory
  captured,     \* the free models when the session handler was made
  autoDone,     \* the gateway's handler has fired
  checked,      \* the probe cache
  job,
  jobs, edits, ticks, restarts      \* what happened so far
bounds == <<jobs, edits, ticks, restarts>>
vars == <<kind, hidden, cache, all, free, captured, autoDone, checked, job, bounds>>

NoJob == [task |-> "none", stage |-> "over", todo |-> {}, broken |-> {}, ok |-> {},
          seen |-> {}, was |-> {}, list |-> {}]
Begun(task, stage, todo) == [NoJob EXCEPT !.task = task, !.stage = stage, !.todo = todo, !.seen = cache]

(* registerOllamaProvider takes the cached list, or the fallback, as all free; *)
(* a gateway begins with no models                                            *)
Loaded(c) == IF kind = "gateway" THEN {} ELSE IF c = {} THEN FallbackModels ELSE c

Init ==
  /\ kind \in {"ollama", "gateway"} /\ hidden = {}
  /\ cache \in {{}, Model}
  /\ all = Loaded(cache) /\ free = all /\ captured = free /\ autoDone = FALSE
  /\ checked = [m \in Model |-> "never"] /\ job = [j \in Job |-> NoJob]
  /\ jobs = 0 /\ edits = 0 /\ ticks = 0 /\ restarts = 0

----------------------------------------------------------------------------
(* the probe cache and the guard of the model cache *)

(* bug: a model recorded as broken is not looked at again before its time *)
DueNotBroken(models) == {m \in models : checked[m] \in {"never", "stale"}}
(* getModelsDueForProbe: broken ones always, good ones when a day old *)
Due(models) == {m \in models : checked[m] # "ok"}

(* saveProviderCacheGuarded *)
Guarded(list) == list # {} /\ 2 * Cardinality(list) >= Cardinality(cache)

(* isFreeModel: with all prices zero only the name counts *)
Classified(models) == models \cap NamedFree

Begin(j, record) ==
  /\ job[j].stage = "over" /\ jobs < MaxJobs /\ jobs' = jobs + 1
  /\ job' = [job EXCEPT ![j] = record]
  /\ UNCHANGED <<kind, hidden, cache, all, free, captured, checked, edits, ticks, restarts>>
Keep(j, record) ==
  /\ job' = [job EXCEPT ![j] = record]
  /\ UNCHANGED <<kind, captured, autoDone, bounds>>
Over(j) == NoJob
At(j, stage) == [job[j] EXCEPT !.stage = stage]

----------------------------------------------------------------------------
(* commands, Pi's refresh and session starts *)

Refresh(j) ==
  /\ kind = "ollama" /\ Begin(j, Begun("refresh", "fetch", {})) /\ UNCHANGED autoDone
NativeRefresh(j) == Begin(j, Begun("native", "fetch", {})) /\ UNCHANGED autoDone
ProbeCommand(j) ==
  /\ all # {} /\ Begin(j, Begun("probe", "batch", all)) /\ UNCHANGED autoDone

(* bug: the handler looks at the catalog of the session *)
StartModelsNow == IF kind = "ollama" THEN all ELSE free
(* what a session start probes: a gateway's handler has kept the array that *)
(* it was given, which was empty                                             *)
StartModels == IF kind = "ollama" THEN all ELSE captured
SessionStart(j) ==
  /\ ~autoDone /\ autoDone' = (kind = "gateway")
  /\ \/ Due(StartModels) # {} /\ Begin(j, Begun("start", "batch", Due(StartModels)))
     \/ /\ Due(StartModels) = {} /\ autoDone' # autoDone
        /\ UNCHANGED <<kind, hidden, cache, all, free, captured, checked, job, bounds>>

----------------------------------------------------------------------------
(* a probe: batches of requests, the record, the hiding *)

Batch(j) ==
  /\ job[j].stage = "batch"
  /\ \E some \in SUBSET job[j].todo :
       /\ \/ Cardinality(some) = BatchSize
          \/ Cardinality(some) < BatchSize /\ some = job[j].todo
       /\ \E broken \in SUBSET some : \E ok \in SUBSET (some \ broken) :    \* the rest is unknown
            Keep(j, [job[j] EXCEPT !.todo = @ \ some, !.broken = @ \cup broken, !.ok = @ \cup ok,
                                   !.stage = IF some = job[j].todo THEN "record" ELSE "batch"])
  /\ UNCHANGED <<hidden, cache, all, free, checked>>

Record(j) ==
  /\ job[j].stage = "record"
  /\ checked' = [m \in Model |-> CASE m \in job[j].broken -> "broken"
                                   [] m \in job[j].ok -> "ok"
                                   [] OTHER -> checked[m]]
  /\ Keep(j, IF job[j].broken = {} THEN Over(j) ELSE [At(j, "hide") EXCEPT !.ok = {}])
  /\ UNCHANGED <<hidden, cache, all, free>>

(* bug: the hidden models are those that were so when the probe began *)
HiddenAfterStale(j) == (hidden \cap {m \in Model : checked[m] = "never"}) \cup job[j].broken
(* updateConfig adds to what the file holds now *)
HiddenAfter(j) == hidden \cup job[j].broken

(* Ollama's list is fetched anew; a gateway is only registered again *)
Hide(j) ==
  /\ job[j].stage = "hide" /\ hidden' = HiddenAfter(j)
  /\ Keep(j, IF kind = "ollama" THEN Begun("probe", "fetch", {}) ELSE Over(j))
  /\ UNCHANGED <<cache, all, free, checked>>

----------------------------------------------------------------------------
(* fetchAllModels and what its callers make of the list *)

(* The models offered now, of which those in the cache read at the start keep  *)
(* their capabilities, and the details of some others arrive and say "tools"; *)
(* with none at all it throws.                                                *)
Fetched(j, offered, detailed) == ((offered \cap job[j].seen) \cup detailed) \ hidden

(* bug: the commands apply what they could not save *)
MayApplyAlways(j, list) == list # {}
(* a list that the guard refuses is applied by Pi's refresh only *)
MayApply(j, list) == Guarded(list)

Fetch(j) ==
  /\ job[j].stage = "fetch" /\ kind = "ollama"
  /\ \E offered \in SUBSET Model : \E detailed \in SUBSET (offered \ job[j].seen) :
       LET list == Fetched(j, offered, detailed)
           ready == [NoJob EXCEPT !.task = job[j].task, !.list = list, !.was = cache]
       IN Keep(j, CASE MayApply(j, list) -> [ready EXCEPT !.stage = "save"]
                    [] ~MayApply(j, list) /\ job[j].task = "native" /\ list # {} ->
                         [ready EXCEPT !.stage = "publish"]
                    [] OTHER -> Over(j))
  /\ UNCHANGED <<hidden, cache, all, free, checked>>

(* a fetch fails, or is aborted *)
FetchFails(j) ==
  /\ job[j].stage = "fetch" /\ Keep(j, Over(j)) /\ UNCHANGED <<hidden, cache, all, free, checked>>

GatewayFetch(j) ==
  /\ job[j].stage = "fetch" /\ kind = "gateway"
  /\ \E offered \in (SUBSET Model) \ {{}} : Keep(j, [At(j, "publish") EXCEPT !.list = offered])
  /\ UNCHANGED <<hidden, cache, all, free, checked>>

(* saveProviderCache; then applyModelList of a command or a probe *)
Save(j) ==
  /\ job[j].stage = "save" /\ cache' = job[j].list
  /\ IF job[j].task = "native" THEN Keep(j, [At(j, "publish") EXCEPT !.was = {}]) /\ UNCHANGED <<all, free>>
     ELSE Keep(j, Over(j)) /\ all' = job[j].list /\ free' = all'
  /\ UNCHANGED <<hidden, checked>>

Publish(j) ==
  /\ job[j].stage = "publish" /\ all' = job[j].list
  /\ free' = Classified(all') /\ Keep(j, Over(j))
  /\ UNCHANGED <<hidden, cache, checked>>

----------------------------------------------------------------------------
(* the environment *)

(* the user unhides a model in the config file *)
Unhide ==
  /\ edits < MaxEdits /\ edits' = edits + 1 /\ \E m \in hidden : hidden' = hidden \ {m}
  /\ UNCHANGED <<kind, cache, all, free, captured, autoDone, checked, job, jobs, ticks, restarts>>

(* a day passes *)
Tick ==
  /\ ticks < MaxTicks /\ ticks' = ticks + 1
  /\ checked' = [m \in Model |-> IF checked[m] = "ok" THEN "stale" ELSE checked[m]]
  /\ UNCHANGED <<kind, hidden, cache, all, free, captured, autoDone, job, jobs, edits, restarts>>

(* the process ends, in the middle of anything, and another begins *)
Restart ==
  /\ restarts < MaxRestarts /\ restarts' = restarts + 1
  /\ job' = [j \in Job |-> NoJob] /\ all' = Loaded(cache) /\ free' = all' /\ captured' = free'
  /\ autoDone' = FALSE
  /\ UNCHANGED <<kind, hidden, cache, checked, jobs, edits, ticks>>

Next == \/ \E j \in Job :
             \/ Refresh(j) \/ NativeRefresh(j) \/ ProbeCommand(j) \/ SessionStart(j)
             \/ Batch(j) \/ Record(j) \/ Hide(j)
             \/ Fetch(j) \/ FetchFails(j) \/ GatewayFetch(j) \/ Save(j) \/ Publish(j)
        \/ Unhide \/ Tick \/ Restart
Spec == Init /\ [][Next]_vars

----------------------------------------------------------------------------
(* Types of the catalogs, the caches and the tasks. *)
TypeOK ==
  /\ hidden \cup cache \cup all \cup free \cup captured \subseteq Model /\ free \subseteq all
  /\ checked \in [Model -> {"never", "ok", "stale", "broken"}]
  /\ \A j \in Job : job[j].stage \in {"batch", "record", "hide", "fetch", "save", "publish", "over"}

(* Nothing but an edit of the user's shows a hidden model again, whatever     *)
(* probes, refreshes and restarts come between a probe's start and its end.   *)
HidesSurvive == [][hidden \subseteq hidden' \/ edits' > edits]_vars

(* "A degenerate re-fetch keeps the previous cache AND the live list": no     *)
(* write empties the cache, or cuts it by more than half unless another write *)
(* came between the guard and it; and what is live but not cached is what     *)
(* Pi's own refresh has published.                                            *)
KeepsHealthy ==
  [][/\ cache' # cache =>
          /\ cache' # {}
          /\ \/ 2 * Cardinality(cache') >= Cardinality(cache)
             \/ \E j \in Job : job[j].stage = "save" /\ job[j].list = cache' /\ job[j].was # cache
     /\ kind = "ollama" /\ all' # all /\ restarts' = restarts =>
          /\ all' # {}
          /\ all' = cache' \/ \E j \in Job : job[j].task = "native" /\ job[j].stage = "publish"]_vars

(* A model that was found broken, and that nothing hides, is probed again by  *)
(* the next session start of Ollama that comes, even if the process ended     *)
(* between the record and the hiding, or the user has unhidden it.            *)
BrokenAgain ==
  [][\A j \in Job : kind = "ollama" /\ job'[j].task = "start" /\ job[j].stage = "over"
                      /\ job'[j].stage = "batch" =>
       {m \in all \ hidden : checked[m] = "broken"} \subseteq job'[j].todo]_vars

(* "pi-free provides automatic and manual probes": the first session start    *)
(* that finds free models which are due for a probe begins one.               *)
AutoProbes ==
  [][autoDone' /\ ~autoDone => Due(free) = {} \/ \E j \in Job : job'[j].task = "start"]_vars
============================================================================
