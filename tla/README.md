# Verification of pi-free

TLA+ specifications of the parts of pi-free that run concurrently or keep state
over time, TLC instances that check them, and TLAPS proofs about them. Paths are
relative to the repository root (`src/` here).

pi-free is an extension of the Pi coding agent. It registers some thirty model
providers with Pi, decides which of their models the picker shows (free ones or
all), keeps a config file `~/.pi/free.json` that several Pi processes share, and
switches to another free model when a run fails. Its code is event handlers and
commands in one JavaScript thread per process: handlers interleave at their
awaits, processes interleave at their file-system calls, and Pi itself refreshes
catalogs and emits events in the background.

## 1. Inventory

| component | state | operations | hard behaviour | correct when |
|---|---|---|---|---|
| auto-fallback blacklist, `lib/auto-fallback/blacklist.ts` | failures, window and last failure per model | recordFailure, clear, clearAll, isBlacklisted | expiry at the window's end, promotion to a hard ban | a failed model is banned at once; only a real streak makes a hard ban; time does not lift it |
| auto-fallback controller, `index.ts`, `selection.ts`, `settled-decision.ts`, `commands.ts` beside it | marker of the user's pick, restore in flight, tag of our own setModel, last message, prompt, arm and budget of the replay, history | nine event handlers, performSwitch, maybeRestorePreFallback, three commands | every `await pi.setModel` lets picks, sessions and toggles in | replays are bounded, a switch never returns to what failed, the tag never leaks, a settle judges its own run |
| auto-fallback classification, `classifier.ts`, `settled-decision.ts`, `lib/fallback-state.ts` | the retry classifier of pi-ai once it has loaded, the last HTTP status | classify a settled run | the import that comes late or fails; an abort that says nothing | a failed run's verdict does not depend on what has loaded; a user's abort is no failure |
| auto-fallback settings and notices, `config.ts`, `notify.ts` | buffer and window of the notices | read environment and file, record a switch, clear | many switches in a row | one toast per window, none lost, a clear leaves nothing behind |
| file lock, `lib/atomic-file.ts` | promise chain per file, lock directory | withFileLock | kills, waiters that bust, timeouts | one function at a time over all processes, every call ends |
| config file, `config.ts` | the file, a memo of it | start-up merge, updateConfig and its callers, loadConfigFile | read-modify-write across processes, stale memo | updates are atomic, loads are fresh |
| registry and global commands, `lib/registry.ts`, `index.ts` | free-only flag, registered providers | toggle-free, hide, show, refilter | the decision is made before an await | what the picker shows, the flag and the file agree |
| native providers, `lib/native-provider.ts` | catalog and completeness flag, nudge and epoch | restore, refresh, publish, nudge, toggle | superseded refreshes, retries, reloads | a full catalog is full and stays, a nudge ends and leaves no provider out |
| startup ledger, `lib/startup-timing.ts`, `lib/session-start-metrics.ts` | timings, completion counters | record, reset | reset while a nudge is reading it | the counters show progress |
| built-in provider toggles, `lib/built-in-toggle.ts`, `lib/toggle-state.ts` | captured providers, pending captures and refreshes | capture, toggle, restore of a saved model | captures racing reloads and toggles; a restore that waits while the user picks | one capture per provider, applied with the current mode; a session resumes the model it was saved with |
| JSON stores, `lib/json-persistence.ts`, `lib/provider-cache.ts`, `lib/probe-cache.ts`, `lib/opencode-catalog-cache.ts`, the file of `lib/telemetry.ts` | memo, debounced write | load, save, update, flush | a debounced write of an old memo, a store without the lock | updates are not lost |
| provider probes, `lib/provider-probe.ts`, `providers/ollama` | hidden models, probe cache, model cache | probe, hide, refresh, apply a list | a refresh that read before a hide, partial failure, a list that shrank | what was hidden stays so, what is broken is probed again, a healthy list stays |
| records of calls, `lib/telemetry.ts`, `lib/quota-monitor.ts`, listeners of `index.ts` | calls in flight and recent, statistics, quota per provider | start, response, turn end, select | model switches in mid-run, clock jumps, stale entries | a call is filed once, with its own run; a status bar shows its own provider's quota |
| logger, `lib/logger.ts` | stream, two queues, backups | log, rotate, flush, re-enable | rotation and errors while lines are underway; a flush before the exit | no line is lost without a trace, and the order is kept |
| health report, action log, `lib/health.ts`, `lib/action-log.ts` | problems | format, append | - | the report shows every recorded failure |
| OpenCode sessions, relay and readiness, `lib/opencode-relay.ts`, `providers/opencode-session.ts`, `lib/opencode-readiness.ts` | child process, holds, failure, routing of a turn | acquire, release, stop, idle stop | output, exit and deadline of the child in any order | holds are given back once, no child is orphaned, one turn at most waits in vain |
| deferred streams, `lib/lazy-compat.ts`, `lib/assistant-message-event-stream.ts` | queue of events, waiting reader | push, end, read | the import of the inner stream fails; the inner one throws | Pi reads all events in order and comes to the end |
| pi-ai loader, `lib/pi-ai-loader.ts` | chosen roots, ring of failures | import an entry | installs while the process runs; a stale copy | a stale copy never shadows a good one; a failure is reported once |
| OAuth providers, `providers/cline`, `kilo`, `qoder` | callback server, polls, stored credential | log in, refresh | a callback that races a paste, an abort or a time-out; lost answers | ports and timers are released, a cancelled login stays out, a refresh follows the rotation of its token |
| Qoder's stream, `providers/qoder/stream.ts`, `thinking-parser.ts` | open blocks, held-back text | deltas to events | tags split over deltas, ends anywhere | what Pi is told does not depend on the cut |
| Infron's continuation, `providers/infron/infron-continuation.ts` | cooldown ticket, held run | message end, settle, agent start | the user types, picks or aborts while a run is held | nothing is asked for a user who went on |
| Kilo's leaked tool calls, `providers/kilo/kilo.ts` | a counter | rewrite a message | broken XML | two rewrites in a row at most, the calls that stand there |
| catalog requests, `lib/fetch.ts` | attempts, timer, abort link | fetch with retries and deadline | aborts and time-outs between attempts | nothing is sent after an abort, every call ends |
| model metadata, `lib/model-metadata.ts` | the models.dev cache | load, look up, enrich | readers that share a load, failed loads | one load per period, and what a gateway said is kept |
| catalog rules, `lib/registry.ts`, `lib/model-map.ts`, `providers/model-fetcher.ts`, some twenty gateways | none | keep, map and judge a row | missing, null and negative prices, flags, names | no priced row shows as free, a failed fetch is no empty catalog but where it says so |
| TokenRouter's wire format, `providers/tokenrouter/tokenrouter.ts` | none | normalize a request, take thinking out of a reply | nested, unclosed and bare tags | the gateway accepts the request, no word of a reply is lost |
| benchmark tables, `provider-failover/`, `lib/model-detection.ts` | tables | look up | - | - |

How they interact. Pi calls the handlers that the extension registers
(`session_start`, `before_agent_start`, `message_end`, `agent_settled`,
`model_select`) and its commands. The controller reads the free models from the
registry and the scores from the benchmark tables, and calls `pi.setModel`,
which emits `model_select` back into the controller. The commands change the
config file through updateConfig, which runs inside the file lock, and then
register providers anew, which makes Pi refresh every catalog offline, which
supersedes a refresh that a nudge has underway. The nudge reads what became of
its refresh from the startup ledger. A refresh fetches a catalog (catalog
requests), turns its rows into models (catalog rules) and fills in what the
gateway left out (model metadata); a provider's stream reaches Pi through the
deferred streams, OpenCode's through the relay as well.

## 2. Plan

Order of the modules, most important behaviour first. All are written.

1. The controller: `Blacklist`; `AutoFallback`, with `Blacklist` by INSTANCE;
   `FallbackVerdicts`, the verdicts it acts on and the notices it sends.
2. The shared files: `FileLock`; `ConfigAtomic`, what an update of the config
   promises; `ConfigStore`, which extends 1 and implements it; `ConfigMemo`;
   `JsonStore`.
3. The catalogs: `CatalogView` on top of the atomic updates; `NativeRefresh`;
   `BuiltInCapture`; `SavedModel`; `ProbedCatalog`; `FetchRetry` and `ModelsDev`, what a refresh
   waits for; `CatalogRules`, what it makes of the answer.
4. Streams: `OpencodeRelay`, `EventPipe`, `PiAiLoader`, `QoderStream`,
   `InfronCooldown`, `KiloLeak`, `TokenRouterWire`.
5. Logins: `ClineLogin`, `DeviceLogin`, `TokenRefresh`.
6. What is written down: `LogFile`, `StartupLedger`, `CallRecords`.

Left to do: the backup of a corrupt config file and start-ups of processes killed
in mid-merge in `ConfigStore`; Pi's own refresh in `SavedModel`.

## 3. The modules and the code

An action is a handler, or the part of one between two awaits (file-system calls
for `FileLock`); its name is the function's. Definitions under a comment that
begins with "bug:" are not part of the model: each is what its neighbour could
plausibly have been, and some property is violated when it takes the neighbour's
place.

**Blacklist** models `BlacklistState`. `entries` is the Map, a count of 0 is an
absent record. `Struck`, `IsBanned`, `Cleared` are the methods; the actions call
them with an arbitrary caller and clock. `reasons` is left out, it only feeds a
listing.

**AutoFallback** models `createAutoFallback`. `pre` is `preFallbackModel`,
`flight` is `activeRestore` with the stage of its call, `own` is
`ownSwitchTarget`, `msg` is `lastAssistantMessage` with the verdict its text will
get, `armed`, `budget`, `budgetInit` and `prompted` belong to the replay,
`handler` is the `performSwitch` in progress. `Settle` is `agent_settled` up to
the first await (`Recover` after a clean run, `Fail` after a failure); the loop
over the candidates is `TryNext`, its awaited call `SwitchApply` followed by
`SwitchLand` or `SwitchReject`; a restore is `RestoreApply` and `RestoreLand`;
`loose` are calls of setModel that nobody waits for any more, or whose result
changes nothing (the repair of a pick). `choice`, `produced`, `replays` and
`count` are history variables or bounds. A switch that a session change orphans
goes on with a stale ctx (`handler.stale`), whose calls throw.

Assumed of Pi, which is not in this repository: it runs one settle handler at a
time and waits for it before the next run, unless the session is replaced;
setModel to the current model emits no `model_select`; any other one does, before
its promise resolves. `handler.overtaken`, read by properties only, says that
somebody else (a pick, a restore, a loose call) has set the model between a switch's
call and its landing. The branch that awaits `getProviderAuth` for hosts without
`hasConfiguredAuth` is not modelled. `auto_continue` off is AutoContinueMax = 0.
`createBlacklist()` is called without options (`lib/auto-fallback/index.ts:114`),
so TTL and strikes are the class's defaults, whatever `README.md:105` says of
settings for them.

**FileLock** models `withFileLock` and `acquireDirLock`. `chain` is `_chains`;
`dir` is the directory with its info file and the caller that made it; each
`mkdir`, write, read and `rm` is a step. Time is abstract: any poll may be the
last before the deadline, and a live holder looks stale only with `Suspend`. A
removal that fails is left out.

**ConfigStore** composes the lock with `ensureConfigFile` (`BootRead`,
`BootWrite`, no lock) and `updateConfig` (`Read`, `Write`, `WriteFails` inside the
lock). The updates are toggles of a provider's view, the updater that depends
most on what it read. Nothing in the code keeps a start-up apart from another
process's update; the constant `Overlap` says whether it happens.
**ConfigAtomic** is the promise: each toggle happens in one step, or not at all
because its call was dropped or its write failed. As `updateConfig` keeps a failed
write to itself, the caller is then told a view that was not stored (`Lose`, `Told`).

**ConfigMemo** models `loadConfigFile`: stat, then a hit, or a read that makes a
new memo, with writers in between.

**CatalogView** models one process's flag, `model_view_overrides`, legacy
`<id>_show_paid` keys, hiding, and the registrations (`shown`). A command is its
start, its update in the queue for the lock, and its continuation. The
`*_SHOW_PAID` environment variables are taken as unset, and `noCandidates`
wording and notices are left out.

**NativeRefresh** models `refreshNativeProviderModels` and `runRefreshNudge`.
`stored` is the catalog in memory with its completeness flag, `store` is Pi's
models store, `stamp` the ledger's two counters that a nudge reads (`refreshOks`,
`emptyRetains`), `fetching` says whose refresh is underway. A fetch may be answered
with nothing for any provider (`EmptyRetain`): without a credential, or because
its fetcher kept an error to itself. Assumed of Pi: a newer refresh of a provider supersedes an older one,
which then publishes nothing and resolves without an error; each registration
starts an offline refresh of all providers.

**BuiltInCapture** models `setupBuiltInProviderToggles` and what it starts, for one
provider. `task` are the captures, each with the state it may make (`state`, the
closure of `createProviderState`: mode, catalog, registry); `current` is
`providerStates`, `pending` `pendingCaptures`, `refreshing`
`pendingEndpointRefreshes`; `listing` is what the live session's registry lists.
`resumed` orders the continuations of commands whose update is done. `lost` and
`clobbered` only tell the properties apart. `maybeRestoreSavedModel` is a wait here;
the update reads `free_only` from environment or file, so it may flip against
another default than the flag. Assumed of Pi: a module's state survives a reload
(as the comment at `lib/built-in-toggle.ts:320` says), a registry lists Pi's own
catalog until something is registered with it, and a replaced ctx throws when it
is read.

**SavedModel** models `resolveSavedModelChoice` and `restoreSavedModelInner` with
what starts them. `trail` are the session's model_change entries, each of an
earlier run or of this one (an entry without a date counts as earlier);
`restore` are the restores, one for each session_start; `seen` and `saved` are
the model of its snapshot and the choice it found. The wait for the endpoint
refresh and the call of `setModel` are the two awaits. `chosen`, `pick`, `since`
and `against` are read by properties only. Assumed of Pi: it opens a session
before the provider is registered and appends the model it falls back to, and
the setModel of a replaced runner throws. Pi's own refresh of the catalog, which
shares the fetch of the endpoint refresh, is left out.

**JsonStore** models `createJSONStore` with each of its four files (`style`). `memo`
is `cached`, `timer` is `flushTimer`; a call is `Invoke` (with the provider
cache's guard), `Read` and `Save` (the synchronous body of `update`, of which a
process lets nothing in between, but another process does), and `Flush` for the
callers that ask for it. The lock is taken as exclusive, which FileLock is about.
A value is nothing, a shrunk list or a full one. `missed`, `own`, `latest` and
`disturbed` are read by the properties only. Ages of entries and the statistics
are left out.

**FallbackVerdicts** models the classifier, `classifySettledFailure`, the settings
and the notifier. A message is the class of its wording, and `load` the import of
pi-ai's own classifier. `env` and `file` are the two sources of a setting; `buffer`,
`switchWindow` and `bar` are the notifier's.

**ProbedCatalog** models Ollama Cloud's and the gateways' probes: a task (`job`) is a
command, Pi's refresh, a session start or a probe, which works in batches with an
await each. `hidden` is in the config file, `cache` on disk, `all` and `free` the
live lists, `captured` the array that the handler of a gateway keeps.

**OpencodeRelay** models class `Relay` with its singleton, `maybeRelayBaseUrl` and the
check at model selection. A child has a start, a PORT line, an exit and a kill, in
any order; a turn acquires, waits with a deadline, holds and releases; a prewarm is
a turn that holds nothing.

**EventPipe** models the shell stream of the compatibility bridge and OpenCode's
deferred stream: `phase` is the loop that forwards, `queue` and `reader` those of
the event stream, `module` the shared import. **PiAiLoader** models the choice of a
copy of pi-ai; `copy` says what each probe of the disk finds, `roots` are the roots
that are kept, `events` is the ring of failures.

**ClineLogin** models `loginCline` with its callback server, `pc` being the await it is
in. **DeviceLogin** models the two logins that poll; `now` advances also while a poll
is underway, and `polledAt` and `decidedAt` (when the last poll was answered, when the
user decided) are read by properties only. The user may leave Qoder's prompt open. **TokenRefresh** models one refresh after another of a credential, under
Pi's lock; `granted` and `valid` are the provider's side.

**QoderStream** models `streamQoder` with the tag parser. The answer is a sequence of
characters, cut into deltas in every way up to MaxPiece, mixed with reasoning and
tool calls; `seen` is what Pi was told. **InfronCooldown** models the handlers of the
continuation and the part of Pi that calls them. **KiloLeak** models the handler that
turns leaked XML into tool calls: texts are sequences of tags and words.

**FetchRetry** models one call of `fetchWithRetry`, with its caller's deadline and
abort. The jittered length of a sleep is left out. **ModelsDev** models the cache of
`lib/model-metadata.ts`: an entry is there from the start of its load. Lookup and
enrichment are operators of the same module.

**CatalogRules** has no state. A row is what a gateway publishes, abstracted to what a
verdict can depend on: each price absent, null, negative, zero or positive, whether
there is a price list at all, a flag, and where the word "free" stands. `Map` is the
mapper of each gateway, `IsFreeModel` the verdict of `lib/registry.ts`, `Keeper` which
rows each fetch keeps, and the Fetch operators what a failed or aborted fetch
brings. **TokenRouterWire** is the normalizer of requests and the extraction of
thinking from replies, on sequences of words and tags.

**LogFile** models `lib/logger.ts` with the stream, the asynchronous rotation (one
rename a step) and the synchronous flush. **StartupLedger** models the timings'
bookkeeping without the times. **CallRecords** models telemetry and quotas, with the
model that is current when an event comes.

## 4. What is checked

Parts that share no state are checked in one run where each is small: the MC module
extends one of them, has the others by INSTANCE, and the variable `part` says whose
behaviour it is; the others keep an initial state. `part = "rules"` of `MCProviders`
takes no step: it is where the stateless modules are evaluated.

| run | question | bounds |
|---|---|---|
| blacklist | `Blacklist`: streaks fit in a window; a failure bans at once; time lifts no hard ban | 2 keys, TTL 2, 3 strikes, clock to 7, 4 failures |
| | `FallbackVerdicts`, `CallRecords`, `LogFile`, `StartupLedger`: JournalsSound | 4 settled runs and a window of 2; 2 models of 2 providers, 2 runs with 2 turns, a switch; 5 lines in files of 2 with 2 backups, a flush, a fault; 2 entries, 2 sessions |
| auto_fallback | six properties of the controller, see below | 3 models of 2 providers, one flaky; 2 prompts, 1 pick, 1 session change, 1 toggle, history of 2 |
| file_lock | mutual exclusion, ownership, termination | 2 processes with 2 callers each, one of them killed at any point |
| config_store | no update overwrites one it has not read; refinement of ConfigAtomic | 2 processes, 3 callers on 2 providers, every form of the file, kills and failing writes |
| native_refresh | a complete catalog is whole and stays; nudges end, leave no provider out, give up last | 2 providers, one without a credential; 2 sessions, 1 retry, 1 fault, 1 reload, 2 registrations |
| catalogs | `BuiltInCapture`: one capture per provider; at rest the live session lists it with the effective view; the live catalog stays | 2 captures, 2 commands, 3 session starts, 1 reload |
| | `SavedModel`: a session resumes its saved model, and nothing the user left or never chose | 2 models of the provider, 1 of them upstream, 2 others; 2 sessions, 2 session starts, 1 pick |
| | `CatalogView`: picker, flag and file agree once all is quiet; a restart keeps the views | 2 providers, 3 commands, 1 restart |
| | `ProbedCatalog`: hides survive, the broken are probed again, healthy lists stay | 3 models, batches of 2, 2 tasks, 1 edit, 1 tick |
| stores | `JsonStore`: a write undoes what it has not seen only in its own window; at rest nothing is lost | 2 processes, 3 calls, 2 keys, 1 exit, each of the four files |
| | `ConfigMemo`: a load is never older than the file at its start | 4 versions, a clock fine enough to tell them apart |
| opencode | `OpencodeRelay`, `EventPipe`, `PiAiLoader`: OpencodeSafe, LoadErrorIsFresh, OpencodeEnds | 3 turns, one a prewarm and one not relayable, 3 children; 2 streams with 2 events each, a failing import; 2 entries, 2 loads, 1 install |
| providers | three logins and refreshes, three stream handlers, `FetchRetry`, `ModelsDev`, `CatalogRules`, `TokenRouterWire` | 2 ports; 4 poll intervals, polls of up to 2; clock to 8, 3 tokens; answers with one or two thinking tags in pieces of up to 3; 3 rate limits; all pairs of 11 pieces of XML; up to 3 attempts; 2 readers, TTL 2, 2 attempts; all rows, and texts of up to 3 tokens |

Why the bounds are enough. *blacklist*: the clock passes three whole windows and
a streak passes the strike limit, so a record expires, is promoted, expires as a
hard ban and starts over; the log rotates twice, so a backup falls off the end;
two runs with a switch between them can mix up their calls. *auto_fallback*: a
failing provider is exhausted and falls through to the other provider; two
switches meet the cap of the history and of the budget; a pick, a session change
and a toggle can each fall between any two awaits. *file_lock*: two callers of one
process queue, so a kill, a failure and a timeout each hit a caller with another
behind it; the third process, with which exclusion fails, is the subject of
lock_bust. *config_store*: two callers toggle the same provider, where a lost
update shows, and a third another one, where an overwritten one shows.
*native_refresh*: two nudges coexist and supersede each other; one registration can
disturb the first attempt and one the retry. *catalogs*: a session start can come
before, during and after a capture, another in the runner after the reload; two
commands overlap, of which one may capture on its own; three view commands
overlap, each before the update of the first is through; two tasks of a probed
catalog overlap in each of their awaits, one of three models stays outside the
first batch; a saved model is missing in the first list, in the refreshed one or in
neither, and a pick comes before, during or after the wait. *stores*: two calls of one process share a window, and the third, of
another process, falls into it, before it or after it; a config write comes before
the stat, between stat and read, and after. *opencode*: while one turn holds a
child another waits for the next, and a third child can follow both; two streams
share an import that fails once. *providers*: a callback, a paste, an abort and a
time-out race in every order; a poll can span the deadline; a token is rotated,
its answer lost and the rotation repeated; a tag is cut at each of its places and
a second kind of tag follows; a load of models.dev can expire before, while and
after another reader asks; the third attempt is the last.

The properties, beyond one type invariant per module:

- *FailureBans, WindowHoldsStreak, HardBanOutlastsWindow*: the boundaries of the
  window.
- *ReplaysBounded*: a failing prompt is not replayed for ever, whatever happens
  between the replays.
- *TagScoped*: the mark that makes the controller ignore a `model_select` is up
  only while the call it stands for is pending.
- *SwitchesSound*: the list of candidates is ranked once and used over several
  awaits; it never contains the model that failed or one that was banned meanwhile.
- *MessageOfThisRun*: a settle judges a message of its own run, provided the
  feature was not switched off over a settle.
- *ReplayOnNewModel*: a replay goes out right behind a switch of its own settle, if
  the session was not replaced, and to the model switched to, which is not the one
  that failed, unless something else set the model between the switch's call and
  its landing.
- *Mutex, Ends*: exclusion, with the directory being the holder's own, and each
  call returns or times out.
- *ReadIsFresh, UpdatesAreAtomic*: the file does not change between an update's
  read and its write; the updates refine ConfigAtomic: none undoes another, and
  each caller is told the view its update stored, or would have but for a failed
  write.
- *ViewsAgree, RestartKeepsViews*: overlapping commands leave what is shown,
  remembered and stored in agreement.
- *LoadIsFresh*: the memo is not stale.
- *CatalogsWhole, NoDowngrade, CleanWithoutReload, GivesUpLast, NudgesEnd*: the
  stored subset is never taken for the whole catalog and never replaces it; a
  nudge that ends clean, unless the extension was reloaded, leaves no provider out:
  each has its whole catalog or was answered with nothing since the attempt began; it
  gives up only after more disturbances than it has retries; and it ends.
- *BuiltInsSound*, of which *CapturesSound*: with nothing underway the live session lists the provider from
  its current state, with the effective view and the newest catalog, but in
  three situations in which the code does not promise it: an update was lost, a
  state was overwritten by a second capture, or a capture's entry was deleted by
  another's end. A state is overwritten only in the last of these, or after a
  command that found no capture underway and made its own. *FreshStays*: otherwise
  a session never goes back from the live catalog to the captured one.
  *RestoreSound*: a restore selects only what the user had chosen, never an older
  choice that he had left in an earlier run, nor what Pi fell back to; a model of
  the provider that he picks during the wait stands; and if he picks none, a
  session that captured the provider ends on its saved model.
- *Isolated*: a write of one of the JSON files changes only keys that its process
  has updated, except that it undoes what another process wrote within its own
  window. The window is from the debounced update to its write and the flushes
  asked for; the file without a lock is always in one. *DurableAtRest*: without
  such a conflict, at rest the file has the latest update of every key.
- *ProbesSound*: only an edit of the user shows again what a probe has hidden,
  whatever refresh, probe or command had read the older config; a model found
  broken and not hidden is probed at the next start; lists that shrank too much
  replace neither the cache nor, but for Pi's own refresh, the live list.
- *OpencodeSafe*: holds of the relay are counted and given back once, no child is
  orphaned or stopped under a stream, one turn at most waits in vain; what Pi reads
  is what the inner stream yielded; a stale copy of pi-ai never shadows a good one,
  nor is a failure reported twice. *LoadErrorIsFresh*: a bridged stream fails only
  with an import of its own. *OpencodeEnds*: no turn and no stream waits for ever,
  and an idle child stops.
- *LoginsSafe, CancelHolds*: a login leaves neither port nor timer behind, exchanges
  the code that came first; one that polls and times out has overlooked only a
  decision made after its last poll was answered, which for Kilo is at most a poll's
  time before the deadline, for Qoder after all its attempts; nothing is polled after
  a cancel; a refresh follows the rotation of its token (unless an answer that
  rotated it was lost), and what it returns is not past its own date.
- *AnswersSound*: what Pi is told of Qoder's answer is the same for every cut, and
  each block has its own events; a message of Kilo becomes the calls that stand in
  it; Infron's handlers stop no run but their own. *HeldBack*: a continuation is
  asked for after the limit, for the same model, and not over the user's head.
- *CatalogsSound*: a request sends nothing after its abort and throws only its last
  attempt's error; models.dev is asked once per period for all who wait. For every
  row and gateway: one with a price and nothing that says free is not free, nor is
  one without prices (four gateways excepted by name, see below); a paid flag is
  final; a gateway's own verdict is the one shown; each fetch keeps every plain
  text model and brings nothing when it failed or was aborted, but Kilo's free
  list. A request to TokenRouter is in a form it accepts, and no word of a reply is
  lost. *ProvidersEnd*: logins, streams, held runs and requests come to an end, but
  for a login whose user leaves Qoder's prompt open.
- *JournalsSound*: no line of the log is lost without a trace, reordered or left
  waiting, and what a flush promised is on disk; the ledger accounts for each setup,
  handler and failure; calls, latencies and quotas are those of their own run and
  provider; the verdict on a failed run does not depend on whether pi-ai's classifier
  has loaded, that on an aborted run only for a 503 whose message just one of the two
  classifiers calls transient; no window has more than its toasts, and no setting
  turns a guard off.

Fairness. `FileLock!FairSpec` has weak fairness for the steps of a caller, which
its process runs as long as it lives, and strong fairness for `TimeOut`: the
deadline is compared with the clock before each sleep, so a caller that polls for
ever meets it. Nothing is assumed of a holder but that its function ends, and
kills are never fair. `NativeRefresh!FairSpec` has weak fairness for the answer
to a fetch (each has a timeout), for the return of Pi's refresh, for timers and
for the registration after a toggle; faults, reloads and further registrations
are unfair and finitely many. In the opencode run fair are the deadline of a
waiting turn, the idle timer, the reader (Pi reads what it was handed), the end of
an inner stream and the settling of an import; the child itself is not. In the
providers run fair are timers, the end of a request that has a time-out, the
continuation of a promise that has settled, and the clock; users (the answer to
Qoder's prompt included, which `providers/qoder/auth.ts:407` awaits without a limit),
browsers, gateways and aborts are not. Some requests have no time-out (Qoder's stream, the
logins' own requests when a signal is given); of those it is assumed that the
network answers or breaks off in the end. Everything else is safety and has no
fairness.
Deadlock is not checked where commands, callers or prompts are bounded, since
the system then rests.

### Where the code and its documentation disagree

Each of the first three has a run that shows it.

- *lock_bust*: two waiters judge one dead lock; the second removes the one the
  first has just made (`lib/atomic-file.ts:168`).
- *startup_merge*: the merge at `config.ts:309` writes back what it read before
  another process's update, against `CHANGELOG.md:36`.
- *auto_probe*: the handler that should probe at the first session start keeps the
  empty list of the registration (`lib/native-provider.ts:442`), finds nothing due
  and is done for the session, against `docs/features.md:46`.

Known divergences that the models contain, without a run of their own:

- a hard-banned record whose window has passed is dropped when the model fails
  again, which ends the ban (`lib/auto-fallback/blacklist.ts:85`, against 11 and
  121);
- a reload resets the ledger between a nudge's two readings
  (`lib/startup-timing.ts:234`), and the nudge ends clean without a catalog
  (`lib/native-provider.ts:718`): *CleanWithoutReload* excludes it;
- a fetcher with a credential may keep its error to itself and answer with nothing
  (`providers/tokenrouter/tokenrouter.ts:464`, `providers/bai/bai.ts:184`), which is
  recorded as an empty retain (`lib/native-provider.ts:1044`): the nudge ends clean
  with the catalog as it was;
- `toggleModelViewOverride` returns "the view that was applied" (`config.ts:625`) also
  when its write failed, as `config.ts:1225` keeps the error to itself;
- the end of a capture deletes whatever entry its provider has
  (`lib/built-in-toggle.ts:409`), also that of the new runner's capture after a
  reload, and the next duplicate session_start races a second one, against the
  comment at 206; the endpoint refresh compares before it deletes (1072);
- the guard of the provider cache reads the memo, before it waits for the lock
  (`lib/provider-cache.ts:148`): a shrunk list can overwrite the full one that
  another process, or a call just before, has written (doc at 139);
- `persistSyncCacheEntry` writes without the lock
  (`lib/opencode-catalog-cache.ts:53`, `CHANGELOG.md:36`), and a flush with no timer
  set writes the memo as well (`lib/json-persistence.ts:140`);
- the restore of a saved model takes every entry of the running session for Pi's own
  fallback: a model of another provider that the user picks while the restore waits
  for the refresh is overridden (`lib/built-in-toggle.ts:521`), against the comments
  at 607 ("a user switch in that window must win") and 538; the test of it gives a
  session without entries. *PickStands* states it, and TLC refutes it;
- with a state at hand, e.g. from the sync cache, session_start begins the restore
  before it schedules the refresh (`lib/built-in-toggle.ts:351`), so that a saved
  model missing in the old list is given up, against the order that the comment at
  388 asks for; *RestoredAtRest* is about sessions with a capture;
- a toggle that finds no capture underway starts one that session_start does not
  know of (`lib/built-in-toggle.ts:1132`), and the later state overwrites the
  earlier, against the comment at 1128;
- the recovery un-bans the model that was current at the settle, not the one that
  failed (`lib/auto-fallback/index.ts:749`, comment at 745);
- an untagged setModel of our own is recorded as the user's pick when it lands in
  a later restore (834, comment at 831);
- a message outlives a settle with the feature off (722, comments at 137 and 727);
- a dead session's rejections are struck as failures (341, comment at 548);
- a failed model that the user picks again in mid-switch gets the replay (804,
  comment at 778), and an arm survives a replay on a dead ctx (801, comment at 786);
- a live holder older than STALE_MS loses its lock (`lib/atomic-file.ts:159`, doc at
  191), and a lock without info is never busted (157, `CHANGELOG.md:36`);
- two writes with one mtime share a memo (`config.ts:376`, comment at 277);
- the template restores `stepfun_show_paid` and `gmi_show_paid` as true at the
  start after `/toggle-free` (`config.ts:243`, doc at 680): DefaultsTrue are the
  providers with such a key, b in the catalogs run; a restart keeps what a provider
  shows but for these;
- two overlapping `/toggle-free` set the same value (`index.ts:169`, doc at 153);
- with an unreadable ledger a nudge reads as clean (`lib/native-provider.ts:736`,
  comment at 711); the model's ledger is readable.

Of the controller and its verdicts:

- after two switches in a row `lib/auto-fallback/index.ts:841` has forgotten the
  user's pick, and the restore goes to the first fallback, against line 349;
- of a run aborted with a 503 the verdict changes when pi-ai's classifier has loaded,
  if just one of it and the local patterns calls the message transient
  (`lib/auto-fallback/classifier.ts:187`);
- an abort may be judged by the status of an earlier request; the notices' level is
  kept from the first switch on, though a comment says that live changes apply
  (`lib/auto-fallback/index.ts:171`); an invalid level in the environment hides the file's.

Of catalogs and probes:

- a refresh that read the config before a hide may save and apply the older list;
  Pi's own refresh ignores the verdict of the guard; once more than half of the
  models are hidden the guard refuses the shorter list for good;
- the gateways' probes hide a model on any 5xx, though `docs/features.md:51` says
  that transient network failures are no proof;
- missing prices read as a known 0 with Venice, Kilo, FastRouter and, on purpose,
  SambaNova; a row that publishes only one price counts as priced with AnyAPI,
  OrcaRouter, XKiro, Novita and Routeway; a negative price is 0 with OpenGateway;
  Merge takes its cheapest input and its cheapest output from different vendors;
  each of them may show as free what is not;
- Kilo's second attempt, for free models, replaces the whole list, and reads a
  missing price as 1 where the mapper reads it as 0;
- a failed load of models.dev is cached like another, as the `catch` that should
  drop it is never reached (`lib/model-metadata.ts:98`); "m" and "m:free" share one entry.

Of requests, logins and streams:

- a 429 is thrown inside the `try` and so retried, though the comment says
  "throw immediately" (`lib/fetch.ts:135`); timer and abort link end with the
  headers, so a body that stalls is waited for without end; a backoff sleep cannot
  be interrupted;
- a login of Kilo's that the user approves between the last poll's answer and the
  deadline times out (`providers/kilo/kilo-auth.ts:142`): no poll follows the deadline;
- Kilo's polls have no signal, so that an approval that is underway logs in after a
  cancel; a refresh of Qoder that answers 200 without a token stores none; a
  pasted callback URL has "+" read as a space, the callback itself has not;
- the relay's recorded failure is erased by a PORT line that is read after the
  kill; a failed import of a pi-ai subpath is kept for ever; a root is kept before
  its entry file is known to resolve;
- Qoder: a block of thinking that is put before an open text shifts the tool blocks,
  whose arguments then go to the wrong one; line breaks after a closing tag stay
  if they come in a later delta; text held back is finalized after later
  reasoning; a call without arguments leaves no block; a last line without a line
  break is dropped;
- Kilo's counter of rewrites starts over when it gives up, and not with a session;
  native calls and thinking of a rewritten message are dropped;
- TokenRouter: the words " thinking" and " response" of ordinary prose count as tags
  in replies of every model; an empty pair of tags makes the fallback run on a text
  that keeps them.

Of what is written down:

- a flush while a stream is ending for a rotation leaves that stream's lines to it
  and puts queued ones before them (`lib/logger.ts:498`), and if that flush rotated
  and the stream then fails, a later rotation removes newer lines than it keeps; so
  does a flush that rotates in the middle of a rotation; a re-enabling timer
  that fires during an open leaves logging synchronous for good;
- work of an old session that ends late is reported in the new one;
- the totals of telemetry cover one call more than are kept, though the comment says
  twice as many; a call of a killed run may give a later turn its start after a
  switch of models; a late response counts for the model that is current then.

## 5. What is proved

Every theorem holds for all values of the constants that meet the assumptions named
in the modules: the bounds of section 4 (how many prompts, kills, calls, tokens) are
constants like others. Each proof has an inductive invariant, a lemma for each
action, and a last step that puts them together; the parts of a run that share no
state have an invariant each, and each keeps the others' variables.

- `AutoFallbackProofs`. Types. *ReplaysBounded* from `BudgetInv`: replays sent and
  budget left add up to at most the maximum once the budget is set, and nothing was
  sent before; the bound alone does not say what is left. *TagScoped* and
  *SwitchesSound* from `SwitchInv`, which adds that the candidate is not in the rest
  of the list: without it a strike on the candidate could ban one that is still to
  be tried. *MessageOfThisRun* from `RunInv`: with nothing toggled, there is a
  message only in a run that has produced it, and no switch is in progress while a
  run is, unless it is an orphan. *ReplayOnNewModel* from `ReplayInv`: while a
  switch has applied and nobody has overtaken it, the current model is its
  candidate.
- `BlacklistProofs`, on `Blacklist`: types; *WindowHoldsStreak*, inductive given the
  types; *FailureBans* and *HardBanOutlastsWindow*, action properties that follow
  from the types and what `Struck` returns. On the other parts of the run,
  `JournalsInv`: `LogInv` (nothing lost, nothing stuck, flushed lines safe, with
  `StreamKept`: lines whose write has landed are safe while their callback is
  underway), `OrderInv` (no flush having overtaken it, a stream writes to the newest file;
  all that is written or removed is older than what waits; each file, and each older
  file before a newer, is in order; a rotation moves a file to where none is left),
  `LedgerInv` (`SetupInv`: the providers recorded so far are those that
  are done; `WindowInv`: the window opens first among the listeners, before any
  handler has returned), `FetchInv` (the total of fetches is the sum over the
  providers), `CallsInv` (`PairInv`: what is pending is no newer than the
  run, and the run's own model is current while it calls; `KeptInv`: how many calls
  are kept and how many the total covers), `ErrorsInv` and `BadInv` (errors and
  failing responses are what is counted), `NoticeInv`, and `ToastInv` (a toast
  belongs to the switch from which it counts, and the later of two, the earlier one
  not the episode's first, is a window behind it: *NoFlood* only looks at three).
  The theorems are *LinesAreKept, LinesInOrder, LedgerAccounts, CallsAreFiled,
  TotalsAreSums, VerdictsStand, NoToastFlood* and, of them all, *JournalsAreSound*.
  A sum is a fold, for which the library has no theorem that the provers can use:
  `Total` is its recursion, proved by the least counterexample of a well-founded
  order, and the lemmas about it say what changing, adding or dropping one summand
  does.
- `ConfigStoreProofs`. Types of the lock, from `QueueInv` (a caller past its start
  is the head of its process's chain), and of the file, with any kills, suspends and
  start-ups. *Mutex* from `OwnerInv`: the caller between mkdir and release owns the
  directory. It holds under `OneSurvivor /\ ~Suspend`: nobody is killed, for any
  number of processes; or there are two, of which either may be killed at any point,
  as then one caller at most is left to bust the lock. With kills among three
  processes it is false (lock_bust). *ReadIsFresh* and the refinement
  *UpdatesAreAtomic* under `Undisturbed`, which excludes start-ups in the middle of
  an update too (they break it: startup_merge), from `FreshInv`: an updater that has
  read is alone with the file.
- `StoreProofs`. Types; *Isolated* from `BaseInv`: memo and base agree with the file
  on all keys but those a process has updated or missed, and a store that writes at
  once under the lock misses none; `LockInv` says that the writing call has the
  lock. *DurableAtRest* from `LatestInv`: as long as nobody was disturbed, a key
  that the file does not have as last updated is owned by a process whose timer is
  set, and what a sole owner holds of it is the latest. *LoadIsFresh* from
  `MemoInv`, if every write has an mtime of its own (`FineClock`): a memo whose
  mtime is the file's holds the file's version.
- `CatalogProofs`: all five properties of the catalogs run. *ViewsAgree* and
  *RestartKeepsViews* from `ViewInv`: a provider shows what the file says or a
  continuation that will refit it is still to come; and unless a save failed, the
  last save in the queue brings the flag. *ProbesSound* from `ProbeInv`: a list
  about to be saved or published is not empty and not shrunk. *CapturesSound* and
  *FreshStays* from `CaptureInv`: `OnceInv` (unless clobbered, a live capture is the
  pending one, and without captures by commands there is one state at most),
  `CommandInv` (a command's continuation comes once), `LastInv` (the last
  continuation brings the choice that is stored) and `ListedInv` (the session lists
  what the current state says). *RestoreSound* from `SavedInv`: `TrailInv` relates
  the last entries of the session to what was chosen, `RestoreInv` says what a
  restore knows at each of its awaits, `RestoredInv` that the choice of a session
  that captured the provider is active or underway.
- `NativeRefreshProofs`. *CatalogsWhole*, *NoDowngrade* and *CleanWithoutReload*
  from `RefreshInv`: `RetriesLeft` (a waiting nudge has a retry left) and
  `LedgerSound` (until a reload the counts in the ledger only grow, and a count
  of refreshes above zero means a whole catalog in memory). *GivesUpLast* from `PaceInv`: each
  attempt of the latest nudge was disturbed by something of its own, a fault, a
  reload or a registration, where the registration a toggle still owes is counted
  when it comes.
- `OpencodeProofs`. *OpencodeSafe* from `RelayInv` (`ChildInv`: a relay that was
  made and not stopped has a running child, and an idle timer only if nobody holds
  it; `TurnInv`: a turn that waits does so for a child that may still answer;
  `WaitInv`: after a wait in vain the current relay has been stopped), `PipeInv`
  (per stream: what was read, queued and is to come is what the inner stream yields;
  the module itself never fails to load) and `LoaderInv` (a root that is kept serves
  its entry). *LoadErrorIsFresh* from `PipeInv`.
- `ProvidersProofs`. *LoginsSafe* and *CancelHolds* from `ClineInv` (the server is
  open exactly while its code is awaited), `DeviceInv` (where each await stands to
  the clock, and a poll answered 'pending' was answered before the user decided) and the refresh's own property, which is inductive. *HeldBack* and the
  part *OnlyOwnStopped* of *AnswersSound* from `InfronInv`: an armed continuation is
  for the model that is current, and one that waits holds the ticket. The parts of
  *CatalogsSound* with a state, `FetchSound` and `CatalogShared`, from `FetchInv`
  and `MetadataInv`: the cache is the latest load, and loads are a period apart.
  *BlocksSound* of `QoderStream`, a part of *AnswersSound*, from `QoderInv`: the marks
  of the parser and of the calls lead to blocks of their own kind (`MarksInv`,
  `CallsInv`), only the block a mark leads to is still to end (`BlocksInv`), after the
  current text there are only tool calls (`OpenTextInv`), and unless text came in
  between, a call's arguments all went to its block (`Exact`). The block of a thought
  that goes before its text moves all later ones, marks included; the parser's rounds
  over the buffer are a fold, whose stages the proof writes out as a function.
  *CutDoesNotMatter*, the other part, from `CutInv`: what Pi was told so far and what a
  reading of the buffer would add, from inside or outside a thought as the parser is,
  are together what one reading of all that arrived finds; the parser holds back no
  more than the beginning of a tag, so that a round takes from the buffer what a
  reading takes from it (`Scan` has its definition by an induction on the length).
  *LeakSafe* of `KiloLeak`, the last part of *AnswersSound*, from `KiloInv`: a message
  that was rewritten is the rewriting of the last text. What the parser makes of a text
  is compared with the one pass of the reference place by place, from the end: outside
  a block both find the same next block (`BlockTaken`, `NoneTaken`), so the calls from
  there are those of the blocks still to come (`CallsFound`), each with what stood
  between its tags (`CallFits`); what is left without the blocks opens none before the
  end of one (`StrippedClean`). Pass and recursion are written out as functions
  (`BlocksPass`, `Follows`), whose existence is an induction of its own. Of the texts
  that the run lets Qoder and Kilo answer with, both proofs use only which letters and
  tags they are over (`TextsAreLetters`, `LeakingAreTokens`); *CallsOfAnyText* states
  the result about Kilo's parser for every text.

The assumptions on constants say what their names promise (bounds are naturals,
limits positive, `None` is no member) and TLC evaluates them in each run;
`IsFiniteSet` is assumed where something is counted.

Only model-checked:

- liveness (*Ends, NudgesEnd, OpencodeEnds, ProvidersEnd*): it needs ENABLED, which
  TLAPS does not have here;
- the stateless rules of *CatalogsSound*: their quantifiers range over fixed finite
  sets that depend on no constant, so TLC decides them completely, but for
  *RepliesKept*, which is about texts of up to 3 tokens;
- the runs that expect a violation, by their nature.

## 6. What is not modelled

The items left in the plan, for now, and a config file that is there but cannot be
read, which an update takes for a missing one (`config.ts:419`). For good: the tables of benchmark scores and the heuristics over model names
(`provider-failover/`, `lib/model-detection.ts`, most of `lib/provider-compat.ts`),
whose results are inputs of the models; the size limits of `lib/model-map.ts`
(`isUsableModel`), which nothing in the extension calls; the registrations of
the gateways, which only pass options on to the native providers; headers, cookies,
request bodies and message formats but for TokenRouter's; text for the user; the
durations in the startup ledger; the build, release and smoke-test scripts. They
keep no state that other parts race for, or are pure input and output.
