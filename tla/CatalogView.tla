---------------------------- MODULE CatalogView ----------------------------
(* Which models of a provider the picker shows, in one process: the global    *)
(* free-only flag in memory (registry.ts), the per-provider choices, their    *)
(* legacy keys and the hidden providers in the config file (config.ts), and   *)
(* the commands that change them (index.ts, native-provider.ts).  Updates of  *)
(* the file queue for its lock and are atomic (ConfigStore); the code after   *)
(* `await' runs later, so a command is three steps: its start, its update     *)
(* and its continuation.  Commands run concurrently.  The *_SHOW_PAID         *)
(* environment variables are unset.                                           *)
EXTENDS Naturals, Sequences

CONSTANTS Provider,
          DefaultsTrue,   \* providers whose template key "<id>_show_paid" is true
          MaxCommands,    \* bound on the commands given
          MaxRestarts     \* bound on the restarts

VARIABLES file,         \* free_only, model_view_overrides, legacy keys, hidden "<id>/*"
          globalFreeOnly,
          queue,        \* updates waiting for the lock
          resumed,      \* continuations due, of updates done
          shown,        \* provider -> what it was last registered with
          failed,       \* an update was lost since the start; read by properties only
          count         \* commands and restarts so far
vars == <<file, globalFreeOnly, queue, resumed, shown, failed, count>>

(* bug: a name that no reader of the file knows *)
FlipPaid(v) == IF v = "free" THEN "paid" ELSE "free"
Flip(v) == IF v = "free" THEN "all" ELSE "free"
ConfigWrite == [kind : {"clear", "save"}, free : BOOLEAN]
         \cup [kind : {"toggle"}, id : Provider]
         \cup [kind : {"hide"}, id : Provider, hidden : BOOLEAN]
Untouched == [f \in Provider |-> "none"]
Template == [f \in Provider |-> IF f \in DefaultsTrue THEN "true" ELSE "false"]

(* bug: a legacy key that the template has filled in counts as a choice *)
ResolveAnyLegacy(d, id, free) ==
  CASE d.override[id] # "none" -> d.override[id]
    [] d.override[id] = "none" /\ d.legacy[id] # "none" ->
         IF d.legacy[id] = "true" THEN "all" ELSE "free"
    [] OTHER -> IF free THEN "free" ELSE "all"

(* resolveViewOverrideFromConfig: only `true' counts of a legacy key *)
Resolve(d, id, free) ==
  CASE d.override[id] # "none" -> d.override[id]
    [] d.override[id] = "none" /\ d.legacy[id] = "true" -> "all"
    [] OTHER -> IF free THEN "free" ELSE "all"

(* filterNativeModels: what a registration shows *)
Visible(d, id, free) == IF id \in d.hidden THEN "hidden" ELSE Resolve(d, id, free)
RefilterAll(free) == shown' = [id \in Provider |-> Visible(file, id, free)]

Init ==
  /\ \E free \in BOOLEAN :
       /\ file = [free |-> free, override |-> Untouched, legacy |-> Template, hidden |-> {}]
       /\ globalFreeOnly = free
       /\ shown = [id \in Provider |-> Visible(file, id, free)]
  /\ queue = <<>> /\ resumed = <<>>
  /\ failed = FALSE
  /\ count = [commands |-> 0, restarts |-> 0]

----------------------------------------------------------------------------
(* the commands, up to their first await *)

Issued ==
  /\ count.commands < MaxCommands
  /\ count' = [count EXCEPT !.commands = @ + 1]
  /\ UNCHANGED <<file, globalFreeOnly, resumed, shown, failed>>

(* /toggle-free decides on the new value before it clears the choices *)
ToggleFree ==
  /\ Issued
  /\ queue' = Append(queue, [kind |-> "clear", free |-> ~globalFreeOnly])

ToggleProvider(id) ==
  /\ Issued
  /\ queue' = Append(queue, [kind |-> "toggle", id |-> id])

(* /hide-provider and /show-provider; nothing to do if it is so already *)
SetProviderVisibility(id, hidden) ==
  /\ (id \in file.hidden) # hidden
  /\ Issued
  /\ queue' = Append(queue, [kind |-> "hide", id |-> id, hidden |-> hidden])

----------------------------------------------------------------------------
(* the update at the head of the queue *)

Patched(d, job) ==
  CASE job.kind = "clear" -> [d EXCEPT !.override = Untouched, !.legacy = Untouched]
    [] job.kind = "save" -> [d EXCEPT !.free = job.free]
    [] job.kind = "hide" -> [d EXCEPT !.hidden = IF job.hidden THEN @ \cup {job.id} ELSE @ \ {job.id}]
    [] job.kind = "toggle" ->
         [d EXCEPT !.override[job.id] = Flip(Resolve(d, job.id, d.free)),
                   !.legacy[job.id] = "none"]

(* a failing write is logged, and the caller goes on as after a good one *)
Update ==
  /\ queue # <<>>
  /\ \/ file' = Patched(file, Head(queue)) /\ UNCHANGED failed
     \/ failed' = TRUE /\ UNCHANGED file
  /\ queue' = Tail(queue)
  /\ resumed' = IF Head(queue).kind = "save" THEN resumed ELSE Append(resumed, Head(queue))
  /\ UNCHANGED <<globalFreeOnly, shown, count>>

----------------------------------------------------------------------------
(* the continuations *)

(* bug: the flag is set and saved, but the registrations stay as they are *)
ApplyGlobalFilterLazily(free) ==
  /\ globalFreeOnly' = free
  /\ queue' = Append(queue, [kind |-> "save", free |-> free])
  /\ UNCHANGED shown

(* bug: the flag is saved only when it is turned on *)
ApplyGlobalFilterOnly(free) ==
  /\ globalFreeOnly' = free
  /\ queue' = IF free THEN Append(queue, [kind |-> "save", free |-> free]) ELSE queue
  /\ RefilterAll(free)

(* sets the flag, saves it without waiting, registers every provider anew *)
ApplyGlobalFilter(free) ==
  /\ globalFreeOnly' = free
  /\ queue' = Append(queue, [kind |-> "save", free |-> free])
  /\ RefilterAll(free)

Resume ==
  /\ resumed # <<>>
  /\ resumed' = Tail(resumed)
  /\ LET job == Head(resumed)
     IN \/ job.kind = "clear" /\ ApplyGlobalFilter(job.free)
        \/ job.kind = "hide" /\ ApplyGlobalFilter(globalFreeOnly)
        \/ /\ job.kind = "toggle"
           /\ shown' = [shown EXCEPT ![job.id] = Visible(file, job.id, globalFreeOnly)]
           /\ UNCHANGED <<globalFreeOnly, queue>>
  /\ UNCHANGED <<file, failed, count>>

(* Pi exits and starts again: ensureConfigFile merges the template into the   *)
(* file, the flag is read from it, and all providers register                 *)
Restart ==
  /\ count.restarts < MaxRestarts
  /\ count' = [count EXCEPT !.restarts = @ + 1]
  /\ file' = [file EXCEPT !.legacy =
                [id \in Provider |-> IF @[id] = "none" THEN Template[id] ELSE @[id]]]
  /\ globalFreeOnly' = file.free
  /\ queue' = <<>> /\ resumed' = <<>> /\ failed' = FALSE
  /\ shown' = [id \in Provider |-> Visible(file', id, file.free)]

Next == \/ ToggleFree
        \/ \E id \in Provider : \/ ToggleProvider(id)
                                \/ \E h \in BOOLEAN : SetProviderVisibility(id, h)
        \/ Update \/ Resume \/ Restart

Spec == Init /\ [][Next]_vars

----------------------------------------------------------------------------
(* Types of the file, the flag, the queues and the registrations. *)
TypeOK ==
  /\ file \in [free : BOOLEAN, hidden : SUBSET Provider,
               override : [Provider -> {"none", "free", "all"}],
               legacy : [Provider -> {"none", "true", "false"}]]
  /\ globalFreeOnly \in BOOLEAN
  /\ queue \in Seq(ConfigWrite) /\ resumed \in Seq(ConfigWrite)
  /\ shown \in [Provider -> {"hidden", "free", "all"}]

AtRest == queue = <<>> /\ resumed = <<>>

(* Once all commands are through, every provider shows what its effective     *)
(* view and its hiding call for, however the commands overlapped and whichever *)
(* updates were lost.                                                         *)
ShownAtRest ==
  AtRest => \A id \in Provider : shown[id] = Visible(file, id, globalFreeOnly)

(* Once all commands are through, the file holds the flag in memory: a        *)
(* provider's toggle, which flips what the file says, then flips what shows.  *)
FlagSavedAtRest == AtRest /\ ~failed => file.free = globalFreeOnly

(* At a restart with nothing underway every provider shows what it showed,    *)
(* unless /toggle-free has deleted a legacy key of it that the template gives *)
(* back as true.                                                              *)
RestartKeepsViews ==
  [][Restart /\ AtRest /\ ~failed =>
       \A id \in Provider : shown'[id] # shown[id] =>
         id \in DefaultsTrue /\ file.override[id] = "none" /\ file.legacy[id] = "none"]_vars

(* File, flag and picker agree once all commands are through, however they    *)
(* overlapped.                                                                *)
ViewsAgree == TypeOK /\ ShownAtRest /\ FlagSavedAtRest
============================================================================
