---------------------------- MODULE MCCatalogs ----------------------------
(* Four parts of the catalogs that share no state, in one run: a behaviour is *)
(* one of the capture of a built-in catalog (extended, with captures and      *)
(* commands that are interchangeable), of the restore of a saved model, of    *)
(* the views that commands choose, or of the catalogs that are probed (with   *)
(* interchangeable tasks); the others stay as they began.                     *)
EXTENDS BuiltInCapture, TLC

CONSTANTS a, b, Provider, DefaultsTrue, MaxCommands, MaxRestarts,
          Model, FallbackModels, NamedFree, Job, BatchSize, MaxJobs, MaxEdits, MaxTicks,
          Own, Upstream, Other, Restore, MaxSessions, MaxPicks

ASSUME CatalogsAssumption ==
  /\ FallbackModels \subseteq Model
  /\ Own \cap Other = {} /\ None \notin Own \cup Other /\ Upstream \subseteq Own
  /\ MaxSessions \in Nat /\ MaxPicks \in Nat

VARIABLES part,
          file, globalFreeOnly, queue, continued, shown, failed, count,
          kind, hidden, cache, all, free, captured, autoDone, checked, job, jobs, edits, ticks,
          restarts,
          opened, begun, trail, active, known, catalog, joint, restore, chosen, pick, picks, refused
viewVars == <<file, globalFreeOnly, queue, continued, shown, failed, count>>
probeVars == <<kind, hidden, cache, all, free, captured, autoDone, checked, job, jobs, edits,
               ticks, restarts>>
modelVars == <<opened, begun, trail, active, known, catalog, joint, restore, chosen, pick,
               picks, refused>>
allVars == <<part, vars, viewVars, probeVars, modelVars>>

Views == INSTANCE CatalogView WITH resumed <- continued
Probes == INSTANCE ProbedCatalog
Saved == INSTANCE SavedModel WITH
  session <- opened, started <- begun, refreshing <- joint, failed <- refused

MCInit ==
  /\ part \in {"capture", "saved", "views", "probes"}
  /\ Init /\ Views!Init /\ Probes!Init /\ Saved!Init
  /\ part # "capture" => choice = None /\ flag = "free"
  /\ part # "views" => file.free
  /\ part # "probes" => kind = "gateway" /\ cache = {}
  /\ part # "saved" => known = {}

MCNext ==
  \/ part = "capture" /\ Next /\ UNCHANGED <<part, viewVars, probeVars, modelVars>>
  \/ part = "saved" /\ Saved!Next /\ UNCHANGED <<part, vars, viewVars, probeVars>>
  \/ part = "views" /\ Views!Next /\ UNCHANGED <<part, vars, probeVars, modelVars>>
  \/ part = "probes" /\ Probes!Next /\ UNCHANGED <<part, vars, viewVars, modelVars>>
MCSpec == MCInit /\ [][MCNext]_allVars

(* A built-in provider is captured once and listed at rest as the user views  *)
(* it; and a session resumes the model it was saved with, and no model that   *)
(* the user left in an earlier run or never chose, though a pick of another   *)
(* provider's model during the wait does not keep it from that.               *)
BuiltInsSound == CapturesSound /\ Saved!RestoreSound

(* File, flag and picker agree once all commands are through, however they    *)
(* overlapped.                                                                *)
ViewsAgree == Views!ViewsAgree

(* At a restart with nothing underway every provider shows what it showed,    *)
(* but for a key that only the template gives back.                           *)
RestartKeepsViews == Views!RestartKeepsViews

(* Nothing but the user's edit shows again what a probe has hidden; a model   *)
(* found broken and not hidden is probed at the next start; and lists that    *)
(* shrank too much replace neither the cache nor, but for Pi's own refresh,   *)
(* the live list.                                                             *)
ProbesSound == /\ [](part = "probes" => Probes!TypeOK)
               /\ Probes!HidesSurvive /\ Probes!BrokenAgain /\ Probes!KeepsHealthy

(* "pi-free provides automatic and manual probes": the first session start    *)
(* that finds free models which are due for a probe begins one.               *)
AutoProbes == Probes!AutoProbes

Symmetry == Permutations(Task) \cup Permutations(Command) \cup Permutations(Job)
============================================================================
