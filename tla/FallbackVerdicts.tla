-------------------------- MODULE FallbackVerdicts --------------------------
(* What auto-fallback makes of a settled run, and what it tells the user:     *)
(* classifier.ts, settled-decision.ts, config.ts and notify.ts of             *)
(* lib/auto-fallback, with lib/fallback-state.ts, for one model.  The         *)
(* controller that acts on the verdict is AutoFallback.                       *)
EXTENDS Naturals, FiniteSets, Functions

CONSTANTS WINDOW, MaxRuns, MaxTime

VARIABLES
  env, file,       \* AUTO_FALLBACK* and the config, as far as they matter here
  load,            \* of pi-ai's classifier: "new", "loading", "ready", "failed"
  lastStatus,      \* 0 for none
  now, runs,
  notifier,        \* the level it was created with, or "none"
  buffer,          \* switches of the window
  windowStart, activeSince,
  bar,             \* the status indicator is shown
  \* read by properties only
  era,             \* recoveries so far
  toasts,          \* what was shown: when, and the switches it covers
  kept             \* switches since the last recovery
settings == <<env, file>>
notices == <<notifier, buffer, windowStart, activeSince, bar, era, toasts, kept>>
vars == <<settings, load, lastStatus, now, runs, notices>>

Level == {"silent", "toast", "status_bar", "both"}
Given == [on : {"unset", "true", "false", "other"}, level : {"unset", "other"} \cup Level]

----------------------------------------------------------------------------
(* getAutoFallbackConfig: env before file before the default *)

EnvBool(e, f, default) ==
  IF e \in {"true", "false"} THEN e = "true"
  ELSE IF f # "unset" THEN f = "true" ELSE default

(* numbers: what is unset or no number is 0 here *)
EnvNumber(e, f, default) == IF e > 0 THEN e ELSE IF f > 0 THEN f ELSE default

(* An unset list is {"unset"}.  An empty one of the environment is a list, an *)
(* empty one of the file is not.                                              *)
EnvStringList(e, f) ==
  IF e # {"unset"} THEN e ELSE IF f \in {{}, {"unset"}} THEN {} ELSE f
ParseLevel(raw) == IF raw \in Level THEN raw ELSE "toast"
EnvString(e, f) == IF e # "unset" THEN e ELSE f

Config == [enabled |-> EnvBool(env.on, file.on, FALSE),
           level |-> ParseLevel(EnvString(env.level, file.level))]

Init ==
  /\ env \in Given /\ file \in Given /\ "unset" \in {env.level, file.level}
  /\ load = "new" /\ lastStatus = 0 /\ now = 0 /\ runs = 0
  /\ notifier = "none" /\ buffer = 0 /\ windowStart = 0 /\ activeSince = 0 /\ bar = FALSE
  /\ era = 0 /\ toasts = {} /\ kept = 0

----------------------------------------------------------------------------
(* the classifier *)

(* an error message, by the patterns it matches; the empty one matches none *)
Message == [fatal : BOOLEAN, limit : BOOLEAN, transient : BOOLEAN, retryable : BOOLEAN]
NoMessage == [fatal |-> FALSE, limit |-> FALSE, transient |-> FALSE, retryable |-> FALSE]

(* bug: pi-ai is asked first *)
ClassifyErrorMessageLate(m, ready) ==
  IF ready /\ m.retryable THEN "recoverable"
  ELSE IF m.fatal THEN "unrecoverable"
  ELSE IF m.limit \/ (~ready /\ m.transient) THEN "recoverable" ELSE "none"
ClassifyErrorMessage(m, ready) ==
  CASE m.fatal -> "unrecoverable"
    [] ~m.fatal /\ (m.limit \/ (IF ready THEN m.retryable ELSE m.transient)) -> "recoverable"
    [] OTHER -> "none"

(* a message, unless it is empty, that is classified before the load begins it *)
LoadAfter(m) ==
  IF load # "new" \/ m.fatal THEN {load}
  ELSE IF m = NoMessage THEN {load, "loading"} ELSE {"loading"}

Loaded == load = "loading" /\ load' \in {"ready", "failed"}
          /\ UNCHANGED <<settings, lastStatus, now, runs, notices>>

ClassifyAbort(status) ==
  CASE status \in 500..599 -> "recoverable" [] status \in 400..499 -> "unrecoverable"
    [] OTHER -> "none"

(* classifyAssistantFailure *)
AssistantFailure(stop, m, ready) ==
  LET kind == ClassifyErrorMessage(m, ready)
  IN IF kind = "none" /\ stop = "error" THEN "unknown" ELSE kind

(* bug: an abort is a failure like others *)
ActsOnAborts(stop, m, status, ready) == AssistantFailure(stop, m, ready) \in {"recoverable", "unknown"}
(* classifySettledFailure: whether the run asks for a switch *)
Acts(stop, m, status, ready) ==
  /\ AssistantFailure(stop, m, ready) \in {"recoverable", "unknown"}
  /\ stop = "aborted" => ClassifyAbort(status) = "recoverable"

(* after_provider_response *)
Response ==
  /\ lastStatus' \in {200, 429, 503} \ {lastStatus}
  /\ UNCHANGED <<settings, load, now, runs, notices>>

----------------------------------------------------------------------------
(* the notifier *)

Toasts(level) == level \in {"toast", "both"}
Toast(kind, n) ==
  IF Toasts(notifier') THEN {[kind |-> kind, at |-> now, era |-> era, from |-> kept + 1, n |-> n]}
  ELSE {}

Rotates == now - windowStart >= WINDOW

(* bug: the window that a notifier was created with is never renewed *)
WindowAfterNever == windowStart
WindowAfter == IF Rotates \/ notifier = "none" THEN now ELSE windowStart

(* recordSwitch; the notifier is created at the first *)
RecordSwitch ==
  /\ notifier' = IF notifier = "none" THEN Config.level ELSE notifier
  /\ windowStart' = WindowAfter
  /\ buffer' = IF Rotates THEN 1 ELSE buffer + 1
  /\ activeSince' = IF activeSince = 0 THEN runs' ELSE activeSince
  /\ bar' = (bar \/ notifier' \in {"status_bar", "both"})
  /\ toasts' = toasts \cup (IF Rotates /\ buffer > 0 THEN Toast("summary", buffer) ELSE {})
                      \cup (IF buffer' = 1 THEN Toast("switch", 1) ELSE {})
  /\ kept' = kept + 1 /\ UNCHANGED era

(* clearStatus, after a run that recovered *)
ClearStatus ==
  /\ notifier' = IF notifier = "none" THEN Config.level ELSE notifier
  /\ activeSince' = 0 /\ buffer' = 0 /\ windowStart' = now /\ kept' = 0
  /\ bar' = (bar /\ notifier' = "silent")
  /\ era' = era + 1 /\ UNCHANGED toasts

Settled ==
  /\ Config.enabled /\ runs < MaxRuns /\ runs' = runs + 1
  /\ \/ activeSince # 0 /\ ClearStatus /\ UNCHANGED load
     \/ \E stop \in {"error", "aborted"}, m \in Message :
          /\ load' \in LoadAfter(m)
          /\ IF Acts(stop, m, lastStatus, load = "ready") THEN RecordSwitch ELSE UNCHANGED notices
  /\ UNCHANGED <<settings, lastStatus, now>>

Tick ==
  /\ now < MaxTime /\ now' = now + 1
  /\ UNCHANGED <<settings, load, lastStatus, runs, notices>>

Next == Loaded \/ Response \/ Settled \/ Tick
Spec == Init /\ [][Next]_vars

----------------------------------------------------------------------------
(* What the import of pi-ai's classifier can change: of a run that failed     *)
(* nothing, since an unknown error asks for a switch like a known one, so     *)
(* that only a fatal message forbids it; of a run that was aborted the case   *)
(* of a server error (503) whose message only one of the two classifiers      *)
(* calls transient.  Other aborts, those of the user, never ask for a switch. *)
VerdictsStable ==
  \A m \in Message, status \in {0, 200, 429, 503} :
    LET before(stop) == Acts(stop, m, status, FALSE)
        after(stop) == Acts(stop, m, status, TRUE)
    IN /\ before("error") = ~m.fatal /\ after("error") = ~m.fatal
       /\ before("aborted") # after("aborted") =>
            status = 503 /\ ~m.fatal /\ ~m.limit /\ m.transient # m.retryable
       /\ before("aborted") \/ after("aborted") => status = 503 /\ m # NoMessage /\ ~m.fatal

(* "user sees ONE summary toast": between two recoveries a window has one     *)
(* toast for its first switch (windows do not begin with it, so that two may  *)
(* be close, but no third), and every switch is in the summary that the first *)
(* switch after its window shows.                                             *)
NoFlood ==
  LET first == {t \in toasts : t.kind = "switch" /\ t.era = era}
      told == {t \in toasts : t.kind = "summary" /\ t.era = era}
  IN notifier \in {"toast", "both"} =>
       /\ \A s, t \in first : Cardinality({u \in first : u.at \in s.at..t.at}) > 2
                               => t.at - s.at >= WINDOW
       /\ kept = buffer + SumFunction([t \in told |-> t.n])

(* The indicator is shown from the first switch to the recovery.              *)
BarWhileActive == notifier \in {"status_bar", "both"} => (bar <=> activeSince # 0)

(* "opt-in, not silently forced on": nothing is switched unless the user      *)
(* asked for it, and no setting turns the guards of the controller off.       *)
SettingsSafe ==
  /\ notifier # "none" => "true" \in {env.on, file.on}
  /\ \A e, f \in 0..2, default \in 1..2 : EnvNumber(e, f, default) > 0
  /\ \A e, f \in (SUBSET {"p", "q"}) \cup {{"unset"}} : "unset" \notin EnvStringList(e, f)

VerdictsSound == VerdictsStable /\ NoFlood /\ BarWhileActive /\ SettingsSafe
============================================================================
