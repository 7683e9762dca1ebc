--------------------------- MODULE BuiltInCapture ---------------------------
(* lib/built-in-toggle.ts for one provider: Pi's built-in catalog is captured *)
(* at session start, registered anew with the view the user has chosen, and   *)
(* refreshed from the live endpoint.  A capture awaits the provider's API key *)
(* and, when registered, the restore of the session's saved model, which only *)
(* takes time here; session starts, reloads, commands and refreshes come in   *)
(* between.  Updates of the config file are atomic (ConfigStore).             *)
(*                                                                            *)
(* Pi is external.  Assumed of it: a session lists the built-in catalog until *)
(* something is registered with its registry; session_start may come again in *)
(* one runner, with the same registry or a new one; the ctx of a replaced     *)
(* runner throws when it is read.                                             *)
EXTENDS Naturals, Sequences, FiniteSets

CONSTANTS Task,         \* captures, each with the state it may make
          Command,      \* invocations of /toggle-<id> and /toggle-free
          None,
          MaxStarts, MaxReloads     \* bounds on the environment

ASSUME BuiltInCaptureAssumption ==
  /\ None \notin Task \cup Command \cup {"free", "all"}
  /\ MaxStarts \in Nat /\ MaxReloads \in Nat

VARIABLES
  \* the config and the flag, which give the effective view
  choice,       \* the explicit view in the file
  flag,         \* globalFreeOnly, as a view
  lost,         \* an update of the file was lost
  \* Pi
  runner,       \* the runner that is alive
  session,      \* the registry of the live session
  listing,      \* what that registry lists, and by whose registration
  started,      \* session_start has come in this runner
  starts,       \* session_starts so far
  \* the module's state
  current,      \* providerStates
  state,        \* task -> what its state holds
  pending,      \* pendingCaptures
  refreshing,   \* pendingEndpointRefreshes, by the state refreshed
  task,         \* the captures
  cmd,          \* the commands
  resumed,      \* commands whose update is done, in order
  clobbered     \* a capture has removed another's entry; read by properties only
config == <<choice, flag, lost>>
host == <<runner, session, started, starts>>
vars == <<config, host, listing, current, state, pending, refreshing, task, cmd, resumed,
          clobbered>>

View == {"free", "all"}
(* bug: the flipped view is the legacy "paid" *)
FlipPaid(v) == IF v = "free" THEN "paid" ELSE "free"
Flip(v) == IF v = "free" THEN "all" ELSE "free"
(* resolveModelView *)
EffectiveView == IF choice = None THEN flag ELSE choice

NoState == [mode |-> "free", catalog |-> "none", registry |-> 0]
State == [mode : View, catalog : {"captured", "fresh"}, registry : Nat]
NoTask == [kind |-> "none", stage |-> "unused", runner |-> 0, snapshot |-> 0]
Capture == [kind : {"session", "command", "cache"}, runner : Nat, snapshot : Nat,
            stage : {"key", "restoring", "done", "failed"}]
Idle == [stage |-> "idle", runner |-> 0, on |-> None, next |-> "free"]
Invocation == [stage : {"idle", "waiting", "capturing", "flip", "clear", "apply", "filter", "done"},
               runner : Nat, on : Task \cup {None}, next : View]
BuiltIn == [by |-> None, mode |-> "all", catalog |-> "captured"]

Unused == {t \in Task : task[t] = NoTask}

(* reRegister of state s, when `st' are the states and `n' is the live session *)
Listed(st, s, n, listed) ==
  IF st[s].registry = n THEN [by |-> s, mode |-> st[s].mode, catalog |-> st[s].catalog]
                        ELSE listed

Init ==
  /\ choice \in View \cup {None} /\ flag \in View /\ lost = FALSE
  /\ runner = 1 /\ session = 1 /\ listing = BuiltIn /\ started = FALSE /\ starts = 0
  /\ current = None /\ state = [t \in Task |-> NoState]
  /\ pending = None /\ refreshing = None
  /\ task = [t \in Task |-> NoTask]
  /\ cmd = [x \in Command |-> Idle] /\ resumed = <<>> /\ clobbered = FALSE

----------------------------------------------------------------------------
(* setup: module load and reload *)

(* trySyncCacheRegistration: the catalog of an earlier process, registered at *)
(* once; nothing while there is a state, or without a cache                   *)
SyncCache(n) ==
  \/ UNCHANGED <<current, state, task>> /\ listing' = BuiltIn
  \/ /\ current = None
     /\ \E t \in Unused :
          /\ task' = [task EXCEPT ![t] = [kind |-> "cache", stage |-> "done",
                                          runner |-> runner, snapshot |-> n]]
          /\ state' = [state EXCEPT ![t] = [mode |-> EffectiveView, catalog |-> "captured",
                                            registry |-> n]]
          /\ listing' = Listed(state', t, n, BuiltIn)
          /\ current' = t

Load ==
  /\ starts = 0 /\ runner = 1 /\ ~started /\ current = None
  /\ SyncCache(session)
  /\ UNCHANGED <<config, host, pending, refreshing, cmd, resumed, clobbered>>

(* a new runner with its session; pending captures are forgotten, not ended *)
Reload ==
  /\ runner <= MaxReloads
  /\ runner' = runner + 1 /\ session' = session + 1 /\ started' = FALSE
  /\ pending' = None
  /\ SyncCache(session + 1)
  /\ UNCHANGED <<config, starts, refreshing, cmd, resumed, clobbered>>

----------------------------------------------------------------------------
(* session_start *)

(* scheduleEndpointRefresh: one underway is enough *)
Schedule(s) == refreshing' = IF refreshing = None THEN s ELSE refreshing

(* a state: move it to the session's registry and apply the current view *)
Reapply(n, bare) ==
  /\ current # None
  /\ state' = [state EXCEPT ![current].registry = n]
  /\ listing' = Listed(state', current, n, bare)
  /\ Schedule(current)
  /\ UNCHANGED <<pending, task>>

(* bug: a duplicate event leaves the pending capture as it is *)
HandOverNothing(n) == pending # None /\ UNCHANGED task
(* a pending capture: hand it the latest session *)
HandOver(n) == pending # None /\ task' = [task EXCEPT ![pending].snapshot = n]

(* bug: a duplicate event captures again *)
NoneCaptured == current = None
NoneUnderway == current = None /\ pending = None

(* neither: start a capture, if Pi has models of the provider *)
StartCapture(n) ==
  /\ NoneUnderway
  /\ \/ UNCHANGED <<pending, task>>
     \/ \E t \in Unused :
          /\ task' = [task EXCEPT ![t] = [kind |-> "session", stage |-> "key",
                                          runner |-> runner, snapshot |-> n]]
          /\ pending' = t

SessionStart ==
  /\ starts < MaxStarts
  /\ starts' = starts + 1 /\ started' = TRUE
  /\ session' \in {session, session + 1}
  /\ LET bare == IF session' = session THEN listing ELSE BuiltIn
     IN \/ Reapply(session', bare)
        \/ /\ current = None /\ HandOver(session') /\ listing' = bare
           /\ UNCHANGED <<state, pending, refreshing>>
        \/ /\ StartCapture(session') /\ listing' = bare
           /\ UNCHANGED <<state, refreshing>>
  /\ UNCHANGED <<config, runner, current, cmd, resumed, clobbered>>

----------------------------------------------------------------------------
(* a capture of session_start *)

Stale(r) == r # runner
Stage(t, s) == task' = [task EXCEPT ![t].stage = s]
KeyDue(t, kind) == task[t].kind = kind /\ task[t].stage = "key"

(* createProviderState, registered with the latest session that was seen *)
Captured(t) ==
  /\ KeyDue(t, "session") /\ ~Stale(task[t].runner)
  /\ state' = [state EXCEPT ![t] = [mode |-> EffectiveView, catalog |-> "captured",
                                    registry |-> task[t].snapshot]]
  /\ current' = t
  /\ listing' = Listed(state', t, session, listing)
  /\ Schedule(t)
  /\ Stage(t, "restoring")
  /\ UNCHANGED <<config, host, pending, cmd, resumed, clobbered>>

(* the ctx is stale: dropped; the key cannot be had: rejected.  Then, as after *)
(* the restore, `finally' deletes whatever capture is pending                 *)
CaptureEnds(t) ==
  /\ \/ KeyDue(t, "session") /\ Stale(task[t].runner) /\ Stage(t, "done")
     \/ KeyDue(t, "session") /\ Stage(t, "failed")
     \/ task[t].stage = "restoring" /\ Stage(t, "done")
  /\ pending' = None
  /\ clobbered' = (clobbered \/ pending \notin {t, None})
  /\ UNCHANGED <<config, host, listing, current, state, refreshing, cmd, resumed>>

----------------------------------------------------------------------------
(* the endpoint refresh, and Pi's own refresh of what is listed *)

(* bug: the refreshed models are registered but not stored *)
FreshListedOnly(s) == state
Fresh(s) == [state EXCEPT ![s].catalog = "fresh"]

RefreshLands ==
  /\ refreshing # None /\ refreshing' = None
  /\ \/ UNCHANGED <<state, listing>>        \* failed, or no models
     \/ /\ state' = Fresh(refreshing)
        /\ listing' = Listed([state' EXCEPT ![refreshing].catalog = "fresh"],
                             refreshing, session, listing)
  /\ UNCHANGED <<config, host, current, pending, task, cmd, resumed, clobbered>>

(* refreshModels of the registration in effect; Pi lists what it returns *)
PiRefresh ==
  /\ listing.by # None
  /\ state' = Fresh(listing.by)
  /\ listing' = [by |-> listing.by, mode |-> state'[listing.by].mode, catalog |-> "fresh"]
  /\ UNCHANGED <<config, host, current, pending, refreshing, task, cmd, resumed, clobbered>>

----------------------------------------------------------------------------
(* /toggle-<id> and /toggle-free *)

Then(x, s) == cmd' = [cmd EXCEPT ![x].stage = s]
Ended(x) == cmd' = [cmd EXCEPT ![x] = [Idle EXCEPT !.stage = "done"]]

Invoke(x) ==
  /\ started /\ cmd[x] = Idle
  /\ \/ cmd' = [cmd EXCEPT ![x] = [stage |-> "waiting", runner |-> runner, on |-> pending,
                                   next |-> "free"]]
     \/ cmd' = [cmd EXCEPT ![x] = [stage |-> "clear", runner |-> runner, on |-> None,
                                   next |-> Flip(flag)]]
  /\ UNCHANGED <<config, host, listing, current, state, pending, refreshing, task, resumed, clobbered>>

(* the awaited capture has ended; without a state try one of our own *)
Proceed(x) ==
  /\ cmd[x].stage = "waiting"
  /\ cmd[x].on # None => task[cmd[x].on].stage \in {"done", "failed"}
  /\ LET rejected == cmd[x].on # None /\ task[cmd[x].on].stage = "failed"
     IN \/ /\ rejected \/ Stale(cmd[x].runner) \/ current = None
           /\ Ended(x)
           /\ UNCHANGED <<state, task>>
        \/ /\ ~rejected /\ ~Stale(cmd[x].runner) /\ current # None
           /\ state' = [state EXCEPT ![current].registry = session]
           /\ cmd' = [cmd EXCEPT ![x].stage = "flip", ![x].on = current]
           /\ UNCHANGED task
        \/ /\ ~rejected /\ ~Stale(cmd[x].runner) /\ current = None
           /\ \E t \in Unused :
                /\ task' = [task EXCEPT ![t] = [kind |-> "command", stage |-> "key",
                                                runner |-> runner, snapshot |-> session]]
                /\ cmd' = [cmd EXCEPT ![x].stage = "capturing", ![x].on = t]
           /\ UNCHANGED state
  /\ UNCHANGED <<config, host, listing, current, pending, refreshing, resumed, clobbered>>

(* the command's own capture, which registers nothing yet *)
CommandCaptured(x) ==
  /\ cmd[x].stage = "capturing"
  /\ LET t == cmd[x].on
     IN \/ /\ ~Stale(cmd[x].runner)
           /\ state' = [state EXCEPT ![t] = [mode |-> EffectiveView, catalog |-> "captured",
                                             registry |-> session]]
           /\ current' = t
           /\ Stage(t, "done") /\ Then(x, "flip")
        \/ /\ Stage(t, "failed") /\ Ended(x)
           /\ UNCHANGED <<state, current>>
  /\ UNCHANGED <<config, host, listing, pending, refreshing, resumed, clobbered>>

(* the update of the file.  It flips what file and environment give, whose    *)
(* free_only need not be the flag.  One that cannot write is logged, and one  *)
(* that does not get the lock also leaves `free' for the answer               *)
Update(x) ==
  /\ \/ /\ cmd[x].stage = "flip"
        /\ \E freeOnly \in View :
             LET flipped == Flip(IF choice = None THEN freeOnly ELSE choice)
             IN \/ /\ choice' = flipped /\ UNCHANGED lost
                   /\ cmd' = [cmd EXCEPT ![x].stage = "apply", ![x].next = flipped]
                \/ /\ lost' = TRUE /\ UNCHANGED choice
                   /\ \E v \in {"free", flipped} :
                        cmd' = [cmd EXCEPT ![x].stage = "apply", ![x].next = v]
     \/ /\ cmd[x].stage = "clear"
        /\ \/ choice' = None /\ UNCHANGED lost
           \/ lost' = TRUE /\ UNCHANGED choice
        /\ Then(x, "filter")
  /\ resumed' = Append(resumed, x)
  /\ UNCHANGED <<flag, host, listing, current, state, pending, refreshing, task, clobbered>>

(* applyMode of state s, which registers the view it is given *)
ApplyMode(s, v) ==
  /\ state' = [state EXCEPT ![s].mode = v]
  /\ listing' = Listed(state', s, session, listing)

(* bug: the global filter registers its view without the mode *)
FilterOnly(v) ==
  /\ listing' = IF current = None THEN listing
                ELSE Listed([state EXCEPT ![current].mode = v], current, session, listing)
  /\ UNCHANGED state

(* the wrapper given to registerWithGlobalToggle keeps the mode in step *)
Filter(v) == IF current = None THEN UNCHANGED <<state, listing>> ELSE ApplyMode(current, v)

Resume(x) ==
  /\ resumed # <<>> /\ x = Head(resumed) /\ resumed' = Tail(resumed)
  /\ \/ cmd[x].stage = "apply" /\ ApplyMode(cmd[x].on, cmd[x].next) /\ UNCHANGED flag
     \/ /\ cmd[x].stage = "filter" /\ flag' = cmd[x].next
        /\ Filter(IF choice = None THEN cmd[x].next ELSE choice)
  /\ Ended(x)
  /\ UNCHANGED <<choice, lost, host, current, pending, refreshing, task, clobbered>>

Next ==
  \/ Load \/ Reload \/ SessionStart \/ RefreshLands \/ PiRefresh
  \/ \E t \in Task : Captured(t) \/ CaptureEnds(t)
  \/ \E x \in Command : Invoke(x) \/ Proceed(x) \/ CommandCaptured(x) \/ Update(x) \/ Resume(x)

Spec == Init /\ [][Next]_vars

----------------------------------------------------------------------------
(* Types of the config, of Pi and of the module's state. *)
TypeOK ==
  /\ choice \in View \cup {None} /\ flag \in View /\ lost \in BOOLEAN
  /\ runner \in Nat /\ session \in Nat /\ starts \in Nat /\ started \in BOOLEAN
  /\ listing \in [by : Task \cup {None}, mode : View, catalog : {"captured", "fresh"}]
  /\ {current, pending, refreshing} \subseteq Task \cup {None}
  /\ state \in [Task -> State \cup {NoState}]
  /\ task \in [Task -> Capture \cup {NoTask}]
  /\ cmd \in [Command -> Invocation]
  /\ resumed \in Seq(Command) /\ clobbered \in BOOLEAN

AtRest ==
  /\ started /\ refreshing = None
  /\ \A t \in Task : task[t].stage \notin {"key", "restoring"}
  /\ \A x \in Command : cmd[x].stage \in {"idle", "done"}

Overwritten == \E s, t \in Task : s # t /\ state[s] # NoState /\ state[t] # NoState

(* Once everything has landed, a captured provider is listed in the live      *)
(* session with the user's effective view, whichever session starts, reloads, *)
(* commands and refreshes overlapped: as long as the state was made once, no  *)
(* capture took another's entry away, and no update of the file was lost.     *)
ListedAtRest ==
  AtRest /\ current # None /\ ~Overwritten /\ ~clobbered /\ ~lost =>
    listing = [by |-> current, mode |-> EffectiveView, catalog |-> state[current].catalog]

(* Within a session the live catalog never falls back to the captured one.    *)
FreshStays ==
  [][listing.catalog = "fresh" /\ session' = session /\ ~Overwritten'
       => listing'.catalog = "fresh"]_vars

(* The state is made once, however often sessions start and the extension is  *)
(* reloaded: a second one needs a capture that took another's entry away, or  *)
(* a command that found no capture underway and started its own.              *)
CapturedOnce ==
  ~clobbered /\ (\A t \in Task : task[t].kind # "command") => ~Overwritten

(* A built-in provider is captured once and listed at rest as the user views  *)
(* it, whichever sessions, reloads, commands and refreshes overlapped.        *)
CapturesSound == TypeOK /\ ListedAtRest /\ CapturedOnce
============================================================================
