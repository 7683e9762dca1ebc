----------------------------- MODULE SavedModel -----------------------------
(* The restore of a session's saved model (lib/built-in-toggle.ts), for one   *)
(* provider.  Pi opens a session before the provider's models are registered, *)
(* falls back to another model and records that in the session; once they are *)
(* registered, the restore takes the session back to what the user had chosen *)
(* unless he has left it.  It may wait for the endpoint refresh meanwhile.    *)
(*                                                                            *)
(* Pi is external.  Assumed of it: a session records every change of model, a *)
(* new session has a new runner, setModel of an old runner throws, and a call *)
(* takes effect later or is rejected.                                         *)
EXTENDS Naturals, SequencesExt

CONSTANTS Own,          \* models of the provider
          Upstream,     \* those of them that its endpoint lists
          Other,        \* models of other providers
          None,
          Restore,      \* restores, one for each session_start
          MaxSessions, MaxPicks     \* bounds on the environment

VARIABLES
  session, started,     \* the live session, and that its session_start came
  trail,        \* its model_change entries
  active,       \* Pi's model
  known,        \* the models of providerStates; without a state none
  catalog,      \* those that the session's registry has
  refreshing,   \* pendingEndpointRefreshes
  restore,
  \* read by properties only
  chosen,       \* what an earlier run left the session with, and the user's picks in it
  pick,         \* the last of these picks
  picks, failed     \* how many, and that a refresh failed or setModel was rejected
host == <<session, started>>
history == <<chosen, pick, picks, failed>>
vars == <<host, trail, active, known, catalog, refreshing, restore, history>>

Selectable == Own \cup Other
(* an entry without a date counts as one of an earlier run *)
Change(m, when) == [model |-> m, at |-> when]
Earlier == {<<>>} \cup {<<Change(m, "before")>> : m \in Selectable}
             \cup {<<Change(l, "before"), Change(m, "before")>> : l, m \in Selectable}

Unused == [stage |-> "unused", session |-> 0, captured |-> FALSE, seen |-> None, saved |-> None,
           since |-> 0, against |-> None]

(* Pi opens a session with this trail: it stays with the last model or, when  *)
(* that is not there, falls back and appends what it fell back to             *)
Opened(left, there) ==
  LET last == IF left = <<>> THEN None ELSE Last(left).model
  IN /\ chosen' = {last} \ {None} /\ pick' = None
     /\ \/ last \in there \cup Other /\ active' = last /\ trail' = left
        \/ /\ last \notin there
           /\ \E m \in Other : active' = m /\ trail' = Append(left, Change(m, "now"))

(* the first session; trySyncCacheRegistration may have registered a list of  *)
(* an earlier run                                                             *)
Init ==
  /\ session = 0 /\ started = FALSE
  /\ known \in SUBSET Own /\ catalog = known /\ refreshing = FALSE
  /\ trail = <<>> /\ active = None /\ chosen = {} /\ pick = None /\ picks = 0 /\ failed = FALSE
  /\ restore = [r \in Restore |-> Unused]

Open ==
  /\ session < MaxSessions /\ session' = session + 1 /\ started' = FALSE
  /\ catalog' = IF session = 0 THEN catalog ELSE {}
  /\ \E left \in Earlier : Opened(left, catalog')
  /\ UNCHANGED <<known, refreshing, restore, picks, failed>>

----------------------------------------------------------------------------
(* resolveSavedModelChoice *)

(* the last choice of an earlier run *)
LastEarlier(entries) ==
  LET earlier == {i \in DOMAIN entries : entries[i].at = "before"}
  IN IF earlier = {} THEN None ELSE entries[Max(earlier)].model
(* the model of the session, if it is ours; else the last choice of an        *)
(* earlier run, if that was ours; entries of this run may be Pi's own         *)
Resolved(entries) ==
  IF entries # <<>> /\ Last(entries).model \in Own THEN Last(entries).model
  ELSE IF LastEarlier(entries) \in Own THEN LastEarlier(entries) ELSE None

Over(r) == [Unused EXCEPT !.stage = "over", !.session = r.session, !.captured = r.captured]

(* restoreSavedModelInner up to its first await, with these models registered *)
Begun(r, there, joins) ==
  LET saved == Resolved(trail)
      goes == saved \notin {None, r.seen} /\ (saved \in there \/ joins)
  IN IF goes THEN [r EXCEPT !.stage = IF saved \in there THEN "setting" ELSE "joining",
                            !.saved = saved, !.since = picks]
     ELSE Over(r)

----------------------------------------------------------------------------
(* session_start *)

Live(r) == restore[r].session = session
Capturing == {r \in Restore : restore[r].stage = "capturing" /\ Live(r)}
Fresh(r) == [Unused EXCEPT !.session = session, !.seen = active]

(* a state: the restore begins, and only then a refresh *)
Reapply ==
  /\ known # {}
  /\ catalog' = known
  /\ \E r \in Restore :
       /\ restore[r] = Unused
       /\ restore' = [restore EXCEPT ![r] = Begun(Fresh(r), known, refreshing)]
  /\ refreshing' = TRUE

(* no state yet: a capture, or the latest snapshot for the one underway *)
Capture ==
  /\ known = {}
  /\ restore' \in IF Capturing # {}
                    THEN {[r \in Restore |-> IF r \in Capturing
                             THEN [restore[r] EXCEPT !.seen = active] ELSE restore[r]]}
                    ELSE {[restore EXCEPT ![r] = [Fresh(r) EXCEPT !.stage = "capturing",
                                                                  !.captured = TRUE]]
                            : r \in {q \in Restore : restore[q] = Unused}}
  /\ UNCHANGED <<catalog, refreshing>>

SessionStart ==
  /\ session > 0 /\ started' = TRUE
  /\ Reapply \/ Capture
  /\ UNCHANGED <<session, trail, active, known, history>>

----------------------------------------------------------------------------
(* the capture, the refresh and the restore *)

(* a stale capture, or one without a key, ends; the list may be partial, and  *)
(* the refresh is scheduled before the restore begins                         *)
Captured(r) ==
  /\ restore[r].stage = "capturing"
  /\ \/ /\ Live(r)
        /\ \E list \in (SUBSET Own) \ {{}} :
             /\ known' = list /\ catalog' = list /\ refreshing' = TRUE
             /\ restore' = [restore EXCEPT ![r] = Begun(@, list, TRUE)]
        /\ UNCHANGED failed
     \/ /\ restore' = [restore EXCEPT ![r] = Over(@)]
        /\ failed' = (failed \/ Live(r))
        /\ UNCHANGED <<known, catalog, refreshing>>
  /\ UNCHANGED <<host, trail, active, chosen, pick, picks>>

(* bug: the choice is not looked at again *)
StandsAlways(r, there) == restore[r].saved \in there
(* the lookup after the refresh; whatever the user has chosen since must win *)
Stands(r, there) == restore[r].saved \in there /\ Resolved(trail) = restore[r].saved

Rejoined(r, there) ==
  IF Live(r) /\ Stands(r, there)
    THEN [restore[r] EXCEPT !.stage = "setting",
                            !.against = IF picks > restore[r].since THEN pick ELSE None]
    ELSE Over(restore[r])

(* whoever waits for the refresh goes on at once, also when it failed         *)
RefreshLands ==
  /\ refreshing /\ refreshing' = FALSE
  /\ \/ /\ Upstream # {} /\ known' = Upstream
        /\ catalog' = IF started THEN Upstream ELSE catalog
        /\ UNCHANGED failed
     \/ failed' = TRUE /\ UNCHANGED <<known, catalog>>
  /\ restore' = [r \in Restore |-> IF restore[r].stage = "joining" THEN Rejoined(r, catalog')
                                   ELSE restore[r]]
  /\ UNCHANGED <<host, trail, active, chosen, pick, picks>>

(* pi.setModel: done, or rejected; it throws when the session was replaced *)
SetModel(r) ==
  /\ restore[r].stage = "setting"
  /\ restore' = [restore EXCEPT ![r] = Over(@)]
  /\ \/ /\ Live(r) /\ active' = restore[r].saved
        /\ trail' = Append(trail, Change(restore[r].saved, "now"))
        /\ UNCHANGED failed
     \/ failed' = (failed \/ Live(r)) /\ UNCHANGED <<active, trail>>
  /\ UNCHANGED <<host, known, catalog, refreshing, chosen, pick, picks>>

(* the user picks a model *)
Pick(m) ==
  /\ started /\ picks < MaxPicks /\ m \in (Other \cup catalog) \ {active}
  /\ picks' = picks + 1 /\ pick' = m /\ chosen' = chosen \cup {m}
  /\ active' = m /\ trail' = Append(trail, Change(m, "now"))
  /\ UNCHANGED <<host, known, catalog, refreshing, restore, failed>>

Next ==
  \/ Open \/ SessionStart \/ RefreshLands
  \/ \E r \in Restore : Captured(r) \/ SetModel(r)
  \/ \E m \in Selectable : Pick(m)

Spec == Init /\ [][Next]_vars

----------------------------------------------------------------------------
(* Types of the session, the registry and the restores. *)
TypeOK ==
  /\ session \in 0 .. MaxSessions /\ {started, refreshing, failed} \subseteq BOOLEAN
  /\ trail \in Seq([model : Selectable, at : {"before", "now"}])
  /\ {active, pick} \subseteq Selectable \cup {None} /\ chosen \subseteq Selectable
  /\ catalog \subseteq Own /\ known \subseteq Own /\ picks \in 0 .. MaxPicks
  /\ restore \in [Restore ->
       [stage : {"unused", "capturing", "joining", "setting", "over"},
        session : 0 .. MaxSessions, captured : BOOLEAN, seen : Selectable \cup {None},
        saved : Own \cup {None}, since : 0 .. MaxPicks, against : Selectable \cup {None}]]

Setting == {r \in Restore : restore[r].stage = "setting" /\ Live(r)}

(* A restore selects only what the user has chosen for this session, in an    *)
(* earlier run or this one: never an older choice that he had left then, nor  *)
(* what Pi fell back to.                                                      *)
ChosenOnly == \A r \in Setting : restore[r].saved \in chosen

(* A model of the provider that the user picks while the restore waits for    *)
(* the refresh is not replaced by the one that was saved.                     *)
OwnPickStands ==
  \A r \in Setting : restore[r].against \in Own => restore[r].against = restore[r].saved

(* A session whose provider was captured in it ends on the model it was saved *)
(* with, if that is listed and the user picks nothing: whether the captured   *)
(* list had it or only the refresh did, and however often session_start came. *)
AtRest == /\ started /\ ~refreshing
          /\ \A r \in Restore : Live(r) => restore[r].stage = "over"
RestoredAtRest ==
  AtRest /\ pick = None /\ ~failed /\ (\E r \in Restore : Live(r) /\ restore[r].captured) =>
    \A m \in chosen \cap catalog : active = m

RestoreSound == TypeOK /\ ChosenOnly /\ OwnPickStands /\ RestoredAtRest

(* "A user switch in that window must win": a restore that waited for the     *)
(* refresh selects nothing that the user has left meanwhile.                  *)
PickStands == \A r \in Setting : restore[r].against \in {None, restore[r].saved}
=============================================================================
