--------------------------- MODULE NativeRefresh ---------------------------
(* The catalogs of the native providers (lib/native-provider.ts).  A session  *)
(* start nudges Pi to refresh them over the network and retries while some    *)
(* provider shows no completed refresh in the ledger of startup-timing.ts.    *)
(* Pi is external: a newer refresh of a provider supersedes the one underway, *)
(* a superseded one publishes nothing, and every registration of any provider *)
(* starts an offline refresh of all of them, which restores the stored        *)
(* catalogs.  /toggle-<id> registers anew some time after it flipped the view *)
(* in the config; an extension reload registers everything.                   *)
EXTENDS Naturals

CONSTANTS
  Provider,     \* providers opted in to the nudge
  NoToken,      \* those without a credential, whose fetch never returns models
  MaxRetries,   \* length of NUDGE_RETRY_DELAYS_MS
  MaxFaults, MaxSessions, MaxReloads, MaxStorms   \* bounds on the environment

ASSUME NativeRefreshAssumption ==
  /\ NoToken \subseteq Provider
  /\ {MaxRetries, MaxFaults, MaxSessions, MaxReloads, MaxStorms} \subseteq Nat

VARIABLES
  view,         \* resolveModelView, by provider
  stored,       \* the catalog in memory, and its completeness flag
  store,        \* the catalog in Pi's models store
  fetching,     \* provider -> the nudge whose refresh is underway, or 0
  due,          \* toggled providers not yet registered anew
  stamp,        \* the ledger: refreshOks and emptyRetains of each provider
  nudgeEpoch,
  nudge,        \* the nudge of each session
  faults, reloads, storms   \* what the environment has done so far
env == <<faults, reloads, storms>>
vars == <<view, stored, store, fetching, due, stamp, nudgeEpoch, nudge, env>>

Catalog == {"none", "subset", "full"}
Session == 1 .. MaxSessions
Fresh == [i \in Provider |-> [oks |-> 0, empties |-> 0]]
NoNudge == [phase |-> "none", attempt |-> 0, pending |-> {}, before |-> Fresh]
Ended == {"clean", "gaveUp", "dropped", "failed"}
Phase == {"none", "refreshing", "waiting"} \cup Ended

Init ==
  /\ view \in [Provider -> {"free", "all"}]
  /\ store \in [Provider -> {"none", "subset"}]
  /\ stored = [i \in Provider |-> [all |-> store[i], complete |-> FALSE]]
  /\ fetching = [i \in Provider |-> 0] /\ due = {}
  /\ stamp = Fresh
  /\ nudgeEpoch = 0 /\ nudge = [n \in Session |-> NoNudge]
  /\ faults = 0 /\ reloads = 0 /\ storms = 0

----------------------------------------------------------------------------
(* restoring and refreshing *)

(* bug: a restore replaces whatever catalog there is *)
RestoredAlways(s, st) ==
  [i \in Provider |-> IF st[i] = "none" THEN s[i] ELSE [all |-> st[i], complete |-> FALSE]]

(* a restore never replaces a catalog that the network has published; that is *)
(* what a refresh does first, online or not                                   *)
Restored(s, st) ==
  [i \in Provider |-> IF s[i].complete \/ st[i] = "none" THEN s[i]
                      ELSE [all |-> st[i], complete |-> FALSE]]

Resolved(nd, I) == [n \in Session |-> [nd[n] EXCEPT !.pending = @ \ I]]

(* an offline refresh of all providers aborts the refreshes underway *)
Offline(s) ==
  /\ stored' = Restored(s, store)
  /\ fetching' = [i \in Provider |-> 0]
  /\ nudge' = Resolved(nudge, Provider)

(* runRefreshNudge, up to the refresh call *)
Attempt(n, a) ==
  /\ nudge' = [Resolved(nudge, Provider) EXCEPT
                 ![n] = [phase |-> "refreshing", attempt |-> a,
                         pending |-> Provider, before |-> stamp]]
  /\ fetching' = [i \in Provider |-> n]
  /\ stored' = Restored(stored, store)

SessionStart ==
  /\ nudgeEpoch < MaxSessions
  /\ nudgeEpoch' = nudgeEpoch + 1
  /\ Attempt(nudgeEpoch + 1, 0)
  /\ UNCHANGED <<view, store, due, stamp, env>>

(* piFreeEntry in a new runner: a fresh ledger, new provider objects *)
Reload ==
  /\ reloads < MaxReloads
  /\ reloads' = reloads + 1
  /\ stamp' = Fresh /\ due' = {}
  /\ Offline([i \in Provider |-> [all |-> "none", complete |-> FALSE]])
  /\ UNCHANGED <<view, store, nudgeEpoch, faults, storms>>

----------------------------------------------------------------------------
(* refreshNativeProviderModels, after its fetch; each answers the nudge *)

Answered(i) ==
  /\ fetching[i] # 0
  /\ fetching' = [fetching EXCEPT ![i] = 0]
  /\ nudge' = Resolved(nudge, {i})
  /\ UNCHANGED <<view, due, nudgeEpoch, reloads, storms>>

(* bug: what was persisted is what is shown *)
PublishedView(i) ==
  stored' = [stored EXCEPT ![i] = [all |-> IF view[i] = "free" THEN "subset" ELSE "full",
                                   complete |-> TRUE]]
Published(i) == stored' = [stored EXCEPT ![i] = [all |-> "full", complete |-> TRUE]]

(* the whole catalog in memory, the part in view in the store *)
Publish(i) ==
  /\ Answered(i)
  /\ i \notin NoToken
  /\ Published(i)
  /\ store' = [store EXCEPT ![i] = IF view[i] = "free" THEN "subset" ELSE "full"]
  /\ stamp' = [stamp EXCEPT ![i].oks = @ + 1]
  /\ UNCHANGED faults

(* an empty result keeps what there is, and counts as completed: the answer of *)
(* a fetcher without a credential, and of one that keeps an error to itself,   *)
(* as those of the gateways do                                                *)
EmptyRetain(i) ==
  /\ Answered(i)
  /\ stamp' = [stamp EXCEPT ![i].empties = @ + 1]
  /\ UNCHANGED <<stored, store, faults>>

(* a failed fetch is logged; a failed publication may come after the update *)
Fail(i) ==
  /\ Answered(i)
  /\ i \notin NoToken
  /\ faults < MaxFaults /\ faults' = faults + 1
  /\ Published(i) \/ UNCHANGED stored
  /\ UNCHANGED <<store, stamp>>

----------------------------------------------------------------------------
(* runRefreshNudge, after the refresh call *)

(* no completed refresh of them in the ledger since the attempt began *)
Incomplete(n) == {i \in Provider : stamp[i] = nudge[n].before[i]}

(* bug: a refresh that Pi reports clean has published everything *)
VerdictTrusting(n) == "clean"
(* bug: one retry more than there are delays *)
VerdictLate(n) == IF Incomplete(n) = {} THEN "clean"
                  ELSE IF nudge[n].attempt > MaxRetries THEN "gaveUp" ELSE "waiting"
(* bug: the last delay is never used *)
VerdictEarly(n) == IF Incomplete(n) = {} THEN "clean"
                   ELSE IF nudge[n].attempt + 1 >= MaxRetries THEN "gaveUp" ELSE "waiting"
Verdict(n) == IF Incomplete(n) = {} THEN "clean"
              ELSE IF nudge[n].attempt >= MaxRetries THEN "gaveUp" ELSE "waiting"

(* a nudge of an earlier session stands down; an error that Pi reports for    *)
(* one of the providers ends it                                               *)
Refreshed(n) ==
  /\ nudge[n].phase = "refreshing" /\ nudge[n].pending = {}
  /\ \E p \in Phase :
       /\ \/ n # nudgeEpoch /\ p = "dropped" /\ UNCHANGED faults
          \/ n = nudgeEpoch /\ p = Verdict(n) /\ UNCHANGED faults
          \/ /\ n = nudgeEpoch /\ p = "failed"
             /\ faults < MaxFaults /\ faults' = faults + 1
       /\ nudge' = [nudge EXCEPT ![n].phase = p]
  /\ UNCHANGED <<view, stored, store, fetching, due, stamp, nudgeEpoch, reloads, storms>>

(* bug: a retry counts as a first attempt *)
TimerAnew(n) ==
  /\ nudge[n].phase = "waiting" /\ n = nudgeEpoch
  /\ Attempt(n, 0)
  /\ UNCHANGED <<view, store, due, stamp, nudgeEpoch, env>>
Timer(n) ==
  /\ nudge[n].phase = "waiting"
  /\ \/ /\ n # nudgeEpoch
        /\ nudge' = [nudge EXCEPT ![n].phase = "dropped"]
        /\ UNCHANGED <<stored, fetching>>
     \/ n = nudgeEpoch /\ Attempt(n, nudge[n].attempt + 1)
  /\ UNCHANGED <<view, store, due, stamp, nudgeEpoch, env>>

----------------------------------------------------------------------------
(* registrations *)

(* /toggle-<id>: the view flips in the config, the registration follows *)
Toggle(i) ==
  /\ i \notin due /\ storms < MaxStorms
  /\ storms' = storms + 1
  /\ view' = [view EXCEPT ![i] = IF @ = "free" THEN "all" ELSE "free"]
  /\ due' = due \cup {i}
  /\ UNCHANGED <<stored, store, fetching, stamp, nudgeEpoch, nudge, faults, reloads>>

ReRegister(i) ==
  /\ i \in due
  /\ due' = due \ {i}
  /\ Offline(stored)
  /\ UNCHANGED <<view, store, stamp, nudgeEpoch, env>>

(* any other provider registers, e.g. a built-in one after its capture *)
Storm ==
  /\ storms < MaxStorms
  /\ storms' = storms + 1
  /\ Offline(stored)
  /\ UNCHANGED <<view, store, due, stamp, nudgeEpoch, faults, reloads>>

Next ==
  \/ SessionStart \/ Reload \/ Storm
  \/ \E i \in Provider : Publish(i) \/ EmptyRetain(i) \/ Fail(i) \/ Toggle(i) \/ ReRegister(i)
  \/ \E n \in Session : Refreshed(n) \/ Timer(n)

Spec == Init /\ [][Next]_vars

(* fetches are answered, Pi's refresh returns, timers fire, commands go on *)
Fairness ==
  /\ \A i \in Provider : /\ WF_vars(Publish(i) \/ EmptyRetain(i) \/ Fail(i))
                         /\ WF_vars(ReRegister(i))
  /\ \A n \in Session : WF_vars(Refreshed(n)) /\ WF_vars(Timer(n))
  /\ WF_vars(SessionStart)

FairSpec == Spec /\ Fairness

----------------------------------------------------------------------------
Ledger == [Provider -> [oks : Nat, empties : Nat]]

(* Types of the catalogs, the ledger and the nudges. *)
TypeOK ==
  /\ view \in [Provider -> {"free", "all"}]
  /\ stored \in [Provider -> [all : Catalog, complete : BOOLEAN]]
  /\ store \in [Provider -> Catalog]
  /\ fetching \in [Provider -> {0} \cup Session]
  /\ due \in SUBSET Provider
  /\ stamp \in Ledger
  /\ nudgeEpoch \in 0 .. MaxSessions
  /\ nudge \in [Session -> [phase : Phase, attempt : 0 .. MaxRetries,
                            pending : SUBSET Provider, before : Ledger]]
  /\ {faults, reloads, storms} \subseteq Nat

(* What a toggle calls "all models" is the whole catalog, never what was left *)
(* of it in the store under the free view.                                    *)
CompleteIsFull == \A i \in Provider : stored[i].complete => stored[i].all = "full"

(* A catalog the network has published stays, whatever is registered,         *)
(* toggled, restored or refreshed later, until the extension is reloaded.     *)
NoDowngrade ==
  [][\A i \in Provider : stored[i].complete /\ ~stored'[i].complete => Reload]_vars

(* A nudge that ends clean leaves no provider out, whatever was superseded,   *)
(* toggled or failing: each has its whole catalog in memory, of this attempt  *)
(* or an earlier one, or its own fetch was answered during the attempt with   *)
(* nothing.  This needs that the extension was not reloaded, which empties    *)
(* the ledger between the two readings.                                       *)
EndsClean(n) == nudge'[n].phase = "clean" /\ nudge[n].phase # "clean"
CleanWithoutReload ==
  [][\A n \in Session : EndsClean(n) /\ reloads = 0
       => \A i \in Provider : \/ stored'[i].complete
                              \/ stamp[i].empties > nudge[n].before[i].empties]_vars

(* A nudge gives up only when each of its attempts was disturbed: there have  *)
(* been more faults, registrations and reloads than it has retries.           *)
GivesUpLast ==
  [][\A n \in Session : nudge'[n].phase = "gaveUp" /\ nudge[n].phase # "gaveUp"
       => faults + reloads + storms > MaxRetries]_vars

(* Every nudge comes to an end: clean, given up, dropped or failed.           *)
NudgesEnd == \A n \in Session : nudge[n].phase # "none" ~> nudge[n].phase \in Ended

(* The types, and complete catalogs that are whole.                           *)
CatalogsWhole == TypeOK /\ CompleteIsFull
============================================================================
