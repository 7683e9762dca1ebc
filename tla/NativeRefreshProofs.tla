------------------------ MODULE NativeRefreshProofs ------------------------
(* Proofs about NativeRefresh, for any providers, sessions and bounds on the  *)
(* environment.                                                               *)
EXTENDS NativeRefresh, FiniteSetTheorems, TLAPS

(* A nudge that waits has a retry left: without it, the next attempt of a     *)
(* timer could have a number beyond the delays (runRefreshNudge).             *)
RetriesLeft ==
  \A n \in Session : nudge[n].phase = "waiting" => nudge[n].attempt < MaxRetries

(* the counts of a provider at two moments *)
Count == [oks : Nat, empties : Nat]
AtMost(b, c) == b.oks <= c.oks /\ b.empties <= c.empties
Grown(b, c) == AtMost(b, c) /\ (b.oks < c.oks \/ b.empties < c.empties)

(* Until a reload, the ledger only grows, and a provider that has completed a *)
(* refresh with models has its whole catalog in memory: the reason why        *)
(* runRefreshNudge may read completeness off the counts.                      *)
LedgerSound ==
  reloads = 0 =>
    \A i \in Provider :
      /\ stamp[i].oks > 0 => stored[i].complete
      /\ \A n \in Session : AtMost(nudge[n].before[i], stamp[i])

NudgeType == [phase : Phase, attempt : 0 .. MaxRetries,
              pending : SUBSET Provider, before : Ledger]
RefreshInv == CatalogsWhole /\ RetriesLeft /\ LedgerSound

----------------------------------------------------------------------------
(* what the shared parts of the actions preserve *)

LEMMA Counting ==
  ASSUME NEW b \in Count, NEW c \in Count, NEW d \in Count
  PROVE  /\ AtMost(b, b)
         /\ AtMost(b, c) /\ AtMost(c, d) => AtMost(b, d)
         /\ AtMost(b, c) /\ Grown(c, d) => Grown(b, d)
         /\ Grown(b, c) /\ AtMost(c, d) => Grown(b, d)
         /\ AtMost(b, c) /\ b # c => Grown(b, c)
<1>1. /\ b.oks \in Nat /\ b.empties \in Nat /\ c.oks \in Nat /\ c.empties \in Nat
      /\ d.oks \in Nat /\ d.empties \in Nat
  BY DEF Count
<1>2. b # c => b.oks # c.oks \/ b.empties # c.empties
  BY DEF Count
<1> QED BY <1>1, <1>2 DEF AtMost, Grown

LEMMA LedgerCounts ==
  ASSUME TypeOK
  PROVE  \A i \in Provider : /\ stamp[i] \in Count
                             /\ \A n \in Session : nudge[n].before[i] \in Count
BY DEF TypeOK, Ledger, Count

LEMMA RestoredKeeps ==
  ASSUME NEW s \in [Provider -> [all : Catalog, complete : BOOLEAN]],
         NEW st \in [Provider -> Catalog]
  PROVE  /\ Restored(s, st) \in [Provider -> [all : Catalog, complete : BOOLEAN]]
         /\ \A i \in Provider : /\ s[i].complete => Restored(s, st)[i] = s[i]
                                /\ Restored(s, st)[i].complete => s[i].complete
<1>1. ASSUME NEW i \in Provider
      PROVE  /\ Restored(s, st)[i] = s[i] \/ Restored(s, st)[i] = [all |-> st[i], complete |-> FALSE]
             /\ s[i].complete => Restored(s, st)[i] = s[i]
  BY DEF Restored
<1>2. ASSUME NEW i \in Provider
      PROVE  /\ Restored(s, st)[i] \in [all : Catalog, complete : BOOLEAN]
             /\ Restored(s, st)[i].complete => s[i].complete
  <2>1. s[i] \in [all : Catalog, complete : BOOLEAN]
    OBVIOUS
  <2>2. [all |-> st[i], complete |-> FALSE] \in [all : Catalog, complete : BOOLEAN]
    OBVIOUS
  <2> QED BY <1>1, <2>1, <2>2
<1>3. Restored(s, st) = [i \in Provider |-> Restored(s, st)[i]]
  BY DEF Restored
<1> QED BY <1>1, <1>2, <1>3

LEMMA ResolvedKeeps ==
  ASSUME NEW nd \in [Session -> NudgeType], NEW I
  PROVE  /\ Resolved(nd, I) \in [Session -> NudgeType]
         /\ \A n \in Session : /\ Resolved(nd, I)[n].phase = nd[n].phase
                               /\ Resolved(nd, I)[n].attempt = nd[n].attempt
                               /\ Resolved(nd, I)[n].before = nd[n].before
  BY DEF Resolved, NudgeType

LEMMA InitInv == Init => RefreshInv
<1> SUFFICES ASSUME Init PROVE RefreshInv
  OBVIOUS
<1>1. MaxRetries \in Nat /\ MaxSessions \in Nat
  BY NativeRefreshAssumption
<1>2. TypeOK
  <2>0. Fresh \in Ledger
    BY DEF Fresh, Ledger
  <2>1. NoNudge \in NudgeType
    BY <1>1, <2>0 DEF NoNudge, NudgeType, Phase
  <2>2. nudge \in [Session -> NudgeType]
    BY <2>1 DEF Init
  <2>3. store \in [Provider -> Catalog] /\ stored \in [Provider -> [all : Catalog, complete : BOOLEAN]]
    <3>1. store \in [Provider -> Catalog]
      BY DEF Init, Catalog
    <3> QED BY <3>1 DEF Init
  <2> QED BY <1>1, <2>0, <2>2, <2>3 DEF Init, TypeOK, NudgeType
<1>3. CompleteIsFull /\ RetriesLeft /\ LedgerSound
  BY <1>1 DEF Init, CompleteIsFull, RetriesLeft, LedgerSound, NoNudge, Fresh, AtMost
<1> QED BY <1>2, <1>3 DEF RefreshInv, CatalogsWhole

----------------------------------------------------------------------------
(* every action preserves the invariant *)

(* an attempt, of a session start or a timer *)
LEMMA AttemptKeeps ==
  ASSUME RefreshInv, NEW n \in Session, NEW a \in 0 .. MaxRetries, Attempt(n, a),
         UNCHANGED <<view, store, due, stamp, env>>, nudgeEpoch' \in 0 .. MaxSessions
  PROVE  RefreshInv'
<1> USE DEF RefreshInv, CatalogsWhole
<1>0. nudge \in [Session -> NudgeType]
  BY DEF TypeOK, NudgeType
<1>1. stored' = Restored(stored, store)
  BY DEF Attempt
<1>2. /\ stored' \in [Provider -> [all : Catalog, complete : BOOLEAN]]
      /\ \A i \in Provider : /\ stored[i].complete => stored'[i] = stored[i]
                             /\ stored'[i].complete => stored[i].complete
  BY <1>1, RestoredKeeps DEF TypeOK
<1> DEFINE r == Resolved(nudge, Provider)
<1>3. /\ r \in [Session -> NudgeType]
      /\ \A m \in Session : /\ r[m].phase = nudge[m].phase
                            /\ r[m].attempt = nudge[m].attempt
                            /\ r[m].before = nudge[m].before
  BY <1>0, ResolvedKeeps
<1> DEFINE new == [phase |-> "refreshing", attempt |-> a,
                   pending |-> Provider, before |-> stamp]
<1>4. new \in NudgeType
  BY DEF NudgeType, Phase, TypeOK
<1>5. nudge' = [r EXCEPT ![n] = new]
  BY DEF Attempt
<1> HIDE DEF r, new
<1>6. nudge' \in [Session -> NudgeType]
  BY <1>3, <1>4, <1>5
<1>7. \A m \in Session : nudge'[m] = IF m = n THEN new ELSE r[m]
  BY <1>3, <1>5
<1>8. fetching' \in [Provider -> {0} \cup Session]
  BY DEF Attempt
<1>9. TypeOK'
  BY <1>2, <1>6, <1>8 DEF TypeOK, NudgeType, env
<1>10. CompleteIsFull'
  BY <1>2 DEF CompleteIsFull
<1>11. RetriesLeft'
  BY <1>3, <1>7 DEF RetriesLeft, new
<1>12. LedgerSound'
  <2> SUFFICES ASSUME reloads' = 0, NEW i \in Provider
               PROVE  /\ stamp'[i].oks > 0 => stored'[i].complete
                      /\ \A m \in Session : AtMost(nudge'[m].before[i], stamp'[i])
    BY DEF LedgerSound
  <2>1. reloads = 0 /\ stamp' = stamp
    BY DEF env
  <2>2. stamp'[i].oks > 0 => stored'[i].complete
    BY <1>2, <2>1 DEF LedgerSound
  <2>3. ASSUME NEW m \in Session PROVE AtMost(nudge'[m].before[i], stamp'[i])
    <3>1. CASE m = n
      <4>1. nudge'[m].before = stamp
        BY <1>7, <3>1 DEF new
      <4>2. AtMost(stamp[i], stamp[i])
        BY LedgerCounts, Counting
      <4> QED BY <2>1, <4>1, <4>2
    <3>2. CASE m # n
      BY <1>3, <1>7, <2>1, <3>2 DEF LedgerSound
    <3> QED BY <3>1, <3>2
  <2> QED BY <2>2, <2>3
<1> QED BY <1>9, <1>10, <1>11, <1>12

(* an offline refresh, as every registration starts one *)
LEMMA OfflineKeeps ==
  ASSUME RefreshInv, Offline(stored),
         UNCHANGED <<view, store, stamp, nudgeEpoch, faults, reloads>>,
         due' \in SUBSET Provider, storms' \in Nat
  PROVE  RefreshInv'
<1> USE DEF RefreshInv, CatalogsWhole
<1>1. stored' = Restored(stored, store)
  BY DEF Offline
<1>2. /\ stored' \in [Provider -> [all : Catalog, complete : BOOLEAN]]
      /\ \A i \in Provider : /\ stored[i].complete => stored'[i] = stored[i]
                             /\ stored'[i].complete => stored[i].complete
  BY <1>1, RestoredKeeps DEF TypeOK
<1>3. nudge \in [Session -> NudgeType] /\ nudge' = Resolved(nudge, Provider)
  BY DEF TypeOK, NudgeType, Offline
<1>4. /\ nudge' \in [Session -> NudgeType]
      /\ \A n \in Session : /\ nudge'[n].phase = nudge[n].phase
                            /\ nudge'[n].attempt = nudge[n].attempt
                            /\ nudge'[n].before = nudge[n].before
  BY <1>3, ResolvedKeeps
<1>5. TypeOK'
  BY <1>2, <1>4 DEF TypeOK, NudgeType, Offline
<1>6. CompleteIsFull'
  BY <1>2 DEF CompleteIsFull
<1>7. RetriesLeft'
  BY <1>4 DEF RetriesLeft
<1>8. LedgerSound'
  BY <1>2, <1>4 DEF LedgerSound
<1> QED BY <1>5, <1>6, <1>7, <1>8

(* a reload: every catalog starts over, and LedgerSound says nothing any more *)
LEMMA ReloadKeeps ==
  ASSUME RefreshInv, Reload PROVE RefreshInv'
<1> USE DEF RefreshInv, CatalogsWhole
<1> DEFINE empty == [i \in Provider |-> [all |-> "none", complete |-> FALSE]]
<1>1. empty \in [Provider -> [all : Catalog, complete : BOOLEAN]]
  BY DEF Catalog
<1>2. stored' = Restored(empty, store)
  BY DEF Reload, Offline
<1>3. \A i \in Provider : ~empty[i].complete
  OBVIOUS
<1> HIDE DEF empty
<1>4. /\ stored' \in [Provider -> [all : Catalog, complete : BOOLEAN]]
      /\ \A i \in Provider : ~stored'[i].complete
  BY <1>1, <1>2, <1>3, RestoredKeeps DEF TypeOK
<1>5. nudge \in [Session -> NudgeType] /\ nudge' = Resolved(nudge, Provider)
  BY DEF TypeOK, NudgeType, Reload, Offline
<1>6. /\ nudge' \in [Session -> NudgeType]
      /\ \A n \in Session : /\ nudge'[n].phase = nudge[n].phase
                            /\ nudge'[n].attempt = nudge[n].attempt
  BY <1>5, ResolvedKeeps
<1>7. TypeOK'
  <2>1. stamp' \in Ledger /\ due' \in SUBSET Provider /\ reloads' \in Nat
    BY DEF Reload, TypeOK, Fresh, Ledger
  <2>2. fetching' \in [Provider -> {0} \cup Session]
    BY DEF Reload, Offline
  <2>3. UNCHANGED <<view, store, nudgeEpoch, faults, storms>>
    BY DEF Reload
  <2> QED BY <1>4, <1>6, <2>1, <2>2, <2>3 DEF TypeOK, NudgeType
<1>8. CompleteIsFull'
  BY <1>4 DEF CompleteIsFull
<1>9. RetriesLeft'
  BY <1>6 DEF RetriesLeft
<1>10. reloads' # 0
  BY DEF Reload, TypeOK
<1> QED BY <1>7, <1>8, <1>9, <1>10 DEF LedgerSound

(* the answer to a fetch: published, empty or failed *)
LEMMA AnswerKeeps ==
  ASSUME RefreshInv, NEW i \in Provider, Publish(i) \/ EmptyRetain(i) \/ Fail(i)
  PROVE  RefreshInv'
<1> USE DEF RefreshInv, CatalogsWhole
<1>1. Answered(i)
  BY DEF Publish, EmptyRetain, Fail
<1>2. nudge \in [Session -> NudgeType] /\ nudge' = Resolved(nudge, {i})
  BY <1>1 DEF TypeOK, NudgeType, Answered
<1>3. /\ nudge' \in [Session -> NudgeType]
      /\ \A n \in Session : /\ nudge'[n].phase = nudge[n].phase
                            /\ nudge'[n].attempt = nudge[n].attempt
                            /\ nudge'[n].before = nudge[n].before
  BY <1>2, ResolvedKeeps
<1>4. stored' = stored \/ Published(i)
  BY DEF Publish, EmptyRetain, Fail
<1>5. stored' \in [Provider -> [all : Catalog, complete : BOOLEAN]]
  <2>1. [all |-> "full", complete |-> TRUE] \in [all : Catalog, complete : BOOLEAN]
    BY DEF Catalog
  <2> QED BY <1>4, <2>1 DEF TypeOK, Published
<1>6. \A j \in Provider : stored'[j] = stored[j] \/ (stored'[j].complete /\ stored'[j].all = "full")
  BY <1>4 DEF TypeOK, Published
<1>7. \/ stamp' = stamp
      \/ stamp' = [stamp EXCEPT ![i].oks = @ + 1] /\ stored'[i].complete
      \/ stamp' = [stamp EXCEPT ![i].empties = @ + 1]
  BY DEF Publish, EmptyRetain, Fail, Published, TypeOK
<1>8. /\ stamp' \in Ledger
      /\ \A j \in Provider : /\ AtMost(stamp[j], stamp'[j])
                             /\ stamp'[j].oks > stamp[j].oks => stored'[j].complete
  <2>0. stamp \in Ledger
    BY DEF TypeOK
  <2>1. ASSUME NEW j \in Provider PROVE stamp[j].oks \in Nat /\ stamp[j].empties \in Nat
    BY <2>0 DEF Ledger
  <2>2. stamp' \in Ledger
    BY <1>7, <2>0 DEF Ledger
  <2>3. ASSUME NEW j \in Provider
        PROVE  /\ stamp'[j].oks = stamp[j].oks \/ (stamp'[j].oks = stamp[j].oks + 1 /\ stored'[j].complete)
               /\ stamp'[j].empties \in {stamp[j].empties, stamp[j].empties + 1}
    BY <1>7, <2>0 DEF Ledger
  <2> QED BY <2>1, <2>2, <2>3 DEF AtMost
<1>9. store' \in [Provider -> Catalog] /\ faults' \in Nat
  BY DEF Publish, EmptyRetain, Fail, TypeOK, Catalog
<1>10. UNCHANGED <<view, due, nudgeEpoch, reloads, storms>>
  BY <1>1 DEF Answered
<1>11. fetching' \in [Provider -> {0} \cup Session]
  BY <1>1 DEF Answered, TypeOK
<1>12. TypeOK'
  BY <1>3, <1>5, <1>8, <1>9, <1>10, <1>11 DEF TypeOK, NudgeType
<1>13. CompleteIsFull'
  BY <1>6 DEF CompleteIsFull
<1>14. RetriesLeft'
  BY <1>3 DEF RetriesLeft
<1>15. LedgerSound'
  <2> SUFFICES ASSUME reloads' = 0, NEW j \in Provider
               PROVE  /\ stamp'[j].oks > 0 => stored'[j].complete
                      /\ \A n \in Session : AtMost(nudge'[n].before[j], stamp'[j])
    BY DEF LedgerSound
  <2>0. TypeOK'
    BY <1>12
  <2>1. ASSUME stamp'[j].oks > 0 PROVE stored'[j].complete
    <3>1. stamp[j].oks \in Nat /\ stamp'[j].oks \in Nat
      BY <1>8 DEF TypeOK, Ledger
    <3> QED BY <2>1, <1>6, <1>8, <1>10, <3>1 DEF LedgerSound
  <2>2. ASSUME NEW n \in Session PROVE AtMost(nudge'[n].before[j], stamp'[j])
    <3>1. AtMost(nudge[n].before[j], stamp[j])
      BY <1>10 DEF LedgerSound
    <3>2. nudge[n].before[j] \in Count /\ stamp[j] \in Count /\ stamp'[j] \in Count
      BY <2>0, LedgerCounts, <1>8 DEF Ledger, Count
    <3> QED BY <1>3, <1>8, <3>1, <3>2, Counting
  <2> QED BY <2>1, <2>2
<1> QED BY <1>12, <1>13, <1>14, <1>15

(* a verdict keeps everything but the phase of its nudge *)
LEMMA RefreshedKeeps ==
  ASSUME RefreshInv, NEW n \in Session, Refreshed(n)
  PROVE  RefreshInv'
<1> USE DEF RefreshInv, CatalogsWhole
<1>1. PICK p \in Phase :
        /\ p = "waiting" => p = Verdict(n)
        /\ nudge' = [nudge EXCEPT ![n].phase = p]
  BY DEF Refreshed
<1>2. nudge \in [Session -> NudgeType]
  BY DEF TypeOK, NudgeType
<1>3. nudge' \in [Session -> NudgeType]
  BY <1>1, <1>2 DEF NudgeType
<1>4. \A m \in Session : /\ nudge'[m].attempt = nudge[m].attempt
                         /\ nudge'[m].before = nudge[m].before
                         /\ nudge'[m].phase = IF m = n THEN p ELSE nudge[m].phase
  BY <1>1, <1>2 DEF NudgeType
<1>5. p = "waiting" => nudge[n].attempt < MaxRetries
  <2>1. nudge[n].attempt \in Nat /\ MaxRetries \in Nat
    BY <1>2, NativeRefreshAssumption DEF NudgeType
  <2> QED BY <1>1, <2>1 DEF Verdict
<1>6. UNCHANGED <<view, stored, store, fetching, due, stamp, nudgeEpoch, reloads, storms>>
  BY DEF Refreshed
<1>7. faults' \in Nat
  BY DEF Refreshed, TypeOK
<1>8. TypeOK'
  BY <1>3, <1>6, <1>7 DEF TypeOK, NudgeType
<1>9. CompleteIsFull'
  BY <1>6 DEF CompleteIsFull
<1>10. RetriesLeft'
  BY <1>4, <1>5 DEF RetriesLeft
<1>11. LedgerSound'
  BY <1>4, <1>6 DEF LedgerSound
<1> QED BY <1>8, <1>9, <1>10, <1>11

LEMMA TimerKeeps ==
  ASSUME RefreshInv, NEW n \in Session, Timer(n)
  PROVE  RefreshInv'
<1> USE DEF RefreshInv, CatalogsWhole
<1>0. nudge \in [Session -> NudgeType] /\ MaxRetries \in Nat
  BY NativeRefreshAssumption DEF TypeOK, NudgeType
<1>1. CASE nudge' = [nudge EXCEPT ![n].phase = "dropped"] /\ UNCHANGED <<stored, fetching>>
  <2>1. nudge' \in [Session -> NudgeType]
    BY <1>0, <1>1 DEF NudgeType, Phase, Ended
  <2>2. \A m \in Session : /\ nudge'[m].attempt = nudge[m].attempt
                           /\ nudge'[m].before = nudge[m].before
                           /\ nudge'[m].phase \in {nudge[m].phase, "dropped"}
    BY <1>0, <1>1 DEF NudgeType
  <2>3. UNCHANGED <<view, stored, store, fetching, due, stamp, nudgeEpoch, env>>
    BY <1>1 DEF Timer
  <2>4. TypeOK'
    BY <2>1, <2>3 DEF TypeOK, NudgeType, env
  <2>5. CompleteIsFull' /\ RetriesLeft' /\ LedgerSound'
    BY <2>2, <2>3 DEF CompleteIsFull, RetriesLeft, LedgerSound, env
  <2> QED BY <2>4, <2>5
<1>2. CASE Attempt(n, nudge[n].attempt + 1)
  <2>1. nudge[n].attempt + 1 \in 0 .. MaxRetries
    BY <1>0 DEF RetriesLeft, NudgeType, Timer
  <2>2. UNCHANGED <<view, store, due, stamp, nudgeEpoch, env>>
    BY DEF Timer
  <2>3. nudgeEpoch' \in 0 .. MaxSessions
    BY <2>2 DEF TypeOK
  <2> QED BY <1>2, <2>1, <2>2, <2>3, AttemptKeeps
<1> QED BY <1>1, <1>2 DEF Timer

LEMMA ToggleKeeps ==
  ASSUME RefreshInv, NEW i \in Provider, Toggle(i)
  PROVE  RefreshInv'
<1> USE DEF RefreshInv, CatalogsWhole
<1>1. UNCHANGED <<stored, store, fetching, stamp, nudgeEpoch, nudge, faults, reloads>>
  BY DEF Toggle
<1>2. view' \in [Provider -> {"free", "all"}]
  BY DEF Toggle, TypeOK
<1>3. due' \in SUBSET Provider /\ storms' \in Nat
  BY DEF Toggle, TypeOK
<1> QED BY <1>1, <1>2, <1>3 DEF TypeOK, CompleteIsFull, RetriesLeft, LedgerSound

LEMMA NextKeeps == RefreshInv /\ [Next]_vars => RefreshInv'
<1> SUFFICES ASSUME RefreshInv, [Next]_vars PROVE RefreshInv'
  OBVIOUS
<1>1. CASE SessionStart
  <2>1. MaxSessions \in Nat /\ MaxRetries \in Nat /\ nudgeEpoch \in 0 .. MaxSessions
    BY NativeRefreshAssumption DEF RefreshInv, CatalogsWhole, TypeOK
  <2>2. nudgeEpoch + 1 \in Session /\ nudgeEpoch' \in 0 .. MaxSessions /\ 0 \in 0 .. MaxRetries
    BY <1>1, <2>1 DEF SessionStart, Session
  <2> QED BY <1>1, <2>2, AttemptKeeps DEF SessionStart
<1>2. CASE Reload
  BY <1>2, ReloadKeeps
<1>3. CASE Storm
  <2>1. due' \in SUBSET Provider /\ storms' \in Nat
    BY <1>3 DEF Storm, RefreshInv, CatalogsWhole, TypeOK
  <2> QED BY <1>3, <2>1, OfflineKeeps DEF Storm
<1>4. ASSUME NEW i \in Provider, Publish(i) \/ EmptyRetain(i) \/ Fail(i) PROVE RefreshInv'
  BY <1>4, AnswerKeeps
<1>5. ASSUME NEW i \in Provider, Toggle(i) PROVE RefreshInv'
  BY <1>5, ToggleKeeps
<1>6. ASSUME NEW i \in Provider, ReRegister(i) PROVE RefreshInv'
  <2>1. due' \in SUBSET Provider /\ storms' \in Nat
    BY <1>6 DEF ReRegister, RefreshInv, CatalogsWhole, TypeOK, env
  <2> QED BY <1>6, <2>1, OfflineKeeps DEF ReRegister, env
<1>7. ASSUME NEW n \in Session, Refreshed(n) PROVE RefreshInv'
  BY <1>7, RefreshedKeeps
<1>8. ASSUME NEW n \in Session, Timer(n) PROVE RefreshInv'
  BY <1>8, TimerKeeps
<1>9. CASE UNCHANGED vars
  BY <1>9 DEF vars, env, RefreshInv, CatalogsWhole, TypeOK, CompleteIsFull, RetriesLeft,
     LedgerSound
<1> QED BY <1>1, <1>2, <1>3, <1>4, <1>5, <1>6, <1>7, <1>8, <1>9 DEF Next

LEMMA Invariant == Spec => []RefreshInv
  BY InitInv, NextKeeps, PTL DEF Spec

----------------------------------------------------------------------------
(* the results *)

(* The types hold, and a catalog that counts as complete is the whole one     *)
(* (refreshNativeProviderModels).                                             *)
THEOREM WholeCatalogs == Spec => []CatalogsWhole
  BY Invariant, PTL DEF RefreshInv

(* A catalog the network has published stays until a reload, whatever is      *)
(* registered, restored, toggled, refreshed or superseded.                    *)
THEOREM PublishedStays == Spec => NoDowngrade
<1>1. RefreshInv /\ [Next]_vars
        => [\A i \in Provider : stored[i].complete /\ ~stored'[i].complete => Reload]_vars
  <2> SUFFICES ASSUME RefreshInv, [Next]_vars, NEW i \in Provider,
                      stored[i].complete, ~stored'[i].complete
               PROVE  Reload
    BY DEF vars
  <2>0. TypeOK
    BY DEF RefreshInv, CatalogsWhole
  <2>1. stored' # Restored(stored, store)
    BY <2>0, RestoredKeeps DEF TypeOK
  <2>2. stored' # stored
    OBVIOUS
  <2>3. ASSUME NEW j \in Provider PROVE ~Published(j)
    BY <2>0 DEF Published, TypeOK
  <2>4. ~SessionStart /\ ~Storm
    BY <2>1 DEF SessionStart, Attempt, Storm, Offline
  <2>5. ASSUME NEW j \in Provider
        PROVE  ~Publish(j) /\ ~EmptyRetain(j) /\ ~Fail(j) /\ ~Toggle(j) /\ ~ReRegister(j)
    BY <2>1, <2>2, <2>3 DEF Publish, EmptyRetain, Fail, Toggle, ReRegister, Offline
  <2>6. ASSUME NEW n \in Session PROVE ~Refreshed(n) /\ ~Timer(n)
    BY <2>1, <2>2 DEF Refreshed, Timer, Attempt
  <2>7. ~UNCHANGED vars
    BY <2>2 DEF vars
  <2> QED BY <2>4, <2>5, <2>6, <2>7 DEF Next
<1> QED BY <1>1, Invariant, PTL DEF Spec, NoDowngrade

(* Only the verdict on a refresh ends a nudge other than by dropping it.      *)
LEMMA OnlyVerdictsChange ==
  ASSUME TypeOK, [Next]_vars, NEW n \in Session,
         nudge'[n].phase # nudge[n].phase, nudge'[n].phase \notin {"refreshing", "dropped"}
  PROVE  \E m \in Session : Refreshed(m)
<1>0. nudge \in [Session -> NudgeType]
  BY DEF TypeOK, NudgeType
<1>1. ASSUME NEW I PROVE nudge' # Resolved(nudge, I)
  BY <1>0, ResolvedKeeps
<1>2. nudge' # nudge
  OBVIOUS
<1>3. ASSUME NEW m, NEW a PROVE ~Attempt(m, a)
  <2> SUFFICES ASSUME Attempt(m, a) PROVE FALSE
    OBVIOUS
  <2>1. Resolved(nudge, Provider) \in [Session -> NudgeType]
    BY <1>0, ResolvedKeeps
  <2>2. Resolved(nudge, Provider)[n].phase = nudge[n].phase
    BY <1>0, ResolvedKeeps
  <2>3. nudge'[n] = Resolved(nudge, Provider)[n] \/ nudge'[n].phase = "refreshing"
    BY <2>1 DEF Attempt
  <2> QED BY <2>2, <2>3
<1>4. ~SessionStart /\ ~Storm /\ ~Reload
  BY <1>1, <1>3 DEF SessionStart, Storm, Reload, Offline
<1>5. ASSUME NEW j \in Provider
      PROVE  ~Publish(j) /\ ~EmptyRetain(j) /\ ~Fail(j) /\ ~Toggle(j) /\ ~ReRegister(j)
  BY <1>1, <1>2 DEF Publish, EmptyRetain, Fail, Answered, Toggle, ReRegister, Offline
<1>6. ASSUME NEW m \in Session PROVE ~Timer(m)
  <2>1. nudge' # [nudge EXCEPT ![m].phase = "dropped"]
    BY <1>0 DEF NudgeType
  <2> QED BY <1>3, <2>1 DEF Timer
<1> QED BY <1>2, <1>4, <1>5, <1>6 DEF Next, vars

(* A nudge that ends clean before any reload leaves no provider out: each has *)
(* its whole catalog, or its fetch was answered with nothing (Verdict).       *)
THEOREM CleanMeansWhole == Spec => CleanWithoutReload
<1>1. RefreshInv /\ [Next]_vars
        => [\A n \in Session : EndsClean(n) /\ reloads = 0
              => \A i \in Provider : \/ stored'[i].complete
                                     \/ stamp[i].empties > nudge[n].before[i].empties]_vars
  <2> SUFFICES ASSUME RefreshInv, [Next]_vars, NEW n \in Session,
                      nudge'[n].phase = "clean", nudge[n].phase # "clean", reloads = 0,
                      NEW i \in Provider
               PROVE  stored'[i].complete \/ stamp[i].empties > nudge[n].before[i].empties
    BY DEF EndsClean
  <2>0. TypeOK /\ nudge \in [Session -> NudgeType]
    BY DEF RefreshInv, CatalogsWhole, TypeOK, NudgeType
  <2>7. PICK m \in Session : Refreshed(m)
    BY <2>0, OnlyVerdictsChange
  <2>8. PICK p \in Phase : nudge' = [nudge EXCEPT ![m].phase = p]
                           /\ (p = "clean" => p = Verdict(m))
    BY <2>7 DEF Refreshed
  <2>9. m = n /\ p = "clean"
    BY <2>0, <2>8 DEF NudgeType
  <2>10. Incomplete(n) = {}
    BY <2>8, <2>9 DEF Verdict
  <2>11. stamp[i] # nudge[n].before[i]
    BY <2>10 DEF Incomplete
  <2>12. AtMost(nudge[n].before[i], stamp[i]) /\ (stamp[i].oks > 0 => stored[i].complete)
    BY DEF RefreshInv, LedgerSound
  <2>13. nudge[n].before[i] \in Count /\ stamp[i] \in Count
    BY <2>0, LedgerCounts
  <2>14. Grown(nudge[n].before[i], stamp[i])
    BY <2>11, <2>12, <2>13, Counting
  <2>15. stored' = stored
    BY <2>7 DEF Refreshed
  <2> QED BY <2>12, <2>13, <2>14, <2>15 DEF Grown, Count
<1> QED BY <1>1, Invariant, PTL DEF Spec, CleanWithoutReload

----------------------------------------------------------------------------
(* how a nudge comes to give up *)

Disturbances == faults + reloads + storms

(* A toggle is counted when it is asked for and disturbs when its             *)
(* registration follows, so those still due are taken off.                    *)
OnPar(n) == nudge[n].attempt + Cardinality(due) <= Disturbances
Behind(n) == nudge[n].attempt + Cardinality(due) < Disturbances

(* An attempt that nothing has disturbed: each provider has either completed  *)
(* a refresh since it began, or is still to answer.                           *)
Undisturbed(n) ==
  \A i \in Provider : /\ AtMost(nudge[n].before[i], stamp[i])
                      /\ i \in nudge[n].pending \/ Grown(nudge[n].before[i], stamp[i])

(* Each attempt of the live nudge that did not bring all catalogs was         *)
(* disturbed by something of its own (runRefreshNudge).                       *)
Paced(n) ==
  /\ nudge[n].phase = "refreshing" => OnPar(n) /\ (Behind(n) \/ Undisturbed(n))
  /\ nudge[n].phase = "waiting" => Behind(n)
DueCounted == IsFiniteSet(due) /\ Cardinality(due) <= storms
PaceInv == DueCounted /\ \A n \in Session : n = nudgeEpoch => Paced(n)

LEMMA PaceInit == Init => PaceInv
<1> SUFFICES ASSUME Init PROVE PaceInv
  OBVIOUS
<1>1. IsFiniteSet({}) /\ Cardinality({}) = 0
  BY FS_EmptySet
<1>2. DueCounted
  BY <1>1 DEF Init, DueCounted
<1>3. \A n \in Session : nudge[n].phase = "none"
  BY DEF Init, NoNudge
<1> QED BY <1>2, <1>3 DEF PaceInv, Paced

LEMMA Counts ==
  ASSUME TypeOK, IsFiniteSet(due)
  PROVE  /\ faults \in Nat /\ reloads \in Nat /\ storms \in Nat /\ Disturbances \in Nat
         /\ Cardinality(due) \in Nat
         /\ \A n \in Session : nudge[n].attempt \in Nat
<1>1. Cardinality(due) \in Nat
  BY FS_CardinalityType
<1>2. faults \in Nat /\ reloads \in Nat /\ storms \in Nat
  BY DEF TypeOK
<1>3. \A n \in Session : nudge[n].attempt \in Nat
  BY NativeRefreshAssumption DEF TypeOK
<1> QED BY <1>1, <1>2, <1>3 DEF Disturbances

(* what happens at the side of the attempts and disturbs them *)
LEMMA DisturbedKeeps ==
  ASSUME RefreshInv, RefreshInv', PaceInv, DueCounted',
         Cardinality(due') + Disturbances < Cardinality(due) + Disturbances',
         UNCHANGED nudgeEpoch,
         \A n \in Session : nudge'[n].phase = nudge[n].phase /\ nudge'[n].attempt = nudge[n].attempt
  PROVE  PaceInv'
<1>1. TypeOK /\ TypeOK' /\ IsFiniteSet(due) /\ IsFiniteSet(due')
  BY DEF RefreshInv, CatalogsWhole, PaceInv, DueCounted
<1>2. ASSUME NEW n \in Session, n = nudgeEpoch PROVE Paced(n)'
  <2>1. Cardinality(due) \in Nat /\ Disturbances \in Nat /\ nudge[n].attempt \in Nat
    BY <1>1, Counts
  <2>2. Cardinality(due') \in Nat /\ Disturbances' \in Nat
    <3>1. Cardinality(due') \in Nat
      BY <1>1, FS_CardinalityType
    <3>2. Disturbances' \in Nat
      BY <1>1 DEF Disturbances, TypeOK
    <3> QED BY <3>1, <3>2
  <2>3. nudge[n].phase \in {"refreshing", "waiting"} => OnPar(n)
    BY <1>2, <2>1 DEF PaceInv, Paced, Behind, OnPar
  <2>4. nudge'[n].phase \in {"refreshing", "waiting"} => OnPar(n)' /\ Behind(n)'
    BY <2>1, <2>2, <2>3 DEF OnPar, Behind
  <2> QED BY <2>4 DEF Paced
<1> QED BY <1>2 DEF PaceInv

LEMMA DueGrows ==
  ASSUME IsFiniteSet(due), NEW i, i \notin due, due' = due \cup {i}
  PROVE  IsFiniteSet(due') /\ Cardinality(due') = Cardinality(due) + 1
  BY FS_AddElement
LEMMA DueShrinks ==
  ASSUME IsFiniteSet(due), NEW i, i \in due, due' = due \ {i}
  PROVE  IsFiniteSet(due') /\ Cardinality(due') = Cardinality(due) - 1
  BY FS_RemoveElement

LEMMA PaceStep == RefreshInv /\ RefreshInv' /\ PaceInv /\ [Next]_vars => PaceInv'
<1> SUFFICES ASSUME RefreshInv, RefreshInv', PaceInv, [Next]_vars PROVE PaceInv'
  OBVIOUS
<1>0. /\ TypeOK /\ TypeOK' /\ IsFiniteSet(due) /\ Cardinality(due) <= storms
      /\ nudge \in [Session -> NudgeType] /\ MaxSessions \in Nat /\ MaxRetries \in Nat
  BY NativeRefreshAssumption DEF RefreshInv, CatalogsWhole, PaceInv, DueCounted, TypeOK, NudgeType
<1>1. /\ faults \in Nat /\ reloads \in Nat /\ storms \in Nat /\ Disturbances \in Nat
      /\ Cardinality(due) \in Nat /\ \A n \in Session : nudge[n].attempt \in Nat
  BY <1>0, Counts
<1>2. ASSUME NEW I, nudge' = Resolved(nudge, I)
      PROVE  \A n \in Session : nudge'[n].phase = nudge[n].phase /\ nudge'[n].attempt = nudge[n].attempt
  BY <1>0, <1>2, ResolvedKeeps
<1>3. ASSUME NEW n \in Session, NEW a \in Nat, Attempt(n, a), UNCHANGED <<due, stamp, env>>,
             nudgeEpoch' = n, a + Cardinality(due) <= Disturbances
      PROVE  PaceInv'
  <2>1. nudge'[n] = [phase |-> "refreshing", attempt |-> a, pending |-> Provider, before |-> stamp]
    <3>1. Resolved(nudge, Provider) \in [Session -> NudgeType]
      BY <1>0, ResolvedKeeps
    <3> QED BY <1>3, <3>1 DEF Attempt
  <2>2. OnPar(n)'
    BY <1>3, <2>1 DEF OnPar, Disturbances, env
  <2>3. Undisturbed(n)'
    <3>1. \A i \in Provider : AtMost(stamp[i], stamp[i])
      BY <1>0, LedgerCounts, Counting
    <3> QED BY <1>3, <2>1, <3>1 DEF Undisturbed
  <2>4. DueCounted'
    BY <1>0, <1>3 DEF DueCounted, env
  <2> QED BY <1>3, <2>1, <2>2, <2>3, <2>4 DEF PaceInv, Paced
<1>4. CASE SessionStart
  <2>1. nudgeEpoch + 1 \in Session
    BY <1>0, <1>4 DEF SessionStart, Session, TypeOK
  <2>2. 0 + Cardinality(due) <= Disturbances
    BY <1>0, <1>1 DEF Disturbances
  <2> QED BY <1>3, <1>4, <2>1, <2>2 DEF SessionStart
<1>5. CASE Reload
  <2>1. due' = {} /\ IsFiniteSet({}) /\ Cardinality({}) = 0
    BY <1>5, FS_EmptySet DEF Reload
  <2>2. DueCounted'
    BY <1>1, <1>5, <2>1 DEF DueCounted, Reload
  <2>3. Cardinality(due') + Disturbances < Cardinality(due) + Disturbances'
    BY <1>1, <1>5, <2>1 DEF Disturbances, Reload
  <2>4. nudge' = Resolved(nudge, Provider) /\ UNCHANGED nudgeEpoch
    BY <1>5 DEF Reload, Offline
  <2> QED BY <1>2, <2>2, <2>3, <2>4, DisturbedKeeps
<1>6. CASE Storm
  <2>1. nudge' = Resolved(nudge, Provider) /\ UNCHANGED <<due, nudgeEpoch, faults, reloads>>
        /\ storms' = storms + 1
    BY <1>6 DEF Storm, Offline
  <2>2. DueCounted'
    BY <1>0, <1>1, <2>1 DEF DueCounted
  <2>3. Cardinality(due') + Disturbances < Cardinality(due) + Disturbances'
    BY <1>1, <2>1 DEF Disturbances
  <2> QED BY <1>2, <2>1, <2>2, <2>3, DisturbedKeeps
<1>7. ASSUME NEW i \in Provider, ReRegister(i) PROVE PaceInv'
  <2>1. nudge' = Resolved(nudge, Provider) /\ UNCHANGED <<nudgeEpoch, env>>
        /\ i \in due /\ due' = due \ {i}
    BY <1>7 DEF ReRegister, Offline
  <2>2. IsFiniteSet(due') /\ Cardinality(due') = Cardinality(due) - 1
    BY <1>0, <2>1, DueShrinks
  <2>3. DueCounted'
    BY <1>0, <1>1, <2>1, <2>2 DEF DueCounted, env
  <2>4. Cardinality(due') + Disturbances < Cardinality(due) + Disturbances'
    BY <1>1, <2>1, <2>2 DEF Disturbances, env
  <2> QED BY <1>2, <2>1, <2>3, <2>4, DisturbedKeeps
<1>8. ASSUME NEW i \in Provider, Fail(i) PROVE PaceInv'
  <2>1. nudge' = Resolved(nudge, {i}) /\ UNCHANGED <<due, nudgeEpoch, reloads, storms>>
        /\ faults' = faults + 1
    BY <1>8 DEF Fail, Answered
  <2>2. DueCounted'
    BY <1>0, <2>1 DEF DueCounted
  <2>3. Cardinality(due') + Disturbances < Cardinality(due) + Disturbances'
    BY <1>1, <2>1 DEF Disturbances
  <2> QED BY <1>2, <2>1, <2>2, <2>3, DisturbedKeeps
<1>9. ASSUME NEW i \in Provider, Publish(i) \/ EmptyRetain(i) PROVE PaceInv'
  <2>1. /\ nudge' = Resolved(nudge, {i})
        /\ \/ stamp' = [stamp EXCEPT ![i].oks = @ + 1]
           \/ stamp' = [stamp EXCEPT ![i].empties = @ + 1]
        /\ UNCHANGED <<due, nudgeEpoch, env>>
    BY <1>9 DEF Publish, EmptyRetain, Answered, env
  <2>2. \A n \in Session : /\ nudge'[n].phase = nudge[n].phase
                           /\ nudge'[n].attempt = nudge[n].attempt
                           /\ nudge'[n].before = nudge[n].before
    BY <1>0, <2>1, ResolvedKeeps
  <2>3. \A n \in Session : nudge'[n].pending = nudge[n].pending \ {i}
    BY <1>0, <2>1 DEF Resolved, NudgeType
  <2>4. ASSUME NEW j \in Provider
        PROVE  AtMost(stamp[j], stamp'[j]) /\ (j = i => Grown(stamp[j], stamp'[j]))
    <3>1. stamp[j].oks \in Nat /\ stamp[j].empties \in Nat
      BY <1>0 DEF TypeOK, Ledger
    <3>2. \/ j # i /\ stamp'[j].oks = stamp[j].oks /\ stamp'[j].empties = stamp[j].empties
          \/ stamp'[j].oks = stamp[j].oks + 1 /\ stamp'[j].empties = stamp[j].empties
          \/ stamp'[j].oks = stamp[j].oks /\ stamp'[j].empties = stamp[j].empties + 1
      BY <1>0, <2>1 DEF TypeOK, Ledger
    <3> QED BY <3>1, <3>2 DEF AtMost, Grown
  <2>5. ASSUME NEW n \in Session, Undisturbed(n) PROVE Undisturbed(n)'
    <3> SUFFICES ASSUME NEW j \in Provider
                 PROVE  /\ AtMost(nudge'[n].before[j], stamp'[j])
                        /\ j \in nudge'[n].pending \/ Grown(nudge'[n].before[j], stamp'[j])
      BY DEF Undisturbed
    <3>1. nudge[n].before[j] \in Count /\ stamp[j] \in Count /\ stamp'[j] \in Count
      BY <1>0, LedgerCounts DEF TypeOK, Ledger, Count
    <3>2. /\ AtMost(nudge[n].before[j], stamp[j])
          /\ j \in nudge[n].pending \/ Grown(nudge[n].before[j], stamp[j])
      BY <2>5 DEF Undisturbed
    <3>3. nudge'[n].before[j] = nudge[n].before[j]
      BY <2>2
    <3>4. AtMost(nudge[n].before[j], stamp'[j])
      BY <2>4, <3>1, <3>2, Counting
    <3>5. Grown(nudge[n].before[j], stamp[j]) \/ j = i => Grown(nudge[n].before[j], stamp'[j])
      BY <2>4, <3>1, <3>2, Counting
    <3> QED BY <2>3, <3>2, <3>3, <3>4, <3>5
  <2>6. \A n \in Session : (OnPar(n)' <=> OnPar(n)) /\ (Behind(n)' <=> Behind(n))
    BY <2>1, <2>2 DEF OnPar, Behind, Disturbances, env
  <2>7. \A n \in Session : Paced(n) => Paced(n)'
    BY <2>2, <2>5, <2>6 DEF Paced
  <2> QED BY <2>1, <2>7 DEF PaceInv, DueCounted, env
<1>10. ASSUME NEW i \in Provider, Toggle(i) PROVE PaceInv'
  <2>1. /\ UNCHANGED <<stamp, nudgeEpoch, nudge, faults, reloads>> /\ storms' = storms + 1
        /\ i \notin due /\ due' = due \cup {i}
    BY <1>10 DEF Toggle
  <2>2. IsFiniteSet(due') /\ Cardinality(due') = Cardinality(due) + 1
    BY <1>0, <2>1, DueGrows
  <2>3. \A n \in Session : (OnPar(n) => OnPar(n)') /\ (Behind(n) => Behind(n)')
    BY <1>1, <2>1, <2>2 DEF OnPar, Behind, Disturbances
  <2>4. \A n \in Session : Paced(n) => Paced(n)'
    BY <2>1, <2>3 DEF Paced, Undisturbed
  <2>5. DueCounted'
    BY <1>0, <1>1, <2>1, <2>2 DEF DueCounted
  <2> QED BY <2>1, <2>4, <2>5 DEF PaceInv
<1>11. ASSUME NEW n \in Session, Refreshed(n) PROVE PaceInv'
  <2>1. PICK p \in Phase : /\ nudge' = [nudge EXCEPT ![n].phase = p]
                           /\ \/ n # nudgeEpoch
                              \/ n = nudgeEpoch /\ (p = Verdict(n) \/ p = "failed")
                           /\ faults' = faults \/ faults' = faults + 1
    BY <1>11 DEF Refreshed
  <2>2. UNCHANGED <<due, stamp, nudgeEpoch, reloads, storms>>
    BY <1>11 DEF Refreshed
  <2>3. ASSUME NEW m \in Session, m # n
        PROVE  nudge'[m] = nudge[m]
    BY <1>0, <2>1, <2>3
  <2>4. \A m \in Session : nudge'[m].attempt = nudge[m].attempt
    BY <1>0, <2>1 DEF NudgeType
  <2>5. \A m \in Session : (OnPar(m) => OnPar(m)') /\ (Behind(m) => Behind(m)')
    BY <1>1, <2>1, <2>2, <2>4 DEF OnPar, Behind, Disturbances
  <2>6. ASSUME NEW m \in Session, m # n, Paced(m) PROVE Paced(m)'
    BY <2>2, <2>3, <2>5, <2>6 DEF Paced, Undisturbed
  <2>7. ASSUME n = nudgeEpoch PROVE Paced(n)'
    <3>1. nudge'[n].phase = p /\ p # "refreshing"
      BY <1>0, <2>1, <2>7 DEF NudgeType, Verdict
    <3>2. ASSUME p = "waiting" PROVE Behind(n)
      <4>1. Incomplete(n) # {}
        BY <2>1, <2>7, <3>2 DEF Verdict
      <4>2. PICK i \in Provider : stamp[i] = nudge[n].before[i]
        BY <4>1 DEF Incomplete
      <4>3. nudge[n].pending = {} /\ nudge[n].phase = "refreshing"
        BY <1>11 DEF Refreshed
      <4>4. ~Grown(stamp[i], stamp[i])
        BY <1>0, LedgerCounts DEF Grown, Count
      <4>5. ~Undisturbed(n)
        BY <4>2, <4>3, <4>4 DEF Undisturbed
      <4> QED BY <2>7, <4>3, <4>5 DEF PaceInv, Paced
    <3> QED BY <2>5, <3>1, <3>2 DEF Paced
  <2> QED BY <2>2, <2>6, <2>7 DEF PaceInv, DueCounted
<1>12. ASSUME NEW n \in Session, Timer(n) PROVE PaceInv'
  <2>1. CASE n = nudgeEpoch /\ Attempt(n, nudge[n].attempt + 1)
    <3>1. Behind(n)
      BY <1>12, <2>1 DEF PaceInv, Paced, Timer
    <3>2. nudge[n].attempt + 1 \in Nat /\ nudge[n].attempt + 1 + Cardinality(due) <= Disturbances
      BY <1>1, <3>1 DEF Behind
    <3>3. UNCHANGED <<due, stamp, env>> /\ nudgeEpoch' = n
      BY <1>12, <2>1 DEF Timer
    <3> QED BY <1>3, <2>1, <3>2, <3>3
  <2>2. CASE n # nudgeEpoch /\ nudge' = [nudge EXCEPT ![n].phase = "dropped"]
    <3>1. UNCHANGED <<due, stamp, nudgeEpoch, env>>
      BY <1>12 DEF Timer
    <3>2. ASSUME NEW m \in Session, m # n PROVE nudge'[m] = nudge[m]
      BY <1>0, <2>2, <3>2
    <3>3. ASSUME NEW m \in Session, m # n, Paced(m) PROVE Paced(m)'
      BY <3>1, <3>2, <3>3 DEF Paced, OnPar, Behind, Undisturbed, Disturbances, env
    <3> QED BY <2>2, <3>1, <3>3 DEF PaceInv, DueCounted, env
  <2> QED BY <1>12, <2>1, <2>2 DEF Timer
<1>13. CASE UNCHANGED vars
  BY <1>13 DEF vars, env, PaceInv, Paced, OnPar, Behind, Undisturbed, Disturbances, DueCounted
<1> QED BY <1>4, <1>5, <1>6, <1>7, <1>8, <1>9, <1>10, <1>11, <1>12, <1>13 DEF Next

(* A nudge gives up only after more disturbances than it has retries: each of *)
(* its attempts was disturbed by one of its own (Verdict).                    *)
THEOREM GivingUpIsLast == Spec => GivesUpLast
<1>1. RefreshInv /\ PaceInv /\ [Next]_vars
        => [\A n \in Session : nudge'[n].phase = "gaveUp" /\ nudge[n].phase # "gaveUp"
              => faults + reloads + storms > MaxRetries]_vars
  <2> SUFFICES ASSUME RefreshInv, PaceInv, [Next]_vars, NEW n \in Session,
                      nudge'[n].phase = "gaveUp", nudge[n].phase # "gaveUp"
               PROVE  faults + reloads + storms > MaxRetries
    OBVIOUS
  <2>0. TypeOK /\ nudge \in [Session -> NudgeType] /\ IsFiniteSet(due) /\ MaxRetries \in Nat
    BY NativeRefreshAssumption DEF RefreshInv, CatalogsWhole, TypeOK, NudgeType, PaceInv, DueCounted
  <2>1. PICK m \in Session : Refreshed(m)
    BY <2>0, OnlyVerdictsChange DEF Ended
  <2>2. PICK p \in Phase : /\ nudge' = [nudge EXCEPT ![m].phase = p]
                           /\ p = "gaveUp" => m = nudgeEpoch /\ p = Verdict(m)
    BY <2>1 DEF Refreshed
  <2>3. m = n /\ p = "gaveUp"
    BY <2>0, <2>2 DEF NudgeType
  <2>4. Incomplete(n) # {} /\ nudge[n].attempt >= MaxRetries
    BY <2>2, <2>3 DEF Verdict
  <2>5. PICK i \in Provider : stamp[i] = nudge[n].before[i]
    BY <2>4 DEF Incomplete
  <2>6. /\ nudge[n].pending = {} /\ nudge[n].phase = "refreshing"
        /\ ~Grown(stamp[i], stamp[i])
    BY <2>0, <2>1, <2>3, LedgerCounts DEF Refreshed, Grown, Count
  <2>7. ~Undisturbed(n)
    BY <2>5, <2>6 DEF Undisturbed
  <2>8. Behind(n)
    BY <2>2, <2>3, <2>6, <2>7 DEF PaceInv, Paced
  <2>9. Cardinality(due) \in Nat /\ Disturbances \in Nat /\ nudge[n].attempt \in Nat
    BY <2>0, Counts
  <2> QED BY <2>0, <2>4, <2>8, <2>9 DEF Behind, Disturbances
<1>2. Spec => []PaceInv
  BY PaceInit, PaceStep, Invariant, PTL DEF Spec
<1> QED BY <1>1, <1>2, Invariant, PTL DEF Spec, GivesUpLast
=============================================================================
