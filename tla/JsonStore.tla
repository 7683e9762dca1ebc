----------------------------- MODULE JsonStore -----------------------------
(* A JSON file that several processes keep in memory and write back:          *)
(* createJSONStore of lib/json-persistence.ts with its four users.            *)
(*   providers  lib/provider-cache.ts, written at once under the file lock,   *)
(*              by a guard that refuses lists which have shrunk               *)
(*   probes     lib/probe-cache.ts, written at once under the lock            *)
(*   telemetry  lib/telemetry.ts, updated under the lock, written later by a  *)
(*              timer or a flush, without it                                  *)
(*   opencode   lib/opencode-catalog-cache.ts, written at once, no lock, by a *)
(*              store that is made for each call                              *)
(* That one update at a time is under the lock is FileLock's Mutex.  A        *)
(* process does nothing else between its read and its write of the file.      *)
EXTENDS Naturals, FiniteSets

CONSTANTS Process, Call, Key, None,
          MaxExits      \* bound on the exits of processes

ASSUME JsonStoreAssumption ==
  /\ None \notin Call \cup Process \cup Key
  /\ MaxExits \in Nat

VARIABLES
  style,        \* which of the four files this is
  disk,         \* the file
  memo,         \* process -> `cached', or Absent
  timer,        \* process -> flushTimer is set
  call,         \* the calls
  holder,       \* the call between its read and its write under the lock
  exits,
  \* read by properties only
  missed,       \* process -> keys that others wrote since it last read or wrote
  own,          \* process -> keys it has updated and not written
  latest,       \* the file if every update were written at once
  disturbed     \* an update was dropped, or written over in a window
store == <<disk, memo, timer>>
ghost == <<missed, own, latest, disturbed>>
vars == <<style, store, call, holder, exits, ghost>>

(* What a key holds, as the guard tells it apart: nothing, a list of less     *)
(* than half the full one, the full one.                                      *)
Value == {"none", "small", "full"}
Content == [Key -> Value]
Absent == [k \in {} |-> "none"]

Idle == [stage |-> "idle", by |-> None, key |-> None, value |-> "none", flushes |-> FALSE,
         base |-> Absent]
Ended == [Idle EXCEPT !.stage = "done"]
Invocation == [stage : {"idle", "waiting", "writing", "flushing", "done"},
               by : Process \cup {None}, key : Key \cup {None},
               value : Value \cup {"empty"}, flushes : BOOLEAN,
               base : Content \cup {Absent}]

InLock == style # "opencode"
Debounced == style = "telemetry"
(* A process in the middle of a call's synchronous part runs nothing else. *)
Free(p) == \A c \in Call : call[c].by = p => call[c].stage # "writing"

(* The updaters: one key, or all of them for clearTelemetry. *)
Updated(content, c) ==
  IF call[c].key = None THEN [k \in Key |-> "none"]
                        ELSE [content EXCEPT ![call[c].key] = call[c].value]
Touched(c) == IF call[c].key = None THEN Key ELSE {call[c].key}

Init ==
  /\ style \in {"providers", "probes", "telemetry", "opencode"}
  /\ disk \in Content
  /\ memo = [p \in Process |-> Absent]
  /\ timer = [p \in Process |-> FALSE]
  /\ call = [c \in Call |-> Idle]
  /\ holder = None /\ exits = 0
  /\ missed = [p \in Process |-> {}] /\ own = [p \in Process |-> {}]
  /\ latest = disk /\ disturbed = FALSE

----------------------------------------------------------------------------
(* load: the memo, or the file, which becomes the memo *)
Seen(p) == IF memo[p] = Absent THEN disk ELSE memo[p]
Loaded(p) ==
  /\ memo' = [memo EXCEPT ![p] = Seen(p)]
  /\ missed' = [missed EXCEPT ![p] = IF memo[p] = Absent THEN {} ELSE @]

Load(p) ==
  /\ InLock /\ Free(p) /\ Loaded(p)
  /\ UNCHANGED <<style, disk, timer, call, holder, exits, own, latest, disturbed>>

(* bug: an empty list counts as a list *)
WorthKeepingOrEmpty(p, k, v) == ~(Seen(p)[k] = "full" /\ v = "small")
(* saveProviderCacheGuarded: no empty list, and none that has shrunk a lot *)
WorthKeeping(p, k, v) == v # "empty" /\ ~(Seen(p)[k] = "full" /\ v = "small")

(* A call enters: it is refused, or waits for the lock (or, without one, for *)
(* its turn).                                                                *)
Invoke(c, p) ==
  /\ call[c] = Idle /\ Free(p)
  /\ \E k \in Key \cup {None}, v \in {"empty", "small", "full"}, f \in BOOLEAN :
       LET waiting == [Idle EXCEPT !.stage = "waiting", !.by = p, !.key = k,
                                   !.value = v, !.flushes = f]
       IN /\ k = None => style = "telemetry" /\ f
          /\ f => style = "telemetry"
          /\ IF style = "providers"
             THEN /\ Loaded(p)
                  /\ call' = [call EXCEPT ![c] = IF WorthKeeping(p, k, v) THEN waiting
                                                                        ELSE Ended]
             ELSE /\ v # "empty"
                  /\ call' = [call EXCEPT ![c] = waiting]
                  /\ UNCHANGED <<memo, missed>>
  /\ UNCHANGED <<style, disk, timer, holder, exits, own, latest, disturbed>>

----------------------------------------------------------------------------
(* update: the read *)

(* bug: the memo is taken for the file *)
BaseMemo(p) == Seen(p)
(* bug: the file is read although a write is pending *)
BaseDisk(p) == disk
Base(p) == IF timer[p] /\ memo[p] # Absent THEN memo[p] ELSE disk

Read(c) ==
  LET p == call[c].by IN
  /\ call[c].stage = "waiting" /\ Free(p)
  /\ InLock => holder = None
  /\ holder' = IF InLock THEN c ELSE holder
  /\ call' = [call EXCEPT ![c].stage = "writing", ![c].base = Base(p)]
  /\ missed' = [missed EXCEPT ![p] = IF timer[p] THEN @ ELSE {}]
  /\ UNCHANGED <<style, store, exits, own, latest, disturbed>>

(* The lock is not had in time: the update rejects. *)
TimeOut(c) ==
  /\ InLock /\ call[c].stage = "waiting" /\ holder \notin {c, None}
  /\ call' = [call EXCEPT ![c] = Ended]
  /\ UNCHANGED <<style, store, holder, exits, ghost>>

(* writeDisk by process p of its updates to `keys': the others miss those, and *)
(* whatever else changed                                                      *)
Written(p, content, keys) ==
  /\ disk' = content
  /\ missed' = [q \in Process |-> IF q = p THEN {}
                                  ELSE missed[q] \cup keys \cup {k \in Key : content[k] # disk[k]}]
  /\ own' = [own EXCEPT ![p] = {}]
(* ... or the write throws, which is logged *)
NotWritten == disturbed' = TRUE /\ UNCHANGED <<disk, missed, own>>

(* update: the updater and save.  A debounced save only sets the timer anew.  *)
Save(c) ==
  LET p == call[c].by
      updated == Updated(call[c].base, c)
  IN /\ call[c].stage = "writing"
     /\ holder' = IF InLock THEN None ELSE holder
     /\ memo' = IF InLock THEN [memo EXCEPT ![p] = updated] ELSE memo
     /\ latest' = Updated(latest, c)
     /\ call' = [call EXCEPT ![c] = IF @.flushes THEN [@ EXCEPT !.stage = "flushing"] ELSE Ended]
     /\ \/ /\ Debounced
           /\ timer' = [timer EXCEPT ![p] = TRUE]
           /\ own' = [own EXCEPT ![p] = @ \cup Touched(c)]
           /\ UNCHANGED <<disk, missed, disturbed>>
        \/ /\ ~Debounced /\ UNCHANGED timer
           /\ \/ Written(p, updated, Touched(c)) /\ disturbed' = (disturbed \/ missed[p] # {})
              \/ NotWritten
     /\ UNCHANGED <<style, exits>>

(* The timer, and flush, which writes the memo whether the timer is set or not *)
WriteMemo(p) ==
  /\ timer' = [timer EXCEPT ![p] = FALSE]
  /\ \/ Written(p, memo[p], own[p]) /\ disturbed' = (disturbed \/ missed[p] # {})
     \/ NotWritten
  /\ UNCHANGED <<style, memo, holder, exits, latest>>

TimerFires(p) == timer[p] /\ Free(p) /\ WriteMemo(p) /\ UNCHANGED call

Flush(c) ==
  /\ call[c].stage = "flushing" /\ Free(call[c].by)
  /\ WriteMemo(call[c].by)
  /\ call' = [call EXCEPT ![c] = Ended]

(* A process exits, or is killed; another takes its place.  The lock it may   *)
(* have held is busted.                                                       *)
Exit(p) ==
  /\ exits < MaxExits /\ exits' = exits + 1
  /\ memo' = [memo EXCEPT ![p] = Absent]
  /\ timer' = [timer EXCEPT ![p] = FALSE]
  /\ call' = [c \in Call |-> IF call[c].by = p THEN Ended ELSE call[c]]
  /\ holder' = IF holder # None /\ call[holder].by = p THEN None ELSE holder
  /\ missed' = [missed EXCEPT ![p] = {}] /\ own' = [own EXCEPT ![p] = {}]
  /\ disturbed' = (disturbed \/ own[p] # {})
  /\ UNCHANGED <<style, disk, latest>>

Next ==
  \/ \E p \in Process : Load(p) \/ TimerFires(p) \/ Exit(p)
  \/ \E c \in Call : Read(c) \/ TimeOut(c) \/ Save(c) \/ Flush(c)
                     \/ \E p \in Process : Invoke(c, p)

Spec == Init /\ [][Next]_vars

----------------------------------------------------------------------------
(* Types; an empty list is never stored. *)
TypeOK ==
  /\ style \in {"providers", "probes", "telemetry", "opencode"}
  /\ disk \in Content /\ latest \in Content
  /\ memo \in [Process -> Content \cup {Absent}]
  /\ timer \in [Process -> BOOLEAN]
  /\ call \in [Call -> Invocation]
  /\ holder \in Call \cup {None} /\ exits \in Nat
  /\ missed \in [Process -> SUBSET Key] /\ own \in [Process -> SUBSET Key]
  /\ disturbed \in BOOLEAN

(* A window of process p: an update is not written yet, a flush is still to   *)
(* come, or there is no lock.                                                 *)
Window(p) ==
  \/ timer[p]
  \/ \E c \in Call : call[c].by = p /\ (call[c].stage = "flushing" \/ ~InLock)

(* A write changes only what its process has updated.  It undoes an update of *)
(* another process only if that came within its own window, the limitation    *)
(* that update names in its comment: a base is never older than that.         *)
Isolated ==
  [][\A k \in Key : disk'[k] # disk[k] =>
       \E p \in Process :
         \/ k \in own[p]
         \/ \E c \in Call : Save(c) /\ call[c].by = p /\ k \in Touched(c)
         \/ k \in missed[p] /\ Window(p)]_vars

(* When all calls are through and no write is pending, the file holds the     *)
(* latest update of every key, unless an update was dropped or came within    *)
(* another process's window.  Updates of one process are never lost to each   *)
(* other, whether they are written or not.                                    *)
DurableAtRest ==
  /\ ~disturbed
  /\ \A p \in Process : ~timer[p]
  /\ \A c \in Call : call[c].stage \notin {"writing", "flushing"}
  => disk = latest
============================================================================
