--------------------------- MODULE StartupLedger ---------------------------
(* What /free-startup and /pi-free-health report: lib/startup-timing.ts and   *)
(* lib/session-start-metrics.ts, as piFreeEntry of index.ts, the session      *)
(* starts of Pi and the providers write to them.  A reload enters again with  *)
(* a new runner, or with the same; Pi calls the listeners of an event one     *)
(* after the other and awaits each.  Times are left out.                      *)
EXTENDS Naturals, SequencesExt

CONSTANTS Provider,      \* the providers that are set up
          Work,          \* handlers of session_start, in Detached or not
          Detached,      \* those that are wrapped with { detached: true }
          MaxEntries, MaxSessions, MaxCalls

VARIABLES
  entry,        \* where piFreeEntry stands: "out", "handlers", "providers", "in"
  entries, runner,
  handlersRegisteredFor,
  listeners,    \* of session_start in the current runner, in order
  setup,        \* provider -> its setup in this entry
  queue,        \* listeners that this session start has still to call
  running,      \* the handler that Pi awaits, or "none"
  underway,     \* detached work, with the session in which it began
  session,
  state,        \* _state of the ledger
  calls,
  returned      \* read by properties only: handlers that returned in this run's session
vars == <<entry, entries, runner, handlersRegisteredFor, listeners, setup, queue, running,
          underway, session, state, calls, returned>>

None == "none"
NoCounts == [hits |-> 0, fetches |-> 0, ok |-> 0, failed |-> 0, aborts |-> 0, retained |-> 0]
FreshState ==
  [finalized |-> FALSE, phases |-> {}, open |-> {}, providers |-> <<>>, cacheHits |-> 0,
   networkFetches |-> 0, network |-> [p \in Provider |-> NoCounts],
   handlers |-> <<>>, detached |-> <<>>, failures |-> <<>>]

Init ==
  /\ entry = "out" /\ entries = 0 /\ runner = 0 /\ handlersRegisteredFor = 0
  /\ listeners = <<>> /\ setup = [p \in Provider |-> "none"]
  /\ queue = <<>> /\ running = None /\ underway = {} /\ session = 0
  /\ state = FreshState /\ calls = 0 /\ returned = {}

----------------------------------------------------------------------------
(* the ledger *)

StartPhase(s, name) == [s EXCEPT !.open = @ \cup {name}]
EndPhase(s, name) ==
  IF name \in s.open THEN [s EXCEPT !.open = @ \ {name}, !.phases = @ \cup {name}] ELSE s

(* bug: the failures are kept *)
NewWindowPartly(s) == [s EXCEPT !.handlers = <<>>, !.detached = <<>>]
(* beginSessionStart *)
NewWindow(s) == [s EXCEPT !.handlers = <<>>, !.detached = <<>>, !.failures = <<>>]

Failing(s, w, ok) == IF ok THEN s ELSE [s EXCEPT !.failures = Append(@, w)]
HandlerRecorded(s, w, ok) ==
  Failing([s EXCEPT !.handlers = Append(@, [work |-> w, ok |-> ok])], w, ok)
DetachedRecorded(s, w, ok) ==
  Failing([s EXCEPT !.detached = Append(@, [work |-> w, ok |-> ok])], w, ok)

----------------------------------------------------------------------------
(* piFreeEntry *)

(* bug: the entry registers its handlers each time *)
RegistersAlways(r) == TRUE
Registers(r) == handlersRegisteredFor # r

(* what one registration and the providers' setups listen with: the window is *)
(* opened before any handler of a provider runs                              *)
Window == <<"window">>
Handlers == SetToSeq(Work)

Enter ==
  /\ entry \in {"out", "in"} /\ queue = <<>> /\ running = None
  /\ entries < MaxEntries /\ entries' = entries + 1
  /\ runner' \in {runner, runner + 1} \ {0}
  /\ state' = StartPhase(FreshState, "global-handlers")
  /\ handlersRegisteredFor' = runner'
  /\ LET own == IF runner' = runner THEN listeners ELSE <<>>
     IN listeners' = own \o (IF Registers(runner') THEN Window ELSE <<>>)
  /\ entry' = "handlers" /\ setup' = [p \in Provider |-> "none"] /\ returned' = {}
  /\ UNCHANGED <<queue, running, underway, session, calls>>

(* the handlers are in place; every setup begins, and those that listen do so *)
(* again, also in a runner that knows them                                    *)
SetupsBegin ==
  /\ entry = "handlers" /\ entry' = "providers"
  /\ state' = StartPhase(EndPhase(state, "global-handlers"), "providers")
  /\ setup' = [p \in Provider |-> "running"] /\ listeners' = listeners \o Handlers
  /\ UNCHANGED <<entries, runner, handlersRegisteredFor, queue, running, underway, session, calls,
                 returned>>

(* timeProvider records and throws on; allSettled waits for all *)
SetupEnds(p) ==
  /\ setup[p] = "running"
  /\ \E ok \in BOOLEAN :
       /\ setup' = [setup EXCEPT ![p] = IF ok THEN "ok" ELSE "failed"]
       /\ state' = [state EXCEPT !.providers = Append(@, [provider |-> p, ok |-> ok])]
  /\ UNCHANGED <<entry, entries, runner, handlersRegisteredFor, listeners, queue, running, underway,
                 session, calls, returned>>

(* bug: the first that fails ends the entry *)
AllThereOrFailed ==
  (\E p \in Provider : setup[p] = "failed") \/ \A p \in Provider : setup[p] = "ok"
AllSettled == \A p \in Provider : setup[p] \in {"ok", "failed"}

(* toggles, the filter, and the end: no await in between *)
EntryEnds ==
  /\ entry = "providers" /\ AllSettled /\ entry' = "in"
  /\ state' = [EndPhase(state, "providers") EXCEPT
                 !.finalized = TRUE, !.phases = @ \cup {"built-in-toggles", "global-filter"}]
  /\ UNCHANGED <<entries, runner, handlersRegisteredFor, listeners, setup, queue, running, underway,
                 session, calls, returned>>

----------------------------------------------------------------------------
(* session starts *)

SessionStart ==
  /\ entry = "in" /\ queue = <<>> /\ running = None /\ session < MaxSessions
  /\ session' = session + 1 /\ queue' = listeners /\ returned' = {}
  /\ UNCHANGED <<entry, entries, runner, handlersRegisteredFor, listeners, setup, running, underway,
                 state, calls>>

(* A handler throws or returns at once, is awaited, or leaves its work behind *)
(* and is recorded as returned.                                               *)
Listener ==
  /\ queue # <<>> /\ running = None /\ queue' = Tail(queue)
  /\ LET w == Head(queue)
     IN \/ w = "window" /\ state' = NewWindow(state) /\ UNCHANGED <<running, underway, returned>>
        \/ /\ w \in Work
           /\ \/ running' = w /\ w \notin Detached /\ UNCHANGED <<underway, state, returned>>
              \/ /\ returned' = returned \cup {w} /\ UNCHANGED running
                 /\ \/ w \in Detached /\ underway' = underway \cup {[work |-> w, session |-> session]}
                       /\ state' = HandlerRecorded(state, w, TRUE)
                    \/ \E ok \in BOOLEAN : state' = HandlerRecorded(state, w, ok)
                       /\ UNCHANGED underway
  /\ UNCHANGED <<entry, entries, runner, handlersRegisteredFor, listeners, setup, session, calls>>

Awaited ==
  /\ running # None /\ running' = None /\ returned' = returned \cup {running}
  /\ \E ok \in BOOLEAN : state' = HandlerRecorded(state, running, ok)
  /\ UNCHANGED <<entry, entries, runner, handlersRegisteredFor, listeners, setup, queue, underway,
                 session, calls>>

(* trackDetachedSessionStart: in whatever session the work ends *)
DetachedEnds ==
  /\ \E u \in underway : \E ok \in BOOLEAN :
       underway' = underway \ {u} /\ state' = DetachedRecorded(state, u.work, ok)
  /\ UNCHANGED <<entry, entries, runner, handlersRegisteredFor, listeners, setup, queue, running,
                 session, calls, returned>>

----------------------------------------------------------------------------
(* what the providers report, any time *)

Reports ==
  /\ calls < MaxCalls /\ calls' = calls + 1
  /\ \E p \in Provider :
       \/ \E ok \in BOOLEAN :
            state' = [state EXCEPT !.networkFetches = @ + 1, !.network[p].fetches = @ + 1,
                        !.network[p].ok = IF ok THEN @ + 1 ELSE @,
                        !.network[p].failed = IF ok THEN @ ELSE @ + 1]
       \/ state' = [state EXCEPT !.cacheHits = @ + 1, !.network[p].hits = @ + 1]
       \/ state' = [state EXCEPT !.network[p].aborts = @ + 1]
       \/ state' = [state EXCEPT !.network[p].retained = @ + 1]
  /\ UNCHANGED <<entry, entries, runner, handlersRegisteredFor, listeners, setup, queue, running,
                 underway, session, returned>>

Next == \/ Enter \/ SetupsBegin \/ EntryEnds \/ (\E p \in Provider : SetupEnds(p))
        \/ SessionStart \/ Listener \/ Awaited \/ DetachedEnds \/ Reports
Spec == Init /\ [][Next]_vars

----------------------------------------------------------------------------
(* formatHealthReport: what is wrong, as far as the ledger knows *)
Problems ==
  ToSet(state.failures)
    \cup {r.provider : r \in {x \in ToSet(state.providers) : ~x.ok}}
    \cup {p \in Provider : state.network[p].failed + state.network[p].aborts
                             + state.network[p].retained > 0}

(* A finalized run has timed every setup exactly once, with its outcome,      *)
(* whichever of them failed, and has no phase open.                           *)
SetupsAccounted ==
  state.finalized =>
    /\ state.open = {} /\ Len(state.providers) = Cardinality(Provider)
    /\ \A p \in Provider : [provider |-> p, ok |-> setup[p] = "ok"] \in ToSet(state.providers)

(* Whatever listeners a reload has added, the window holds every handler that *)
(* returned in this session, and its failures are those of its records.       *)
WindowHoldsSession ==
  /\ \A w \in returned : \E r \in ToSet(state.handlers) : r.work = w
  /\ \A w \in Work : w \in ToSet(state.failures) <=>
       \E r \in ToSet(state.handlers) \cup ToSet(state.detached) : r.work = w /\ ~r.ok

(* Nothing that went wrong in this run is missing in the health report.       *)
HealthKnows ==
  /\ \A p \in Provider : setup[p] = "failed" => p \in Problems
  /\ state.networkFetches = SumFunction([p \in Provider |-> state.network[p].fetches])

LedgerSound == SetupsAccounted /\ WindowHoldsSession /\ HealthKnows
============================================================================
