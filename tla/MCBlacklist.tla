---------------------------- MODULE MCBlacklist ----------------------------
(* Blacklist (extended; symmetric in keys), the verdicts of auto-fallback and *)
(* its notices, the records of model calls, the log file and the startup      *)
(* ledger share no state: a behaviour is one of them, and the others stay as  *)
(* they began.                                                                *)
EXTENDS Blacklist, FiniteSets, TLC

CONSTANTS MAX_LOG_BYTES, LOG_BACKUP_COUNT, MaxLines, MaxFlushes, MaxFaults,
          Provider, Work, Detached, MaxEntries, MaxSessions, MaxReports,
          Id, FreeId, MAX_RECENT_CALLS, IN_FLIGHT_TTL, MAX_SANE_LATENCY, QUOTA_TTL,
          MaxCallRuns, MaxTurns, MaxResponses, MaxSelects,
          WINDOW, MaxRuns, Horizon

ASSUME JournalsAssumption ==
  /\ {MAX_LOG_BYTES, LOG_BACKUP_COUNT, MAX_RECENT_CALLS} \subseteq Nat \ {0}
  /\ {IN_FLIGHT_TTL, MAX_SANE_LATENCY, QUOTA_TTL, WINDOW, Horizon} \subseteq Nat
  /\ IsFiniteSet(Provider) /\ IsFiniteSet(Work) /\ {"window", "none"} \cap Work = {}

VARIABLE part

VARIABLES disk, stream, at, pendingStreamLines, flying, landed, queuedLines, logBytes,
          logStreamUnavailable, ready, step, timers, logged, flushes, faults, retired, counted,
          settled, early, raced
logVars == <<disk, stream, at, pendingStreamLines, flying, landed, queuedLines, logBytes,
             logStreamUnavailable, ready, step, timers, logged, flushes, faults, retired, counted,
             settled, early, raced>>

VARIABLES entry, runEntries, runner, handlersRegisteredFor, listeners, setup, queue, running,
          underway, session, state, reports, returned
ledgerVars == <<entry, runEntries, runner, handlersRegisteredFor, listeners, setup, queue, running,
                underway, session, state, reports, returned>>

VARIABLES current, run, clock, pendingCallIds, inFlight, recent, stats, quota, counters, statusBar,
          turns, responses, selects, calls, bad, stray, wrong
callVars == <<current, run, clock, pendingCallIds, inFlight, recent, stats, quota, counters,
              statusBar, turns, responses, selects, calls, bad, stray, wrong>>

VARIABLES env, file, load, lastStatus, time, runs, notifier, buffer, switchWindow, activeSince, bar,
          era, toasts, kept
verdictVars == <<env, file, load, lastStatus, time, runs, notifier, buffer, switchWindow,
                 activeSince, bar, era, toasts, kept>>
allVars == <<part, vars, logVars, ledgerVars, callVars, verdictVars>>

Logger == INSTANCE LogFile
Ledger == INSTANCE StartupLedger WITH entries <- runEntries, calls <- reports, MaxCalls <- MaxReports
Calls == INSTANCE CallRecords WITH now <- clock, MaxTime <- Horizon, MaxRuns <- MaxCallRuns
Verdicts == INSTANCE FallbackVerdicts WITH now <- time, windowStart <- switchWindow, MaxTime <- Horizon

(* The parts that are not chosen have one initial state.                      *)
MCInit ==
  /\ part \in {"blacklist", "log", "ledger", "calls", "verdicts"}
  /\ Init /\ Logger!Init /\ Ledger!Init /\ Calls!Init /\ Verdicts!Init
  /\ part # "log" => disk[0] = <<>>
  /\ part # "calls" => current = CHOOSE m \in Calls!Model : TRUE
  /\ part # "verdicts" => env = file /\ env.on = "unset"

MCNext ==
  \/ part = "blacklist" /\ Next
       /\ UNCHANGED <<part, logVars, ledgerVars, callVars, verdictVars>>
  \/ part = "log" /\ Logger!Next /\ UNCHANGED <<part, vars, ledgerVars, callVars, verdictVars>>
  \/ part = "ledger" /\ Ledger!Next /\ UNCHANGED <<part, vars, logVars, callVars, verdictVars>>
  \/ part = "calls" /\ Calls!Next /\ UNCHANGED <<part, vars, logVars, ledgerVars, verdictVars>>
  \/ part = "verdicts" /\ Verdicts!Next /\ UNCHANGED <<part, vars, logVars, ledgerVars, callVars>>

MCSpec == MCInit /\ [][MCNext]_allVars

(* What is written down of a session is complete and of the right session: no *)
(* line of the log is lost without a trace, reordered or left waiting, across *)
(* rotations, write errors and flushes; the startup ledger accounts for every *)
(* setup, handler and failure; a model call is filed with its own run; and a  *)
(* run that failed is judged the same whatever has loaded, an aborted one too *)
(* but for some server errors, and switches are told in a toast per window    *)
(* (logger.ts, startup-timing.ts, telemetry.ts, quota-monitor.ts and          *)
(* lib/auto-fallback).                                                        *)
JournalsSound ==
  CASE part = "log" -> Logger!LogKept [] part = "ledger" -> Ledger!LedgerSound
    [] part = "calls" -> Calls!RecordsSound [] part = "verdicts" -> Verdicts!VerdictsSound
    [] OTHER -> TRUE

Symmetry == Permutations(Key)
============================================================================
