----------------------------- MODULE FetchRetry -----------------------------
(* One catalog request of lib/fetch.ts: fetchWithRetry over fetchWithTimeout, *)
(* for a caller that may race it against withFetchDeadline and may abort it.  *)
(* The gateway answers when it likes, or never.                               *)
EXTENDS Naturals

CONSTANT MaxRetries

VARIABLES
  retries, deadlined,   \* how the call was made
  phase,                \* "next", "fetching", "failed", "backoff", "body", "ended"
  tried,                \* attempts so far
  timer, linked,        \* of fetchWithTimeout
  aborted,              \* the caller's signal
  lastError, answer,    \* of the attempts; of the call
  caller,               \* what the caller has seen
  \* read by properties only
  sent, abortedAt       \* requests that left, and those before the abort
vars == <<retries, deadlined, phase, tried, timer, linked, aborted, lastError, answer, caller,
          sent, abortedAt>>

Init ==
  /\ retries \in 1..MaxRetries /\ deadlined \in BOOLEAN
  /\ phase = "next" /\ tried = 0 /\ timer = FALSE /\ linked = FALSE /\ aborted \in BOOLEAN
  /\ lastError = "none" /\ answer = "none" /\ caller = "waits"
  /\ sent = 0 /\ abortedAt = 0

(* the finally of fetchWithTimeout *)
LetGo == timer' = FALSE /\ linked' = FALSE

(* bug: the signal is read when the call is made only *)
UpstreamAbortedNever == FALSE
UpstreamAborted == aborted

FetchWithTimeout ==
  /\ phase = "next" /\ tried < retries
  /\ tried' = tried + 1
  /\ IF UpstreamAborted
     THEN phase' = "failed" /\ lastError' = "abort" /\ UNCHANGED <<timer, linked, sent>>
     ELSE /\ phase' = "fetching" /\ timer' = TRUE /\ linked' = TRUE /\ sent' = sent + 1
          /\ UNCHANGED lastError
  /\ UNCHANGED <<retries, deadlined, aborted, answer, caller, abortedAt>>

(* The headers are there.  A good answer, and one that no retry would change, *)
(* is returned; from here on neither timer nor signal ends the wait for the   *)
(* body.  A server error is slept over without a look at the signal.          *)
Answer(status) ==
  /\ phase = "fetching" /\ LetGo
  /\ CASE status \in {"ok", "refused"} ->
            phase' = "body" /\ answer' = status /\ UNCHANGED lastError
       [] status = "limit" -> phase' = "failed" /\ lastError' = "limit" /\ UNCHANGED answer
       [] OTHER -> /\ phase' = IF tried < retries THEN "backoff" ELSE "failed"
                   /\ lastError' = "server" /\ UNCHANGED answer
  /\ UNCHANGED <<retries, deadlined, tried, aborted, caller, sent, abortedAt>>

(* no connection, the timer, or the caller's abort *)
Reject(why) ==
  /\ phase = "fetching" /\ LetGo
  /\ why = "timeout" => timer
  /\ phase' = "failed" /\ lastError' = why
  /\ UNCHANGED <<retries, deadlined, tried, aborted, answer, caller, sent, abortedAt>>

Abort ==
  /\ ~aborted /\ phase # "ended" /\ aborted' = TRUE /\ abortedAt' = sent
  /\ IF phase = "fetching" /\ linked
     THEN LetGo /\ phase' = "failed" /\ lastError' = "abort"
     ELSE UNCHANGED <<timer, linked, phase, lastError>>
  /\ UNCHANGED <<retries, deadlined, tried, answer, caller, sent>>

(* the catch, and the throw after the loop *)
FetchWithRetry ==
  /\ phase = "failed"
  /\ IF aborted \/ tried >= retries THEN phase' = "ended" /\ answer' = lastError
     ELSE phase' = "backoff" /\ UNCHANGED answer
  /\ UNCHANGED <<retries, deadlined, tried, timer, linked, aborted, lastError, caller, sent,
                 abortedAt>>

Sleep ==
  /\ phase = "backoff" /\ phase' = "next"
  /\ UNCHANGED <<retries, deadlined, tried, timer, linked, aborted, lastError, answer, caller,
                 sent, abortedAt>>

Body ==
  /\ phase = "body" /\ phase' = "ended"
  /\ UNCHANGED <<retries, deadlined, tried, timer, linked, aborted, lastError, answer, caller,
                 sent, abortedAt>>

(* the race: what ends first is what the caller gets; the rest is dropped *)
Settle ==
  /\ phase = "ended" /\ caller = "waits" /\ caller' = answer
  /\ UNCHANGED <<retries, deadlined, phase, tried, timer, linked, aborted, lastError, answer,
                 sent, abortedAt>>

WithFetchDeadline ==
  /\ deadlined /\ caller = "waits" /\ caller' = "late"
  /\ UNCHANGED <<retries, deadlined, phase, tried, timer, linked, aborted, lastError, answer,
                 sent, abortedAt>>

Next ==
  \/ FetchWithTimeout \/ FetchWithRetry \/ Sleep \/ Body \/ Settle \/ WithFetchDeadline \/ Abort
  \/ \E status \in {"ok", "refused", "limit", "server"} : Answer(status)
  \/ \E why \in {"network", "timeout"} : Reject(why)

(* timers fire and what is ready runs; the gateway owes nothing *)
Runs == FetchWithTimeout \/ FetchWithRetry \/ Sleep \/ Settle \/ Reject("timeout")
Fairness == WF_vars(Runs) /\ WF_vars(WithFetchDeadline)
Spec == Init /\ [][Next]_vars /\ Fairness

----------------------------------------------------------------------------
TypeOK ==
  /\ phase \in {"next", "fetching", "failed", "backoff", "body", "ended"}
  /\ tried \in 0..retries /\ sent \in 0..tried
  /\ timer \in BOOLEAN /\ linked \in BOOLEAN
  /\ (timer <=> phase = "fetching") /\ (linked <=> phase = "fetching")
  /\ lastError \in {"none", "abort", "limit", "server", "network", "timeout"}

(* After an abort nothing is sent any more, and the call ends with an error   *)
(* at the latest after the sleep it was in, unless headers had come; a call   *)
(* throws only its last attempt's error, and not before the last attempt but  *)
(* for an abort (fetchWithRetry).                                             *)
FetchSound ==
  /\ aborted => sent = abortedAt
  /\ phase = "ended" /\ answer \notin {"ok", "refused"} =>
       /\ answer = lastError
       /\ aborted \/ tried = retries
  /\ caller \notin {"waits", "late"} => caller = answer

(* Every call has headers or an error in the end, however the gateway is, and *)
(* a caller with a deadline always goes on, though a body may never come.     *)
FetchEnds == /\ <>(phase \in {"body", "ended"})
             /\ deadlined => <>(caller # "waits")
=============================================================================
