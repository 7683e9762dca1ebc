-------------------------- MODULE InfronCooldown --------------------------
(* The handlers of infron-continuation.ts and the part of Pi that calls them: *)
(* a run asks the model, Pi retries by itself, and at the settle of a run     *)
(* that ended with Infron's rate limit the extension has Pi continue, and     *)
(* holds the continuation in its agent_start until the limit has passed.      *)
(* The user types, picks models and aborts at any time.                       *)
EXTENDS Naturals

CONSTANTS Model,        \* models of Infron that the user picks from
          MaxRetries,   \* of Pi
          MaxTickets    \* bound on the rate limits met

VARIABLES cooldown,     \* the ticket, or NoTicket
          held,         \* the ticket that an agent_start handler waits with
          run,          \* Pi's run: "idle", "starting", "waiting", "woken", "asking", "ended"
          origin,       \* who started it: "user", "retry" or "auto"
          signal,       \* of the run: "quiet", "aborted" or "absent"
          model,        \* the current one
          asked,        \* the one that the request went to
          outcome,      \* of the run's last message
          pending,      \* the user typed while the run was underway
          retries, tickets,
          stopped       \* origins of the runs that a handler aborted
vars == <<cooldown, held, run, origin, signal, model, asked, outcome, pending, retries,
          tickets, stopped>>

NoTicket == [id |-> 0, phase |-> "none", cancelled |-> FALSE, model |-> CHOOSE m \in Model : TRUE]
Init ==
  /\ cooldown = NoTicket /\ held = NoTicket /\ run = "idle" /\ origin = "user"
  /\ signal = "quiet" /\ model \in Model /\ asked = model /\ outcome = "ok"
  /\ pending = FALSE /\ retries = 0 /\ tickets = 0 /\ stopped = {}

----------------------------------------------------------------------------
(* cancel: a waiting ticket wakes its handler, an observed one is dropped, an *)
(* armed one stays for its run to be aborted                                  *)

Cancelled(t) == [t EXCEPT !.cancelled = TRUE]
Live == cooldown # NoTicket /\ ~cooldown.cancelled

(* bug: an armed ticket is dropped like an observed one *)
AfterCancelDropped ==
  IF Live /\ cooldown.phase \in {"observed", "armed"} THEN NoTicket
  ELSE IF Live THEN Cancelled(cooldown) ELSE cooldown
AfterCancel == IF Live /\ cooldown.phase = "observed" THEN NoTicket
               ELSE IF Live THEN Cancelled(cooldown) ELSE cooldown

Woken == cooldown # NoTicket /\ held.id = cooldown.id /\ run = "waiting"
Cancel(left) ==
  /\ cooldown' = left
  /\ held' = IF Live /\ held.id = cooldown.id THEN Cancelled(held) ELSE held

(* abort of the handler: the run asks no more *)
Abort == /\ run' = "ended" /\ outcome' = "aborted" /\ signal' = "aborted"
         /\ stopped' = stopped \cup {origin}

----------------------------------------------------------------------------
(* the user *)

(* bug: the ticket of the run before is kept *)
AfterPromptKept == AfterCancel
AfterPrompt == NoTicket

(* input and before_agent_start of a prompt *)
Prompt ==
  /\ run = "idle" /\ Cancel(AfterPrompt)
  /\ run' = "starting" /\ origin' = "user" /\ signal' \in {"quiet", "absent"}
  /\ retries' = 0 /\ pending' = FALSE
  /\ UNCHANGED <<model, asked, outcome, tickets, stopped>>

(* input while a run is underway *)
Steer ==
  /\ run # "idle" /\ ~pending /\ pending' = TRUE /\ Cancel(AfterCancel)
  /\ run' = IF Woken /\ Live THEN "woken" ELSE run
  /\ UNCHANGED <<origin, signal, model, asked, outcome, retries, tickets, stopped>>

(* model_select *)
Select ==
  /\ \E m \in Model : m # model /\ model' = m
  /\ Cancel(AfterCancel)
  /\ run' = IF Woken /\ Live THEN "woken" ELSE run
  /\ UNCHANGED <<origin, signal, asked, outcome, pending, retries, tickets, stopped>>

(* Escape: the signal of the run *)
Escape ==
  /\ signal = "quiet" /\ run \in {"starting", "waiting", "asking"} /\ signal' = "aborted"
  /\ IF run = "asking" THEN run' = "ended" /\ outcome' = "aborted"
     ELSE run' = (IF run = "waiting" THEN "woken" ELSE run) /\ UNCHANGED outcome
  /\ cooldown' = IF run = "asking" THEN NoTicket ELSE cooldown
  /\ UNCHANGED <<held, origin, model, asked, pending, retries, tickets, stopped>>

(* a new session: the run of the old one ends with it *)
SessionStart ==
  /\ cooldown' = NoTicket /\ held' = NoTicket /\ run' = "idle" /\ pending' = FALSE
  /\ UNCHANGED <<origin, signal, model, asked, outcome, retries, tickets, stopped>>

----------------------------------------------------------------------------
(* agent_start *)

Ask == run' = "asking" /\ asked' = model
Start ==
  /\ run = "starting"
  /\ \/ /\ cooldown.phase # "armed"
        /\ IF signal = "aborted" THEN run' = "ended" /\ outcome' = "aborted" /\ UNCHANGED asked
                                 ELSE Ask /\ UNCHANGED outcome
        /\ UNCHANGED <<cooldown, held, signal, stopped>>
     \/ /\ cooldown.phase = "armed" /\ (signal # "quiet" \/ cooldown.cancelled)
        /\ cooldown' = NoTicket /\ Abort /\ UNCHANGED <<held, asked>>
     \/ /\ cooldown.phase = "armed" /\ signal = "quiet" /\ ~cooldown.cancelled
        /\ \E typed \in BOOLEAN :      \* the notification lets the user in
             /\ cooldown' = [cooldown EXCEPT !.phase = "waiting", !.cancelled = typed]
             /\ held' = cooldown' /\ run' = IF typed THEN "woken" ELSE "waiting"
        /\ UNCHANGED <<asked, outcome, signal, stopped>>
  /\ UNCHANGED <<origin, model, pending, retries, tickets>>

(* the time is up: the ticket is not asked yet whether it was cancelled *)
Elapse ==
  /\ run = "waiting" /\ run' = "woken" /\ held' = [held EXCEPT !.phase = "elapsed"]
  /\ UNCHANGED <<cooldown, origin, signal, model, asked, outcome, pending, retries, tickets,
                 stopped>>

(* the rest of the handler *)
GoOn == held.phase = "elapsed" /\ ~held.cancelled
Resume ==
  /\ run = "woken" /\ held' = NoTicket
  /\ cooldown' = IF cooldown.id = held.id THEN NoTicket ELSE cooldown
  /\ IF GoOn THEN Ask /\ UNCHANGED <<outcome, signal, stopped>>
     ELSE /\ UNCHANGED asked
          /\ IF signal # "aborted" THEN Abort
             ELSE run' = "ended" /\ outcome' = "aborted" /\ UNCHANGED <<signal, stopped>>
  /\ UNCHANGED <<origin, model, pending, retries, tickets>>

----------------------------------------------------------------------------
(* the answer, and what Pi makes of it *)

(* retryDelay: a limit that names no delay, or one too long, is an error like *)
(* any other                                                                  *)
Outcome == {"ok", "error", "limit"}

(* message_end *)
MessageEnd ==
  /\ run = "asking" /\ run' = "ended" /\ outcome' \in Outcome
  /\ IF outcome' = "limit"
     THEN /\ tickets < MaxTickets /\ tickets' = tickets + 1
          /\ cooldown' = [id |-> tickets', phase |-> "observed", cancelled |-> FALSE, model |-> asked]
     ELSE cooldown' = NoTicket /\ UNCHANGED tickets
  /\ UNCHANGED <<held, origin, signal, model, asked, pending, retries, stopped>>

Failed == outcome \in {"error", "limit"}
Retry ==
  /\ run = "ended" /\ Failed /\ retries < MaxRetries /\ retries' = retries + 1
  /\ run' = "starting" /\ origin' = "retry"
  /\ UNCHANGED <<cooldown, held, signal, model, asked, outcome, pending, tickets, stopped>>

(* bug: the ticket's model is not compared with the current one *)
ContinuesAnyModel(claimed) ==
  /\ cooldown.phase = "observed" /\ ~cooldown.cancelled /\ Failed /\ ~claimed /\ ~pending
Continues(claimed) ==
  /\ cooldown.phase = "observed" /\ ~cooldown.cancelled /\ Failed /\ ~claimed /\ ~pending
  /\ cooldown.model = model

(* agent_before_settle; another extension may have claimed the continuation;  *)
(* Pi may still drop a continuation that was asked for                        *)
Settle ==
  /\ run = "ended"
  /\ \E claimed \in BOOLEAN :
       /\ cooldown' = IF Continues(claimed) THEN [cooldown EXCEPT !.phase = "armed"]
                      ELSE IF cooldown.phase = "observed" THEN NoTicket ELSE cooldown
       /\ \/ /\ Continues(claimed) \/ claimed \/ pending
             /\ run' = "starting" /\ origin' = IF Continues(claimed) THEN "auto" ELSE "user"
          \/ run' = "idle" /\ UNCHANGED origin
  /\ signal' = "quiet" /\ pending' = FALSE /\ retries' = 0
  /\ UNCHANGED <<held, model, asked, outcome, tickets, stopped>>

Pi == Start \/ Resume \/ MessageEnd \/ Retry \/ Settle
Next == Prompt \/ Steer \/ Select \/ Escape \/ SessionStart \/ Elapse \/ Pi

(* timers fire and handlers go on *)
Fairness == WF_vars(Elapse) /\ WF_vars(Resume)
Spec == Init /\ [][Next]_vars /\ Fairness

----------------------------------------------------------------------------
(* Types of the tickets and of Pi's run. *)
TypeOK ==
  /\ {cooldown.phase, held.phase} \subseteq {"none", "observed", "armed", "waiting", "elapsed"}
  /\ run \in {"idle", "starting", "waiting", "woken", "asking", "ended"}
  /\ origin \in {"user", "retry", "auto"} /\ signal \in {"quiet", "aborted", "absent"}
  /\ outcome \in {"ok", "error", "limit", "aborted"} /\ retries <= MaxRetries
  /\ tickets <= MaxTickets

(* A request that Pi makes by continuing is made only after the limit passed, *)
(* to the model that met the limit: whoever typed, picked or pressed Escape   *)
(* in between has stopped it.                                                 *)
HeldBack ==
  [][run' = "asking" /\ run # "asking" /\ origin = "auto" =>
       run = "woken" /\ held.phase = "elapsed" /\ ~held.cancelled /\ held.model = model]_vars

(* No run but a continuation is ever aborted by the extension, and no handler *)
(* waits with a ticket that was cancelled.                                    *)
OnlyOwnStopped ==
  /\ stopped \subseteq {"auto"}
  /\ run = "waiting" => ~held.cancelled

(* A handler that waits goes on, however long the run's user stays away. *)
WaitsEnd == run = "waiting" ~> run # "waiting"
============================================================================
