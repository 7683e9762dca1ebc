---------------------------- MODULE DeviceLogin ----------------------------
(* The logins that poll for a token: loginKilo of providers/kilo/kilo-auth.ts *)
(* and loginQoder with runDeviceFlow of providers/qoder/auth.ts.  The user    *)
(* approves or denies on the provider's page; each poll takes time, in which  *)
(* the clock runs, the user acts and the login may be cancelled.  Qoder tries *)
(* a personal access token of the environment, then one that is entered.      *)
EXTENDS Naturals

CONSTANTS ExpiresIn,    \* the lifetime of Kilo's code, in poll intervals
          MaxAttempts,  \* Qoder's maxAttempts
          Latency       \* bound on the time a poll takes

VARIABLES flow,         \* "kilo" or "qoder"
          pc,           \* the await the login is in
          now,
          deadline,     \* Kilo's, set once the code is there
          wake,         \* end of the sleep underway, or of the patience with a poll
          attempt,      \* Qoder's polls
          page,         \* what the provider has from the user
          reply,        \* what the poll underway will answer
          polledAt,     \* when the last poll was answered by the provider
          decidedAt,    \* when the user decided
          aborted, outcome
trace == <<polledAt, decidedAt>>
vars == <<flow, pc, now, deadline, wake, attempt, page, reply, trace, aborted, outcome>>

Outcome == {"none", "in", "cancelled", "timed out", "denied", "expired", "failed"}

Init ==
  /\ flow \in {"kilo", "qoder"} /\ pc = IF flow = "kilo" THEN "initiate" ELSE "pat"
  /\ now = 0 /\ deadline = 0 /\ wake = 0 /\ attempt = 0
  /\ polledAt = 0 /\ decidedAt = 0
  /\ page = "pending" /\ reply = "none" /\ aborted = FALSE /\ outcome = "none"

Over(how) == /\ pc' = "over" /\ outcome' = how
             /\ UNCHANGED <<flow, now, deadline, wake, attempt, page, trace, aborted>>

----------------------------------------------------------------------------
(* the provider, the user and the clock *)

(* sleeps and polls end in time; what the other requests take changes nothing *)
Tick ==
  /\ pc \in {"sleep", "poll", "answered"} /\ now < wake /\ now' = now + 1
  /\ UNCHANGED <<flow, pc, deadline, wake, attempt, page, reply, trace, aborted, outcome>>

Decide ==
  /\ page = "pending" /\ pc \in {"sleep", "poll", "answered"}
  /\ page' \in {"approved", "denied"} /\ decidedAt' = now
  /\ UNCHANGED <<flow, pc, now, deadline, wake, attempt, reply, polledAt, aborted, outcome>>

(* a sleep or a request with the signal ends at once; Kilo's poll has none *)
Abort ==
  /\ ~aborted /\ pc # "over" /\ aborted' = TRUE
  /\ IF pc = "sleep" \/ (flow = "qoder" /\ pc \in {"poll", "answered"})
     THEN pc' = "over" /\ outcome' = "cancelled" ELSE UNCHANGED <<pc, outcome>>
  /\ UNCHANGED <<flow, now, deadline, wake, attempt, page, reply, trace>>

----------------------------------------------------------------------------
(* the loop: an attempt begins with a sleep of one interval *)

(* bug: the deadline is checked with the sleep already added *)
MoreEarly(d, n) == IF flow = "kilo" THEN now + 1 < d ELSE n < MaxAttempts
More(d, n) == IF flow = "kilo" THEN now < d ELSE n < MaxAttempts

Loop(d, n) ==
  /\ deadline' = d
  /\ IF More(d, n) /\ ~aborted
     THEN pc' = "sleep" /\ wake' = now + 1 /\ attempt' = n + 1 /\ outcome' = outcome
     ELSE /\ pc' = "over" /\ outcome' = IF More(d, n) THEN "cancelled" ELSE "timed out"
          /\ UNCHANGED <<wake, attempt>>
  /\ UNCHANGED <<flow, now, page, trace, aborted>>

(* Kilo's code; an abort during the request is seen by the loop *)
Initiate ==
  /\ pc = "initiate"
  /\ (Loop(now + ExpiresIn, 0) \/ Over("failed")) /\ UNCHANGED reply

(* Qoder's token of the environment: a failing exchange falls through, to a   *)
(* prompt where Pi has one                                                    *)
EnvironmentPat ==
  /\ pc = "pat"
  /\ \/ Over("in") \/ Over("failed")
     \/ /\ pc' = "prompt"
        /\ UNCHANGED <<flow, now, deadline, wake, attempt, page, trace, aborted, outcome>>
  /\ UNCHANGED reply

(* the user closes the prompt, answers with a token or leaves it empty *)
Prompted ==
  /\ pc = "prompt" /\ UNCHANGED reply
  /\ \/ Over("failed")
     \/ aborted /\ Over("cancelled")
     \/ ~aborted /\ Loop(deadline, 0)
     \/ /\ ~aborted /\ pc' = "entered"
        /\ UNCHANGED <<flow, now, deadline, wake, attempt, page, trace, aborted, outcome>>

(* the entered token is exchanged, with requests that know no signal *)
EnteredPat == pc = "entered" /\ (Over("in") \/ Over("failed")) /\ UNCHANGED reply

Wake ==
  /\ pc = "sleep" /\ now = wake
  /\ pc' = "poll" /\ wake' = now + Latency
  /\ UNCHANGED <<flow, now, deadline, attempt, page, reply, trace, aborted, outcome>>

(* the provider answers: pending as long as the user has not decided *)
Answer ==
  /\ pc = "poll" /\ pc' = "answered" /\ polledAt' = now
  /\ reply' \in {page, "expired", "failed"}
  /\ UNCHANGED <<flow, now, deadline, wake, attempt, page, decidedAt, aborted, outcome>>

(* Qoder's provider has no answer of its own for a denial or an expiry *)
Meaning == CASE reply = "approved" -> "in"
             [] reply \in {"denied", "expired"} /\ flow = "kilo" -> reply
             [] OTHER -> "failed"

(* the answer arrives; an approval without a token fails; Qoder's profile      *)
(* request, which knows no signal, comes before the end                       *)
Arrive ==
  /\ pc = "answered" /\ reply' = "none"
  /\ \/ reply = "pending" /\ Loop(deadline, attempt)
     \/ reply # "pending" /\ (flow = "kilo" \/ reply # "approved") /\ Over(Meaning)
     \/ reply = "approved" /\ Over("failed")
     \/ /\ reply = "approved" /\ flow = "qoder" /\ pc' = "profile"
        /\ UNCHANGED <<flow, now, deadline, wake, attempt, page, trace, aborted, outcome>>

Profile == pc = "profile" /\ Over("in") /\ UNCHANGED reply

Login == Initiate \/ EnvironmentPat \/ EnteredPat \/ Wake \/ Answer \/ Arrive \/ Profile
Next == Tick \/ Decide \/ Abort \/ Prompted \/ Login

(* timers and requests come to their end; the user may neither answer the     *)
(* prompt nor decide on the page                                              *)
Fairness == WF_vars(Tick) /\ WF_vars(Login)
Spec == Init /\ [][Next]_vars /\ Fairness

----------------------------------------------------------------------------
(* Types of the login's state. *)
TypeOK ==
  /\ flow \in {"kilo", "qoder"} /\ outcome \in Outcome /\ aborted \in BOOLEAN
  /\ pc \in {"initiate", "pat", "prompt", "entered", "sleep", "poll", "answered", "profile", "over"}
  /\ {now, deadline, wake, attempt, polledAt, decidedAt} \subseteq Nat
  /\ page \in {"pending", "approved", "denied"}
  /\ reply \in {"none", "pending", "approved", "denied", "expired", "failed"}

(* A login that times out has overlooked a decision only if the provider had  *)
(* answered the last poll before the user made it.  Kilo's last poll is       *)
(* answered no earlier than the time a poll takes before the deadline, which  *)
(* has passed; Qoder's is the last of all its attempts.                       *)
TimesOutLate ==
  outcome = "timed out" =>
    /\ page # "pending" => decidedAt >= polledAt
    /\ IF flow = "kilo" THEN now >= deadline /\ polledAt + Latency >= deadline
                        ELSE attempt = MaxAttempts

(* After a cancellation no further poll is sent, and the login succeeds only  *)
(* with an answer that was underway: a request which knows no signal.         *)
CancelStops ==
  [][aborted => /\ pc' = "poll" => pc = "poll"
                /\ outcome' = "in" /\ outcome = "none" =>
                     \/ pc \in {"pat", "entered", "profile"}
                     \/ flow = "kilo" /\ pc = "answered"]_vars

(* Every login comes to its end, whether or not the user ever decides on the  *)
(* page; only a prompt waits for as long as the user leaves it open.          *)
LoginEnds == <>(pc = "over") \/ <>[](pc = "prompt")
============================================================================
