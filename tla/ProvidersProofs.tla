-------------------------- MODULE ProvidersProofs --------------------------
(* Proofs about the logins, the refreshes of tokens, Qoder's stream, Infron's *)
(* continuation, Kilo's leak handler, the catalog requests and the models.dev *)
(* cache, for any ports, providers, tools, life times, delays, limits and     *)
(* bounds.                                                                    *)
EXTENDS MCProviders, SequenceTheorems, NaturalsInduction, WellFoundedInduction,
        FiniteSetTheorems, TLAPS

----------------------------------------------------------------------------
(* loginCline: the server is open from the scan's end until the wait for the  *)
(* code is settled, and only the browser's callback settles it with a code.   *)
ClineInv ==
  /\ TypeOK /\ FirstCodeWins
  /\ pc = "scan" => waitForCode = "pending"
  /\ pc \in {"scan", "exchange", "over"} \/ waitForCode # "pending" => server = Closed
  /\ pc \in {"authorize", "wait"} /\ waitForCode = "pending" => server.open /\ server.timer
  /\ waitForCode = "code" => code.from = "browser"

LEMMA ClineStarts == Init => ClineInv
BY DEF Init, ClineInv, TypeOK, FirstCodeWins, Closed

(* settling takes everything down, whoever settles *)
LEMMA SettledClosed ==
  ASSUME ClineInv, NEW value \in {"code"} \cup Failures, Settle(value)
  PROVE  /\ waitForCode' \in {"code"} \cup Failures
         /\ server' = Closed
         /\ waitForCode' = IF waitForCode = "pending" THEN value ELSE waitForCode
BY DEF ClineInv, TypeOK, Settle, TakenDown

LEMMA EndKept ==
  ASSUME ClineInv, NEW how \in {"in"} \cup Failures, End(how), UNCHANGED code
  PROVE  ClineInv'
<1>1. "cancelled" \in {"code"} \cup Failures
  BY DEF Failures
<1>2. /\ waitForCode' \in {"code"} \cup Failures /\ server' = Closed
      /\ waitForCode' = IF waitForCode = "pending" THEN "cancelled" ELSE waitForCode
  BY <1>1, SettledClosed DEF End
<1>3. Closed \in [open : BOOLEAN, timer : BOOLEAN, listener : BOOLEAN]
  BY DEF Closed
<1> QED
  BY <1>2, <1>3 DEF ClineInv, End, TypeOK, FirstCodeWins

LEMMA ExchangingKept ==
  ASSUME ClineInv, pc = "wait", NEW c \in Code \cup {NoCode}, Exchanging(c),
         \/ waitForCode = "code" /\ c = code /\ UNCHANGED <<server, waitForCode>>
         \/ waitForCode = "pending" /\ c.from = "user" /\ Settle("cancelled")
  PROVE  ClineInv'
<1>1. "cancelled" \in {"code"} \cup Failures /\ "cancelled" # "code"
  BY DEF Failures
<1>2. Closed \in [open : BOOLEAN, timer : BOOLEAN, listener : BOOLEAN]
  BY DEF Closed
<1>3. c.provider \in Providers \cup {NoProvider}
  BY DEF Code, NoCode
<1>4. untried' \subseteq Providers \cup {NoProvider}
  BY <1>3 DEF Exchanging, Candidates
<1>5. CASE waitForCode = "code" /\ c = code /\ UNCHANGED <<server, waitForCode>>
  BY <1>4, <1>5 DEF ClineInv, Exchanging, TypeOK, FirstCodeWins
<1>6. CASE waitForCode = "pending" /\ c.from = "user" /\ Settle("cancelled")
  <2>1. waitForCode' = "cancelled" /\ waitForCode' \in {"code"} \cup Failures /\ server' = Closed
    BY <1>1, <1>6, SettledClosed
  <2> QED
    BY <1>2, <1>4, <1>6, <2>1 DEF ClineInv, Exchanging, TypeOK, FirstCodeWins
<1> QED
  BY <1>5, <1>6

LEMMA ClineStep == ClineInv /\ (Next \/ UNCHANGED vars) => ClineInv'
<1> SUFFICES ASSUME ClineInv, Next \/ UNCHANGED vars PROVE ClineInv'
  OBVIOUS
<1>0. /\ {"cancelled", "timed out", "bad callback", "no port", "listen failed",
          "authorize failed", "no code", "exchange failed"} = Failures
      /\ Closed \in [open : BOOLEAN, timer : BOOLEAN, listener : BOOLEAN]
      /\ ~Closed.open /\ ~Closed.timer /\ ~Closed.listener
  BY DEF Failures, Closed
<1>1. CASE Listen
  <2>1. pc = "scan" /\ waitForCode = "pending" /\ server = Closed
    BY <1>1 DEF Listen, ClineInv
  <2>2. CASE pc' = "authorize" /\ signal # "aborted" /\ server' = Listening
             /\ UNCHANGED <<waitForCode, port, outcome>>
    <3>1. server'.open /\ server'.timer
          /\ server' \in [open : BOOLEAN, timer : BOOLEAN, listener : BOOLEAN]
      BY <2>2 DEF Listening
    <3> QED
      BY <1>1, <2>1, <2>2, <3>1 DEF Listen, ClineInv, TypeOK, FirstCodeWins
  <2>3. CASE pc' = "authorize" /\ Settle("cancelled") /\ UNCHANGED <<port, outcome>>
    <3>1. waitForCode' = "cancelled" /\ server' = Closed
      BY <1>0, <2>1, <2>3, SettledClosed
    <3> QED
      BY <1>0, <1>1, <2>1, <2>3, <3>1 DEF Listen, ClineInv, TypeOK, FirstCodeWins
  <2>4. CASE port' = port + 1 /\ UNCHANGED <<server, waitForCode, pc, outcome>>
    BY <1>1, <2>1, <2>4 DEF Listen, ClineInv, TypeOK, FirstCodeWins
  <2>5. CASE pc' = "over" /\ outcome' = "listen failed" /\ UNCHANGED <<server, waitForCode, port>>
    BY <1>0, <1>1, <2>1, <2>5 DEF Listen, ClineInv, TypeOK, FirstCodeWins
  <2> QED
    BY <1>1, <2>2, <2>3, <2>4, <2>5 DEF Listen
<1>2. CASE NoPort
  BY <1>0, <1>2 DEF NoPort, ClineInv, TypeOK, FirstCodeWins
<1>3. CASE Request \/ ServerTimeout
  <2>1. waitForCode = "pending" /\ pc \in {"authorize", "wait"}
    BY <1>0, <1>3 DEF Request, ServerTimeout, ClineInv, TypeOK
  <2>2. PICK value \in {"code", "timed out", "bad callback"} :
          /\ Settle(value)
          /\ IF value = "code" THEN \E c \in Code : c.from = "browser" /\ code' = c
                               ELSE code' = code
          /\ UNCHANGED <<pc, signal, byHand, port, untried, outcome>>
    BY <1>3 DEF Request, ServerTimeout
  <2>3. waitForCode' = value /\ server' = Closed
    BY <1>0, <2>1, <2>2, SettledClosed
  <2> QED
    BY <1>0, <2>1, <2>2, <2>3 DEF ClineInv, TypeOK, FirstCodeWins
<1>4. CASE Abort
  <2>1. CASE server.listener
    <3>1. waitForCode = "pending" /\ pc \in {"authorize", "wait"}
      BY <1>0, <2>1 DEF ClineInv, TypeOK
    <3>2. waitForCode' = "cancelled" /\ server' = Closed
      BY <1>0, <1>4, <2>1, <3>1, SettledClosed DEF Abort
    <3> QED
      BY <1>0, <1>4, <3>1, <3>2 DEF Abort, ClineInv, TypeOK, FirstCodeWins
  <2>2. CASE ~server.listener
    BY <1>4, <2>2 DEF Abort, ClineInv, TypeOK, FirstCodeWins
  <2> QED
    BY <2>1, <2>2
<1>5. CASE Authorized
  BY <1>5 DEF Authorized, ClineInv, TypeOK, FirstCodeWins
<1>6. CASE AuthorizeFails
  BY <1>0, <1>6, EndKept DEF AuthorizeFails
<1>7. CASE Local
  <2>1. CASE waitForCode = "code"
    <3>1. code \in Code \cup {NoCode}
      BY DEF ClineInv, TypeOK
    <3> QED
      BY <1>7, <2>1, <3>1, ExchangingKept DEF Local
  <2>2. CASE waitForCode # "code"
    <3>1. waitForCode \in {"in"} \cup Failures
      BY <1>7, <2>2 DEF Local, Heard, ClineInv, TypeOK
    <3> QED
      BY <1>7, <2>2, <3>1, EndKept DEF Local
  <2> QED
    BY <2>1, <2>2
<1>8. CASE Manual
  <2>1. CASE (End("cancelled") \/ End("no code")) /\ UNCHANGED code
    BY <1>0, <2>1, EndKept
  <2>2. CASE \E c \in Code : c.from = "user" /\ Exchanging(c) /\ Settle("cancelled")
    BY <1>8, <2>2, ExchangingKept DEF Manual
  <2> QED
    BY <1>8, <2>1, <2>2 DEF Manual
<1>9. CASE Dismiss
  BY <1>0, <1>9, EndKept DEF Dismiss
<1>10. CASE Exchange
  <2>1. CASE (End("in") \/ End("exchange failed")) /\ UNCHANGED code
    BY <1>0, <2>1, EndKept
  <2>2. CASE \E p \in NextCandidate :
               /\ untried' = untried \ {p}
               /\ UNCHANGED <<pc, signal, byHand, port, server, waitForCode, code, outcome>>
    BY <2>2 DEF ClineInv, TypeOK, FirstCodeWins
  <2> QED
    BY <1>10, <2>1, <2>2 DEF Exchange
<1>11. CASE UNCHANGED vars
  BY <1>11 DEF vars, ClineInv, TypeOK, FirstCodeWins
<1> QED
  BY <1>1, <1>2, <1>3, <1>4, <1>5, <1>6, <1>7, <1>8, <1>9, <1>10, <1>11 DEF Next

LEMMA ClineReleases == ClineInv => TypeOK /\ PortReleased /\ FirstCodeWins
BY DEF ClineInv, PortReleased

(* Only an exchange that was not aborted logs in. *)
LEMMA AbortedClineStaysOut ==
  ASSUME ClineInv, Next \/ UNCHANGED vars, signal = "aborted", outcome = "none"
  PROVE  outcome' # "in"
BY DEF ClineInv, TypeOK, Failures, Next, Listen, NoPort, Request, ServerTimeout, Abort, Authorized,
  AuthorizeFails, Local, Heard, Exchanging, Manual, Dismiss, Exchange, MayAnswer, End, vars

----------------------------------------------------------------------------
(* The loops that poll: a login that was aborted does not sleep, one that     *)
(* polls with the signal does not poll on, and the clock does not run past    *)
(* the end of a sleep or of the patience with a poll.                         *)
DeviceInv ==
  /\ Device!TypeOK /\ Device!TimesOutLate
  /\ aborted => at # "sleep" /\ (flow = "qoder" => at \notin {"poll", "answered"})
  /\ at # "over" => end = "none"
  /\ flow = "kilo" => at \in {"initiate", "sleep", "poll", "answered", "over"}
  /\ flow = "qoder" => at # "initiate" /\ attempt <= MaxAttempts
  /\ at \in {"pat", "prompt"} => attempt = 0
  /\ at = "initiate" => now = 0
  /\ at \in {"sleep", "poll", "answered"} => now <= wake
  /\ at = "poll" => wake <= now + Latency
  /\ at = "answered" => wake <= polledAt + Latency /\ polledAt <= now
  /\ at \in {"initiate", "pat", "prompt", "entered"} => page = "pending"
  /\ at = "answered" /\ reply = "pending" /\ page # "pending" => decidedAt >= polledAt

LEMMA DeviceStarts == Device!Init => DeviceInv
<1> SUFFICES ASSUME Device!Init PROVE DeviceInv
  OBVIOUS
<1>1. MaxAttempts \in Nat /\ at # "over" /\ at \in {"initiate", "pat"} /\ (at = "pat" <=> flow = "qoder")
  BY ProvidersAssumption DEF Device!Init
<1>2. Device!TypeOK
  <2>1. {now, deadline, wake, attempt, polledAt, decidedAt} \subseteq Nat
    BY DEF Device!Init
  <2>2. end \in Device!Outcome /\ aborted \in BOOLEAN
    BY DEF Device!Init, Device!Outcome
  <2> QED
    BY <1>1, <2>1, <2>2 DEF Device!Init, Device!TypeOK
<1> QED
  BY <1>1, <1>2 DEF Device!Init, DeviceInv, Device!TimesOutLate

LEMMA OverKept ==
  ASSUME DeviceInv, at # "over", NEW how \in Device!Outcome \ {"timed out"}, Device!Over(how),
         reply' \in {"none", reply}
  PROVE  DeviceInv'
BY DEF DeviceInv, Device!Over, Device!trace, Device!TypeOK, Device!TimesOutLate

(* The loop goes on or times out.  It times out at the deadline, or after the *)
(* last attempt; a poll that was answered before was sent long enough ago.    *)
LEMMA LoopKept ==
  ASSUME DeviceInv, NEW d \in Nat, NEW n \in Nat, Device!Loop(d, n),
         reply' \in {"none", reply},
         \/ at = "initiate" /\ d = ExpiresIn /\ n = 0
         \/ at = "prompt" /\ d = deadline /\ n = attempt
         \/ at = "answered" /\ reply = "pending" /\ d = deadline /\ n = attempt
  PROVE  DeviceInv'
<1>0. /\ ExpiresIn \in Nat /\ MaxAttempts \in Nat /\ Latency \in Nat
      /\ now \in Nat /\ deadline \in Nat /\ wake \in Nat /\ attempt \in Nat /\ polledAt \in Nat
      /\ decidedAt \in Nat
      /\ flow \in {"kilo", "qoder"} /\ end = "none"
  BY ProvidersAssumption DEF DeviceInv, Device!TypeOK
<1>1. CASE Device!More(d, n) /\ ~aborted
  <2>1. /\ at' = "sleep" /\ wake' = now + 1 /\ attempt' = n + 1 /\ end' = end /\ deadline' = d
        /\ UNCHANGED <<flow, now, page, polledAt, decidedAt, aborted>>
    BY <1>1 DEF Device!Loop, Device!trace
  <2>2. flow = "qoder" => attempt' <= MaxAttempts
    BY <1>0, <1>1, <2>1 DEF Device!More
  <2> QED
    BY <1>0, <1>1, <2>1, <2>2 DEF DeviceInv, Device!TypeOK, Device!TimesOutLate, Device!Outcome
<1>2. CASE Device!More(d, n) /\ aborted
  <2>1. /\ at' = "over" /\ end' = "cancelled" /\ deadline' = d
        /\ UNCHANGED <<flow, now, page, polledAt, decidedAt, aborted, wake, attempt>>
    BY <1>2 DEF Device!Loop, Device!trace
  <2> QED
    BY <1>0, <2>1 DEF DeviceInv, Device!TypeOK, Device!TimesOutLate, Device!Outcome
<1>3. CASE ~Device!More(d, n)
  <2>1. /\ at' = "over" /\ end' = "timed out" /\ deadline' = d
        /\ UNCHANGED <<flow, now, page, polledAt, decidedAt, aborted, wake, attempt>>
    BY <1>3 DEF Device!Loop, Device!trace
  <2>2. flow = "kilo" => now >= d /\ polledAt + Latency >= d
    BY <1>0, <1>3 DEF DeviceInv, Device!More
  <2>3. flow = "qoder" => attempt = MaxAttempts
    BY <1>0, <1>3 DEF DeviceInv, Device!More
  <2>4. page # "pending" => decidedAt >= polledAt
    BY DEF DeviceInv
  <2> QED
    BY <1>0, <2>1, <2>2, <2>3, <2>4 DEF DeviceInv, Device!TypeOK, Device!TimesOutLate, Device!Outcome
<1> QED
  BY <1>1, <1>2, <1>3

LEMMA DeviceStep == DeviceInv /\ (Device!Next \/ UNCHANGED deviceVars) => DeviceInv'
<1> SUFFICES ASSUME DeviceInv, Device!Next \/ UNCHANGED deviceVars PROVE DeviceInv'
  OBVIOUS
<1>0. /\ ExpiresIn \in Nat /\ MaxAttempts \in Nat /\ Latency \in Nat
      /\ now \in Nat /\ deadline \in Nat /\ wake \in Nat /\ attempt \in Nat /\ polledAt \in Nat
      /\ decidedAt \in Nat
      /\ flow \in {"kilo", "qoder"}
  BY ProvidersAssumption DEF DeviceInv, Device!TypeOK
<1>a. \A how \in {"none", "in", "cancelled", "denied", "expired", "failed"} :
        how \in Device!Outcome \ {"timed out"}
  BY DEF Device!Outcome
<1>1. CASE Device!Tick
  <2>1. now' = now + 1 /\ now' <= wake /\ now' \in Nat
    BY <1>0, <1>1 DEF Device!Tick, Device!trace
  <2>2. UNCHANGED <<flow, at, deadline, wake, attempt, page, reply, polledAt, decidedAt, aborted, end>>
        /\ at \in {"sleep", "poll", "answered"}
    BY <1>1 DEF Device!Tick, Device!trace
  <2>3. Device!TypeOK'
    BY <2>1, <2>2 DEF DeviceInv, Device!TypeOK
  <2>4. Device!TimesOutLate'
    BY <2>2 DEF DeviceInv, Device!TimesOutLate
  <2>5. /\ at = "poll" => wake <= now' + Latency
        /\ at = "answered" => polledAt <= now'
        /\ at # "over" /\ at # "initiate"
    BY <1>0, <2>1, <2>2 DEF DeviceInv
  <2> QED
    BY <2>1, <2>2, <2>3, <2>4, <2>5 DEF DeviceInv
<1>2. CASE Device!Decide
  BY <1>0, <1>2 DEF Device!Decide, DeviceInv, Device!TypeOK, Device!TimesOutLate
<1>3. CASE Device!Abort
  BY <1>0, <1>3 DEF Device!Abort, Device!trace, DeviceInv, Device!TypeOK, Device!TimesOutLate, Device!Outcome
<1>4. CASE Device!Initiate
  <2>1. now + ExpiresIn = ExpiresIn /\ now + ExpiresIn \in Nat
    BY <1>0, <1>4 DEF Device!Initiate, DeviceInv
  <2>2. CASE Device!Loop(now + ExpiresIn, 0)
    BY <1>4, <2>1, <2>2, LoopKept DEF Device!Initiate
  <2>3. CASE Device!Over("failed")
    BY <1>a, <1>4, <2>3, OverKept DEF Device!Initiate
  <2> QED
    BY <1>4, <2>2, <2>3 DEF Device!Initiate
<1>5. CASE Device!EnvironmentPat
  <2>1. CASE (Device!Over("in") \/ Device!Over("failed")) /\ UNCHANGED reply
    BY <1>a, <1>5, <2>1, OverKept DEF Device!EnvironmentPat
  <2> QED
    BY <1>0, <1>5, <2>1 DEF Device!EnvironmentPat, Device!trace, DeviceInv, Device!TypeOK, Device!TimesOutLate
<1>6. CASE Device!Prompted
  <2>1. CASE (Device!Over("failed") \/ Device!Over("cancelled")) /\ UNCHANGED reply
    BY <1>a, <1>6, <2>1, OverKept DEF Device!Prompted
  <2>2. CASE Device!Loop(deadline, 0) /\ UNCHANGED reply
    BY <1>0, <1>6, <2>2, LoopKept DEF Device!Prompted, DeviceInv
  <2> QED
    BY <1>0, <1>6, <2>1, <2>2
    DEF Device!Prompted, Device!trace, DeviceInv, Device!TypeOK, Device!TimesOutLate
<1>7. CASE Device!EnteredPat
  BY <1>a, <1>7, OverKept DEF Device!EnteredPat
<1>8. CASE Device!Wake
  <2>1. at = "sleep" /\ at' = "poll" /\ wake' = now + Latency /\ wake' \in Nat /\ now <= wake'
    BY <1>0, <1>8 DEF Device!Wake, Device!trace
  <2>2. UNCHANGED <<flow, now, deadline, attempt, page, reply, polledAt, decidedAt, aborted, end>>
    BY <1>8 DEF Device!Wake, Device!trace
  <2>3. Device!TypeOK'
    BY <2>1, <2>2 DEF DeviceInv, Device!TypeOK
  <2> QED
    BY <1>0, <2>1, <2>2, <2>3 DEF DeviceInv, Device!TimesOutLate
<1>9. CASE Device!Answer
  <2>1. reply' \in {"none", "pending", "approved", "denied", "expired", "failed"}
    BY <1>9 DEF Device!Answer, DeviceInv, Device!TypeOK
  <2> QED
    BY <1>0, <1>9, <2>1 DEF Device!Answer, DeviceInv, Device!TypeOK, Device!TimesOutLate
<1>10. CASE Device!Arrive
  <2>1. CASE reply = "pending" /\ Device!Loop(deadline, attempt)
    BY <1>0, <1>10, <2>1, LoopKept DEF Device!Arrive
  <2>2. CASE reply # "pending" /\ (Device!Over(Device!Meaning) \/ Device!Over("failed"))
    <3>1. Device!Meaning \in Device!Outcome \ {"timed out"}
      BY <1>a DEF Device!Meaning, DeviceInv, Device!TypeOK
    <3> QED
      BY <1>a, <1>10, <2>2, <3>1, OverKept DEF Device!Arrive
  <2> QED
    BY <1>0, <1>10, <2>1, <2>2 DEF Device!Arrive, Device!trace, DeviceInv, Device!TypeOK, Device!TimesOutLate
<1>11. CASE Device!Profile
  BY <1>a, <1>11, OverKept DEF Device!Profile
<1>12. CASE UNCHANGED deviceVars
  BY <1>12, ZenonT(40) DEF deviceVars, DeviceInv, Device!TypeOK, Device!TimesOutLate
<1> QED
  BY <1>1, <1>2, <1>3, <1>4, <1>5, <1>6, <1>7, <1>8, <1>9, <1>10, <1>11, <1>12
  DEF Device!Next, Device!Login

(* After an abort no poll is sent, and only a request that knows no signal    *)
(* still brings a token.                                                      *)
LEMMA AbortedDeviceStaysOut ==
  ASSUME DeviceInv, Device!Next \/ UNCHANGED deviceVars, aborted
  PROVE  /\ at' = "poll" => at = "poll"
         /\ end' = "in" /\ end = "none" =>
              at \in {"pat", "entered", "profile"} \/ (flow = "kilo" /\ at = "answered")
<1>1. at # "sleep" /\ (flow = "qoder" => at \notin {"poll", "answered"}) /\ flow \in {"kilo", "qoder"}
  BY DEF DeviceInv, Device!TypeOK
<1> QED
  BY <1>1 DEF Device!Next, Device!Tick, Device!Decide, Device!Abort, Device!Login, Device!Initiate,
     Device!EnvironmentPat, Device!Prompted, Device!EnteredPat, Device!Wake, Device!Answer,
     Device!Arrive, Device!Profile, Device!Over, Device!Loop, Device!trace, deviceVars
----------------------------------------------------------------------------
(* The refresh of tokens needs no more than its types.                        *)

LEMMA LaterOfTwo ==
  ASSUME NEW a \in Nat, NEW b \in Nat
  PROVE  Refresh!Max({a, b}) \in Nat /\ Refresh!Max({a, b}) >= a /\ Refresh!Max({a, b}) >= b
<1>1. \E x \in {a, b} : \A y \in {a, b} : x >= y
  <2>1. CASE a >= b
    BY <2>1
  <2>2. CASE ~(a >= b)
    BY <2>2
  <2> QED
    BY <2>1, <2>2
<1>2. Refresh!Max({a, b}) \in {a, b} /\ \A y \in {a, b} : Refresh!Max({a, b}) >= y
  BY <1>1 DEF Refresh!Max
<1> QED
  BY <1>2

Answers == [access : Nat, refresh : Nat, life : Nat]

LEMMA ExpiryLives ==
  ASSUME Refresh!TypeOK, NEW life \in Nat
  PROVE  /\ Refresh!Expiry(life) \in Nat
         /\ kind = "cline" \/ life > Margin => Refresh!Expiry(life) > time
<1>0. Floor \in Nat \ {0} /\ Margin \in Nat /\ time \in Nat /\ MaxTime \in Nat
  BY ProvidersAssumption DEF Refresh!TypeOK
<1>1. /\ Refresh!Less(time + life, Margin) \in Nat
      /\ life > Margin => Refresh!Less(time + life, Margin) > time
  BY <1>0 DEF Refresh!Less
<1>2. CASE kind = "cline"
  <2> DEFINE m == Refresh!Max({time + Floor, Refresh!Less(time + life, Margin)})
  <2>1. m \in Nat /\ m >= time + Floor
    BY <1>0, <1>1, LaterOfTwo
  <2>2. Refresh!Expiry(life) = m
    BY <1>2 DEF Refresh!Expiry
  <2> HIDE DEF m
  <2> QED
    BY <1>0, <2>1, <2>2
<1>3. CASE kind # "cline"
  BY <1>1, <1>3 DEF Refresh!Expiry
<1> QED
  BY <1>2, <1>3

LEMMA RefreshStarts == Refresh!Init => Refresh!RefreshSafe
<1> SUFFICES ASSUME Refresh!Init PROVE Refresh!RefreshSafe
  OBVIOUS
<1>0. /\ Floor \in Nat \ {0} /\ Margin \in Nat /\ MaxTime \in Nat /\ Long \in Nat
      /\ MaxTokens \in Nat \ {0} /\ granted \in Nat
  BY ProvidersAssumption DEF Refresh!Init
<1> DEFINE left == IF granted > Margin THEN granted - Margin ELSE 0
<1>1. left \in Nat
  BY <1>0
<1>2. Refresh!LoginExpiry(kind, granted) \in Nat
  <2>1. CASE kind = "cline"
    <3>1. Refresh!LoginExpiry(kind, granted) = Refresh!Max({Floor, left})
      BY <2>1 DEF Refresh!LoginExpiry
    <3> QED
      BY <1>0, <1>1, <3>1, LaterOfTwo
  <2>2. CASE kind # "cline"
    BY <1>0, <1>1, <2>2 DEF Refresh!LoginExpiry
  <2> QED
    BY <2>1, <2>2
<1> DEFINE e == Refresh!LoginExpiry(kind, granted)
<1> HIDE DEF left, e
<1>3. PICK r \in {0, 1} : cred = [access |-> 1, refresh |-> r, expires |-> e, user |-> TRUE, machine |-> TRUE]
  BY DEF Refresh!Init, Refresh!NoToken, e
<1>4. e \in Nat
  BY <1>2 DEF e
<1>5. cred \in Refresh!Cred /\ cred.access = 1 /\ cred.refresh \in {0, 1} /\ cred.user /\ cred.machine
  BY <1>3, <1>4 DEF Refresh!Cred
<1>6. Refresh!TypeOK
  BY <1>0, <1>5 DEF Refresh!Init, Refresh!TypeOK
<1> QED
  BY <1>5, <1>6 DEF Refresh!Init, Refresh!RefreshSafe, Refresh!RotationFollowed,
     Refresh!RenewedIsUsable, Refresh!NoToken

LEMMA ExtendedLives ==
  ASSUME Refresh!RefreshSafe
  PROVE  /\ Refresh!Extended \in Refresh!Cred /\ Refresh!Extended.expires > time
         /\ Refresh!Extended.access = cred.access /\ Refresh!Extended.refresh = cred.refresh
         /\ Refresh!Extended.user = cred.user /\ Refresh!Extended.machine = cred.machine
<1>1. Hour \in Nat \ {0} /\ time \in Nat /\ MaxTime \in Nat /\ cred \in Refresh!Cred
  BY ProvidersAssumption DEF Refresh!RefreshSafe, Refresh!TypeOK
<1>2. time + Hour \in Nat /\ time + Hour > time
  BY <1>1
<1> QED
  BY <1>1, <1>2 DEF Refresh!Extended, Refresh!Cred

(* an attempt that failed, with an answer that was lost or without one *)
LEMMA FailedKept ==
  ASSUME Refresh!RefreshSafe, Refresh!Failed, UNCHANGED <<kind, time>>, valid' \in 1 .. MaxTokens,
         flaws' \in {flaws, flaws \cup {"lost"}}, valid' # valid => "lost" \in flaws'
  PROVE  Refresh!RefreshSafe'
<1>1. CASE kind = "cline"
  BY <1>1 DEF Refresh!Failed, Refresh!RefreshSafe, Refresh!TypeOK, Refresh!RotationFollowed,
     Refresh!RenewedIsUsable
<1>2. CASE kind # "cline"
  <2>1. phase' = "idle" /\ cred' = Refresh!Extended /\ result' = "extended"
    BY <1>2 DEF Refresh!Failed
  <2>2. Refresh!TypeOK'
    BY <2>1, ExtendedLives DEF Refresh!RefreshSafe, Refresh!TypeOK
  <2>3. Refresh!RotationFollowed'
    BY <2>1, ExtendedLives DEF Refresh!RefreshSafe, Refresh!RotationFollowed
  <2>4. Refresh!RenewedIsUsable'
    BY <2>1, ExtendedLives DEF Refresh!RefreshSafe, Refresh!RenewedIsUsable
  <2> QED
    BY <2>2, <2>3, <2>4 DEF Refresh!RefreshSafe
<1> QED
  BY <1>1, <1>2

LEMMA RenewedKept ==
  ASSUME Refresh!RefreshSafe, NEW v \in 1 .. MaxTokens, NEW life \in Lives, Refresh!Rotates(v),
         NEW found \in {TRUE, kind # "pat"}, NEW blank \in BOOLEAN,
         granted' = life, phase' = "idle", result' = "renewed",
         cred' = Refresh!Renewed(Refresh!Answer(v, life, blank), found),
         flaws' = flaws \cup (IF blank THEN {"blank"} ELSE {})
                        \cup (IF found THEN {} ELSE {"unfound"}),
         UNCHANGED <<kind, time>>
  PROVE  Refresh!RefreshSafe'
<1>0. /\ life \in Nat /\ cred \in Refresh!Cred /\ found \in BOOLEAN /\ MaxTokens \in Nat
      /\ valid \in 1 .. MaxTokens
  BY ProvidersAssumption DEF Refresh!RefreshSafe, Refresh!TypeOK
<1> DEFINE answer == Refresh!Answer(v, life, blank)
<1>1. /\ answer \in Answers /\ answer.life = life
      /\ answer.access = IF blank THEN 0 ELSE cred.access + 1
      /\ answer.refresh = IF v = valid THEN 0 ELSE v
  BY <1>0 DEF Refresh!Answer, Refresh!Cred, Refresh!NoToken, Answers
<1> HIDE DEF answer
<1> DEFINE taken == IF kind = "pat" THEN cred.refresh ELSE Refresh!RefreshTaken(answer)
           user == IF kind = "pat" THEN found ELSE cred.user
<1>2. taken = IF kind = "pat" \/ v = valid THEN cred.refresh ELSE v
  BY <1>0, <1>1 DEF Refresh!RefreshTaken, Refresh!NoToken
<1>3. taken \in Nat /\ user \in BOOLEAN
  BY <1>0, <1>2 DEF Refresh!Cred
<1>4. /\ Refresh!Expiry(life) \in Nat
      /\ kind = "cline" \/ life > Margin => Refresh!Expiry(life) > time
  BY <1>0, ExpiryLives DEF Refresh!RefreshSafe
<1>5. cred' = [access |-> answer.access, expires |-> Refresh!Expiry(life), machine |-> cred.machine,
               refresh |-> taken, user |-> user]
  BY <1>1 DEF Refresh!Renewed, answer
<1> HIDE DEF taken, user
<1>6. cred' \in Refresh!Cred
  BY <1>0, <1>1, <1>3, <1>4, <1>5 DEF Refresh!Cred, Answers
<1>7. /\ cred'.access = answer.access /\ cred'.expires = Refresh!Expiry(life)
      /\ cred'.machine = cred.machine /\ cred'.refresh = taken /\ cred'.user = user
  BY <1>5
<1>8. valid' = v /\ (v = valid \/ (kind # "pat" /\ v = valid + 1))
  BY DEF Refresh!Rotates
<1>9. flaws' \subseteq {"lost", "blank", "unfound"} /\ flaws \subseteq flaws'
  BY DEF Refresh!RefreshSafe, Refresh!TypeOK
<1>10. Refresh!TypeOK'
  BY <1>0, <1>6, <1>8, <1>9 DEF Refresh!RefreshSafe, Refresh!TypeOK
<1>11. Refresh!RotationFollowed'
  BY <1>2, <1>7, <1>8, <1>9 DEF Refresh!RefreshSafe, Refresh!RotationFollowed
<1>12. Refresh!RenewedIsUsable'
  <2>1. kind = "cline" \/ granted' > Margin => cred'.expires > time
    BY <1>4, <1>7
  <2>2. "blank" \in flaws' \/ cred'.access # 0
    BY <1>0, <1>1, <1>7 DEF Refresh!Cred
  <2>3. "unfound" \in flaws' \/ (cred'.user /\ cred'.machine)
    BY <1>7, <1>9 DEF Refresh!RefreshSafe, Refresh!RenewedIsUsable, user
  <2> QED
    BY <2>1, <2>2, <2>3 DEF Refresh!RenewedIsUsable, Refresh!NoToken
<1> QED
  BY <1>10, <1>11, <1>12 DEF Refresh!RefreshSafe

LEMMA RefreshStep ==
  Refresh!RefreshSafe /\ (Refresh!Next \/ UNCHANGED refreshVars) => Refresh!RefreshSafe'
<1> SUFFICES ASSUME Refresh!RefreshSafe, Refresh!Next \/ UNCHANGED refreshVars
             PROVE  Refresh!RefreshSafe'
  OBVIOUS
<1>0. MaxTime \in Nat /\ MaxTokens \in Nat /\ time \in Nat
  BY ProvidersAssumption DEF Refresh!RefreshSafe, Refresh!TypeOK
<1>1. CASE Refresh!Tick
  BY <1>0, <1>1 DEF Refresh!Tick, Refresh!RefreshSafe, Refresh!TypeOK, Refresh!RotationFollowed,
     Refresh!RenewedIsUsable
<1>2. CASE Refresh!Call
  BY <1>2 DEF Refresh!Call, Refresh!RefreshSafe, Refresh!TypeOK, Refresh!RotationFollowed,
     Refresh!RenewedIsUsable
<1>3. CASE Refresh!Attempt
  <2>1. UNCHANGED <<kind, time>>
    BY <1>3 DEF Refresh!Attempt
  <2>2. CASE Refresh!Failed /\ UNCHANGED <<valid, granted, flaws>>
    BY <2>1, <2>2, FailedKept DEF Refresh!RefreshSafe, Refresh!TypeOK
  <2>3. ASSUME NEW v \in 1 .. MaxTokens, Refresh!Rotates(v), Refresh!Failed,
               flaws' = IF v = valid THEN flaws ELSE flaws \cup {"lost"}
        PROVE  Refresh!RefreshSafe'
    <3>1. valid' = v
      BY <2>3 DEF Refresh!Rotates
    <3> QED
      BY <2>1, <2>3, <3>1, FailedKept
  <2>4. ASSUME NEW v \in 1 .. MaxTokens, NEW life \in Lives, Refresh!Rotates(v), granted' = life,
               NEW found \in {TRUE, kind # "pat"}, NEW blank \in {FALSE, kind = "oauth"},
               phase' = "idle", result' = "renewed",
               cred' = Refresh!Renewed(Refresh!Answer(v, life, blank), found),
               flaws' = flaws \cup (IF blank THEN {"blank"} ELSE {})
                              \cup (IF found THEN {} ELSE {"unfound"})
        PROVE  Refresh!RefreshSafe'
    <3>1. blank \in BOOLEAN
      OBVIOUS
    <3> QED
      BY <2>1, <2>4, <3>1, RenewedKept
  <2> QED
    BY <1>3, <2>2, <2>3, <2>4 DEF Refresh!Attempt
<1>4. CASE UNCHANGED refreshVars
  BY <1>4 DEF refreshVars, Refresh!RefreshSafe, Refresh!TypeOK, Refresh!RotationFollowed,
     Refresh!RenewedIsUsable
<1> QED
  BY <1>1, <1>2, <1>3, <1>4 DEF Refresh!Next
----------------------------------------------------------------------------
(* The continuation of Infron: a ticket is armed only between the settle and  *)
(* the start of the run it asks for, and a handler that waits has the ticket  *)
(* of the cooldown, which is cancelled together with it.                      *)
TicketPhase == {"none", "observed", "armed", "waiting", "elapsed"}
Ticket == [id : Nat, phase : TicketPhase, cancelled : BOOLEAN, model : Model]

InfronType ==
  /\ cooldown \in Ticket /\ held \in Ticket /\ model \in Model /\ asked \in Model
  /\ Infron!TypeOK /\ stopped \subseteq {"auto"}
  /\ tickets \in Nat /\ retries \in Nat
ArmedInv ==
  /\ cooldown.phase = "armed" => run \in {"idle", "starting"}
  /\ run = "starting" => (cooldown.phase = "armed" <=> origin = "auto")
  /\ cooldown.phase = "armed" /\ ~cooldown.cancelled => cooldown.model = model
HeldInv ==
  /\ run \in {"waiting", "woken"} =>
       /\ origin = "auto" /\ held.id = cooldown.id /\ cooldown.phase = "waiting"
       /\ ~held.cancelled => ~cooldown.cancelled /\ held.model = model
  /\ run = "waiting" => ~held.cancelled
InfronInv == InfronType /\ ArmedInv /\ HeldInv

LEMMA NoTicketTyped ==
  ASSUME model \in Model
  PROVE  /\ Infron!NoTicket \in Ticket /\ Infron!NoTicket.phase = "none"
         /\ ~Infron!NoTicket.cancelled
<1>1. (CHOOSE m \in Model : TRUE) \in Model
  OBVIOUS
<1> QED
  BY <1>1 DEF Infron!NoTicket, Ticket, TicketPhase

LEMMA InfronStarts == Infron!Init => InfronInv
<1> SUFFICES ASSUME Infron!Init PROVE InfronInv
  OBVIOUS
<1>1. MaxRetries \in Nat /\ MaxTickets \in Nat /\ model \in Model /\ cooldown = Infron!NoTicket
      /\ held = Infron!NoTicket
  BY ProvidersAssumption DEF Infron!Init
<1>2. cooldown \in Ticket /\ held \in Ticket /\ cooldown.phase = "none" /\ held.phase = "none"
  BY <1>1, NoTicketTyped
<1>3. Infron!TypeOK
  BY <1>1, <1>2 DEF Infron!Init, Infron!TypeOK
<1> QED
  BY <1>1, <1>2, <1>3 DEF Infron!Init, InfronInv, InfronType, ArmedInv, HeldInv

(* What a cancellation does: an observed ticket is dropped, any other is      *)
(* marked, together with the one that a handler waits with.                   *)
LEMMA CancelMarks ==
  ASSUME InfronInv, Infron!Cancel(Infron!AfterCancel)
  PROVE  /\ cooldown' \in Ticket /\ held' \in Ticket
         /\ cooldown'.phase \in {"none", cooldown.phase}
         /\ cooldown.phase \in {"armed", "waiting"} =>
              /\ cooldown'.phase = cooldown.phase /\ cooldown'.cancelled /\ cooldown'.id = cooldown.id
              /\ held.id = cooldown.id /\ Infron!Live => held'.cancelled
         /\ held'.id = held.id /\ held'.phase = held.phase /\ held'.model = held.model
         /\ held.cancelled => held'.cancelled
<1>0. /\ model \in Model /\ cooldown \in Ticket /\ held \in Ticket
  BY DEF InfronInv, InfronType
<1>1. ASSUME NEW t \in Ticket
      PROVE  /\ Infron!Cancelled(t) \in Ticket /\ Infron!Cancelled(t).cancelled
             /\ Infron!Cancelled(t).id = t.id /\ Infron!Cancelled(t).phase = t.phase
             /\ Infron!Cancelled(t).model = t.model
  BY DEF Infron!Cancelled, Ticket
<1>2. Infron!NoTicket \in Ticket /\ Infron!NoTicket.phase = "none"
  BY <1>0, NoTicketTyped
<1>3. cooldown.cancelled \in BOOLEAN /\ held.cancelled \in BOOLEAN
  BY <1>0 DEF Ticket
<1>4. cooldown' = IF Infron!Live /\ cooldown.phase = "observed" THEN Infron!NoTicket
                  ELSE IF Infron!Live THEN Infron!Cancelled(cooldown) ELSE cooldown
  BY DEF Infron!Cancel, Infron!AfterCancel
<1>5. held' = IF Infron!Live /\ held.id = cooldown.id THEN Infron!Cancelled(held) ELSE held
  BY DEF Infron!Cancel
<1>6. Infron!Live <=> cooldown # Infron!NoTicket /\ ~cooldown.cancelled
  BY DEF Infron!Live
<1>7. cooldown.phase \in {"armed", "waiting"} => (Infron!Live <=> ~cooldown.cancelled)
  BY <1>2, <1>6
<1>8. /\ Infron!Cancelled(cooldown) \in Ticket /\ Infron!Cancelled(cooldown).cancelled
      /\ Infron!Cancelled(cooldown).id = cooldown.id
      /\ Infron!Cancelled(cooldown).phase = cooldown.phase
  BY <1>0, <1>1
<1>9. /\ Infron!Cancelled(held) \in Ticket /\ Infron!Cancelled(held).cancelled
      /\ Infron!Cancelled(held).id = held.id /\ Infron!Cancelled(held).phase = held.phase
      /\ Infron!Cancelled(held).model = held.model
  BY <1>0, <1>1
<1>10. cooldown' \in Ticket /\ held' \in Ticket
  BY <1>0, <1>2, <1>4, <1>5, <1>8, <1>9
<1>11. cooldown'.phase \in {"none", cooldown.phase}
  BY <1>2, <1>4, <1>8
<1>12. cooldown.phase \in {"armed", "waiting"} =>
         /\ cooldown'.phase = cooldown.phase /\ cooldown'.cancelled /\ cooldown'.id = cooldown.id
         /\ held.id = cooldown.id /\ Infron!Live => held'.cancelled
  BY <1>4, <1>5, <1>7, <1>8, <1>9
<1>13. /\ held'.id = held.id /\ held'.phase = held.phase /\ held'.model = held.model
       /\ held.cancelled => held'.cancelled
  BY <1>5, <1>9
<1> QED
  BY <1>10, <1>11, <1>12, <1>13

(* input while a run is underway, and a pick *)
LEMMA CancelKept ==
  ASSUME InfronInv, Infron!Cancel(Infron!AfterCancel), model' \in Model,
         run' = IF Infron!Woken /\ Infron!Live THEN "woken" ELSE run,
         UNCHANGED <<origin, runSignal, asked, settled, retries, tickets, stopped>>
  PROVE  InfronInv'
<1>1. /\ cooldown' \in Ticket /\ held' \in Ticket
      /\ held'.id = held.id /\ held'.phase = held.phase /\ held'.model = held.model
      /\ held.cancelled => held'.cancelled
  BY CancelMarks
<1>2. cooldown.phase \in {"armed", "waiting"} =>
        /\ cooldown'.phase = cooldown.phase /\ cooldown'.cancelled /\ cooldown'.id = cooldown.id
        /\ held.id = cooldown.id /\ Infron!Live => held'.cancelled
  BY CancelMarks
<1>3. cooldown'.phase \in {"none", cooldown.phase}
  BY CancelMarks
<1>4. run' = run \/ (run = "waiting" /\ run' = "woken")
  BY DEF Infron!Woken
<1>5. InfronType'
  BY <1>1, <1>4 DEF InfronInv, InfronType, Infron!TypeOK, Ticket, TicketPhase
<1>6. ArmedInv'
  BY <1>2, <1>3, <1>4 DEF InfronInv, ArmedInv
<1>7. HeldInv'
  <2>1. ASSUME run' \in {"waiting", "woken"}
        PROVE  /\ origin' = "auto" /\ held'.id = cooldown'.id /\ cooldown'.phase = "waiting"
               /\ held'.cancelled
    <3>1. /\ run \in {"waiting", "woken"} /\ origin = "auto" /\ held.id = cooldown.id
          /\ cooldown.phase = "waiting" /\ (~held.cancelled => ~cooldown.cancelled)
      BY <1>4, <2>1 DEF InfronInv, HeldInv
    <3>2. cooldown # Infron!NoTicket
      BY <3>1, NoTicketTyped DEF InfronInv, InfronType
    <3>3. ~held.cancelled => Infron!Live
      BY <3>1, <3>2 DEF Infron!Live
    <3> QED
      BY <1>1, <1>2, <3>1, <3>3
  <2>2. run' # "waiting"
    <3>1. ASSUME run = "waiting" PROVE Infron!Woken /\ Infron!Live
      <4>1. held.id = cooldown.id /\ cooldown.phase = "waiting" /\ ~cooldown.cancelled
        BY <3>1 DEF InfronInv, HeldInv
      <4>2. cooldown # Infron!NoTicket
        BY <4>1, NoTicketTyped DEF InfronInv, InfronType
      <4> QED
        BY <3>1, <4>1, <4>2 DEF Infron!Woken, Infron!Live
    <3> QED
      BY <1>4, <3>1
  <2> QED
    BY <2>1, <2>2 DEF HeldInv
<1> QED
  BY <1>5, <1>6, <1>7 DEF InfronInv
(* agent_start: an unarmed run asks, an armed one waits or is stopped *)
LEMMA StartKept == ASSUME InfronInv, Infron!Start PROVE InfronInv'
<1>0. /\ cooldown \in Ticket /\ held \in Ticket /\ run = "starting"
      /\ cooldown.phase = "armed" <=> origin = "auto"
      /\ UNCHANGED <<origin, model, retries, tickets>>
  BY DEF InfronInv, InfronType, ArmedInv, Infron!Start
<1>1. Infron!NoTicket \in Ticket /\ Infron!NoTicket.phase = "none"
  BY NoTicketTyped DEF InfronInv, InfronType
<1>2. CASE cooldown.phase # "armed" /\ UNCHANGED <<cooldown, held, runSignal, stopped>>
  <2>1. /\ run' \in {"ended", "asking"} /\ asked' \in Model /\ settled' \in {settled, "aborted"}
    BY <1>2 DEF Infron!Start, Infron!Ask, InfronInv, InfronType
  <2> QED
    BY <1>0, <1>2, <2>1 DEF InfronInv, InfronType, ArmedInv, HeldInv, Infron!TypeOK
<1>3. CASE cooldown.phase = "armed" /\ cooldown' = Infron!NoTicket /\ Infron!Abort
           /\ UNCHANGED <<held, asked>>
  BY <1>0, <1>1, <1>3 DEF Infron!Abort, InfronInv, InfronType, ArmedInv, HeldInv, Infron!TypeOK
<1>4. CASE /\ cooldown.phase = "armed" /\ ~cooldown.cancelled
           /\ UNCHANGED <<asked, settled, runSignal, stopped>>
           /\ \E typed \in BOOLEAN :
                /\ cooldown' = [cooldown EXCEPT !.phase = "waiting", !.cancelled = typed]
                /\ held' = cooldown' /\ run' = IF typed THEN "woken" ELSE "waiting"
  <2>1. PICK typed \in BOOLEAN :
          /\ cooldown' = [cooldown EXCEPT !.phase = "waiting", !.cancelled = typed]
          /\ held' = cooldown' /\ run' = IF typed THEN "woken" ELSE "waiting"
    BY <1>4
  <2>2. /\ cooldown' \in Ticket /\ cooldown'.phase = "waiting" /\ cooldown'.cancelled = typed
        /\ cooldown'.model = cooldown.model
    BY <1>0, <2>1 DEF Ticket, TicketPhase
  <2>3. cooldown.model = model
    BY <1>4 DEF InfronInv, ArmedInv
  <2>4. InfronType'
    BY <1>0, <1>4, <2>1, <2>2 DEF InfronInv, InfronType, Infron!TypeOK
  <2>5. ArmedInv'
    BY <2>1, <2>2 DEF ArmedInv
  <2>6. HeldInv'
    BY <1>0, <1>4, <2>1, <2>2, <2>3 DEF HeldInv
  <2> QED
    BY <2>4, <2>5, <2>6 DEF InfronInv
<1> QED
  BY <1>2, <1>3, <1>4 DEF Infron!Start

(* the rest of the handler *)
LEMMA ResumeKept == ASSUME InfronInv, Infron!Resume PROVE InfronInv'
<1>0. Infron!NoTicket \in Ticket /\ Infron!NoTicket.phase = "none"
  BY NoTicketTyped DEF InfronInv, InfronType
<1>1. run = "woken" /\ origin = "auto" /\ held.id = cooldown.id
  BY DEF Infron!Resume, InfronInv, HeldInv
<1>2. held' = Infron!NoTicket /\ cooldown' = Infron!NoTicket
      /\ UNCHANGED <<origin, model, retries, tickets>>
  BY <1>1 DEF Infron!Resume
<1>3. /\ run' \in {"asking", "ended"} /\ asked' \in Model
      /\ settled' \in {settled, "aborted"} /\ runSignal' \in {runSignal, "aborted"}
      /\ stopped' \subseteq {"auto"}
  BY <1>1 DEF Infron!Resume, Infron!Ask, Infron!Abort, InfronInv, InfronType
<1> QED
  BY <1>0, <1>2, <1>3 DEF InfronInv, InfronType, ArmedInv, HeldInv, Infron!TypeOK

(* message_end *)
LEMMA MessageEndKept == ASSUME InfronInv, Infron!MessageEnd PROVE InfronInv'
<1>0. /\ Infron!NoTicket \in Ticket /\ Infron!NoTicket.phase = "none"
      /\ MaxTickets \in Nat /\ tickets \in Nat /\ asked \in Model
  BY NoTicketTyped, ProvidersAssumption DEF InfronInv, InfronType
<1>1. /\ run' = "ended" /\ settled' \in {"ok", "error", "limit"}
      /\ UNCHANGED <<held, origin, runSignal, model, asked, retries, stopped>>
  BY DEF Infron!MessageEnd, Infron!Outcome
<1>2. CASE settled' = "limit"
  <2>1. tickets' \in Nat /\ tickets' <= MaxTickets
    BY <1>0, <1>2 DEF Infron!MessageEnd
  <2>2. cooldown' = [id |-> tickets', phase |-> "observed", cancelled |-> FALSE, model |-> asked]
    BY <1>2 DEF Infron!MessageEnd
  <2>3. cooldown' \in Ticket /\ cooldown'.phase = "observed"
    BY <1>0, <2>1, <2>2 DEF Ticket, TicketPhase
  <2> QED
    BY <1>1, <2>1, <2>3 DEF InfronInv, InfronType, ArmedInv, HeldInv, Infron!TypeOK, Ticket, TicketPhase
<1>3. CASE settled' # "limit"
  <2>1. cooldown' = Infron!NoTicket /\ tickets' = tickets
    BY <1>3 DEF Infron!MessageEnd
  <2> QED
    BY <1>0, <1>1, <2>1 DEF InfronInv, InfronType, ArmedInv, HeldInv, Infron!TypeOK
<1> QED
  BY <1>2, <1>3

(* agent_before_settle: only a ticket of the current model is armed *)
LEMMA SettleKept == ASSUME InfronInv, Infron!Settle PROVE InfronInv'
<1>0. /\ Infron!NoTicket \in Ticket /\ Infron!NoTicket.phase = "none" /\ cooldown \in Ticket
      /\ MaxRetries \in Nat
  BY NoTicketTyped, ProvidersAssumption DEF InfronInv, InfronType
<1>1. PICK claimed \in BOOLEAN :
        /\ cooldown' = IF Infron!Continues(claimed) THEN [cooldown EXCEPT !.phase = "armed"]
                       ELSE IF cooldown.phase = "observed" THEN Infron!NoTicket ELSE cooldown
        /\ \/ run' = "starting" /\ origin' = IF Infron!Continues(claimed) THEN "auto" ELSE "user"
           \/ run' = "idle" /\ UNCHANGED origin
  BY DEF Infron!Settle
<1>2. /\ run = "ended" /\ runSignal' = "quiet" /\ retries' = 0
      /\ UNCHANGED <<held, model, asked, settled, tickets, stopped>>
  BY DEF Infron!Settle
<1>3. CASE Infron!Continues(claimed)
  <2>1. /\ cooldown' \in Ticket /\ cooldown'.phase = "armed"
        /\ cooldown'.model = cooldown.model /\ cooldown.model = model
    BY <1>0, <1>1, <1>3 DEF Ticket, TicketPhase, Infron!Continues
  <2>2. run' \in {"starting", "idle"} /\ (run' = "starting" => origin' = "auto")
        /\ origin' \in {"auto", origin}
    BY <1>1, <1>3
  <2> QED
    BY <1>0, <1>2, <2>1, <2>2 DEF InfronInv, InfronType, ArmedInv, HeldInv, Infron!TypeOK
<1>4. CASE ~Infron!Continues(claimed)
  <2>1. cooldown' \in Ticket /\ cooldown'.phase \in {"none", cooldown.phase}
    BY <1>0, <1>1, <1>4
  <2>2. cooldown.phase # "armed"
    BY <1>2 DEF InfronInv, ArmedInv
  <2>3. run' \in {"starting", "idle"} /\ (run' = "starting" => origin' = "user")
        /\ origin' \in {"user", origin}
    BY <1>1, <1>4
  <2> QED
    BY <1>0, <1>2, <2>1, <2>2, <2>3 DEF InfronInv, InfronType, ArmedInv, HeldInv, Infron!TypeOK
<1> QED
  BY <1>3, <1>4

LEMMA InfronStep == InfronInv /\ (Infron!Next \/ UNCHANGED infronVars) => InfronInv'
<1> SUFFICES ASSUME InfronInv, Infron!Next \/ UNCHANGED infronVars PROVE InfronInv'
  OBVIOUS
<1>0. /\ Infron!NoTicket \in Ticket /\ Infron!NoTicket.phase = "none"
      /\ MaxRetries \in Nat /\ retries \in Nat /\ cooldown \in Ticket /\ held \in Ticket
  BY NoTicketTyped, ProvidersAssumption DEF InfronInv, InfronType
<1>1. CASE Infron!Prompt
  <2>1. cooldown' = Infron!NoTicket /\ held' \in {held, Infron!Cancelled(held)}
    BY <1>1 DEF Infron!Prompt, Infron!Cancel, Infron!AfterPrompt
  <2>2. held' \in Ticket
    BY <1>0, <2>1 DEF Infron!Cancelled, Ticket
  <2> QED
    BY <1>0, <1>1, <2>1, <2>2
    DEF Infron!Prompt, InfronInv, InfronType, ArmedInv, HeldInv, Infron!TypeOK, Ticket, TicketPhase
<1>2. CASE Infron!Steer
  <2>1. model' \in Model
    BY <1>2 DEF Infron!Steer, InfronInv, InfronType
  <2> QED
    BY <1>2, <2>1, CancelKept DEF Infron!Steer
<1>3. CASE Infron!Select
  BY <1>3, CancelKept DEF Infron!Select
<1>4. CASE Infron!Escape
  <2>1. /\ cooldown' \in {cooldown, Infron!NoTicket} /\ (run # "asking" => cooldown' = cooldown)
        /\ run \in {"starting", "waiting", "asking"} /\ runSignal' = "aborted"
        /\ run' = IF run = "asking" THEN "ended" ELSE IF run = "waiting" THEN "woken" ELSE run
        /\ settled' \in {settled, "aborted"}
        /\ UNCHANGED <<held, origin, model, asked, retries, tickets, stopped>>
    BY <1>4 DEF Infron!Escape
  <2> QED
    BY <1>0, <2>1 DEF InfronInv, InfronType, ArmedInv, HeldInv, Infron!TypeOK
<1>5. CASE Infron!SessionStart
  BY <1>0, <1>5 DEF Infron!SessionStart, InfronInv, InfronType, ArmedInv, HeldInv, Infron!TypeOK
<1>6. CASE Infron!Start
  BY <1>6, StartKept
<1>7. CASE Infron!Elapse
  <2>1. held' \in Ticket /\ held'.id = held.id /\ held'.cancelled = held.cancelled
        /\ held'.model = held.model /\ held'.phase = "elapsed"
    BY <1>0, <1>7 DEF Infron!Elapse, Ticket, TicketPhase
  <2> QED
    BY <1>0, <1>7, <2>1 DEF Infron!Elapse, InfronInv, InfronType, ArmedInv, HeldInv, Infron!TypeOK
<1>8. CASE Infron!Resume
  BY <1>8, ResumeKept
<1>9. CASE Infron!MessageEnd
  BY <1>9, MessageEndKept
<1>10. CASE Infron!Retry
  <2>1. cooldown.phase # "armed"
    BY <1>10 DEF Infron!Retry, InfronInv, ArmedInv
  <2> QED
    BY <1>0, <1>10, <2>1 DEF Infron!Retry, InfronInv, InfronType, ArmedInv, HeldInv, Infron!TypeOK
<1>11. CASE Infron!Settle
  BY <1>11, SettleKept
<1>12. CASE UNCHANGED infronVars
  BY <1>12 DEF infronVars, InfronInv, InfronType, ArmedInv, HeldInv, Infron!TypeOK
<1> QED
  BY <1>1, <1>2, <1>3, <1>4, <1>5, <1>6, <1>7, <1>8, <1>9, <1>10, <1>11, <1>12
  DEF Infron!Next, Infron!Pi

(* A request by continuation comes from a handler that has waited, and its    *)
(* ticket was not cancelled.                                                  *)
LEMMA AutoAsksLate ==
  ASSUME InfronInv, Infron!Next \/ UNCHANGED infronVars,
         run' = "asking", run # "asking", origin = "auto"
  PROVE  run = "woken" /\ held.phase = "elapsed" /\ ~held.cancelled /\ held.model = model
<1>1. ~Infron!Start
  BY DEF Infron!Start, Infron!Abort, InfronInv, ArmedInv
<1>2. Infron!Resume
  BY <1>1 DEF Infron!Next, Infron!Pi, Infron!Prompt, Infron!Steer, Infron!Select, Infron!Escape,
     Infron!SessionStart, Infron!Elapse, Infron!MessageEnd, Infron!Retry, Infron!Settle, infronVars
<1>3. run = "woken" /\ Infron!GoOn
  BY <1>2 DEF Infron!Resume, Infron!Abort
<1> QED
  BY <1>3 DEF Infron!GoOn, InfronInv, HeldInv
----------------------------------------------------------------------------
(* The models.dev cache holds the latest load, and every load but one that    *)
(* has ended has an attempt left.                                             *)
LoadType == [begun : Nat, tried : Nat, end : {"flying", "full", "empty"}]
Entry(l) == <<[load |-> Len(l), expiresAt |-> l[Len(l)].begun + MODELS_DEV_CACHE_TTL]>>
MetadataType ==
  /\ age \in 0 .. MaxAge /\ builtin \in {"none", "loading", "ready"}
  /\ loads \in Seq(LoadType)
  /\ reads \in [Reader -> Nat] /\ \A r \in Reader : reads[r] <= Len(loads)
  /\ metadata \in [Reader -> [load : Nat, at : Nat, asked : Nat]]
  /\ \A r \in Reader : metadata[r].load <= Len(loads)
Spaced == \A l \in 1 .. (Len(loads) - 1) :
            loads[l + 1].begun >= loads[l].begun + MODELS_DEV_CACHE_TTL
Bounded == \A l \in DOMAIN loads : /\ loads[l].begun <= age /\ loads[l].tried <= MODELS_DEV_RETRIES
                                   /\ loads[l].end = "flying" => loads[l].tried < MODELS_DEV_RETRIES
Has(r) == IF reads[r] = 0 THEN metadata[r].load ELSE reads[r]
Recent(r) == Has(r) # 0 => /\ loads[Has(r)].begun <= metadata[r].asked
                           /\ metadata[r].asked < loads[Has(r)].begun + MODELS_DEV_CACHE_TTL
MetadataInv ==
  /\ MetadataType /\ Spaced /\ Bounded /\ \A r \in Reader : Recent(r)
  /\ catalogCache = IF loads = <<>> THEN <<>> ELSE Entry(loads)

LEMMA MetadataStarts == Metadata!Init => MetadataInv
<1> SUFFICES ASSUME Metadata!Init PROVE MetadataInv
  OBVIOUS
<1>1. loads = <<>> /\ Len(loads) = 0 /\ loads \in Seq(LoadType) /\ DOMAIN loads = {}
  BY DEF Metadata!Init
<1>2. MetadataType
  BY <1>1, ProvidersAssumption DEF Metadata!Init, MetadataType
<1>3. \A r \in Reader : Has(r) = 0
  BY DEF Metadata!Init, Has
<1> QED
  BY <1>1, <1>2, <1>3 DEF Metadata!Init, MetadataInv, Spaced, Bounded, Recent

(* the last load and its entry *)
LEMMA LatestLoad ==
  ASSUME MetadataInv, loads # <<>>
  PROVE  /\ Len(loads) \in DOMAIN loads /\ Len(loads) \in Nat \ {0}
         /\ catalogCache[1].load = Len(loads)
         /\ catalogCache[1].expiresAt = loads[Len(loads)].begun + MODELS_DEV_CACHE_TTL
<1>1. loads \in Seq(LoadType)
  BY DEF MetadataInv, MetadataType
<1>2. Len(loads) \in Nat \ {0} /\ Len(loads) \in DOMAIN loads
  BY <1>1
<1>3. catalogCache = <<[load |-> Len(loads), expiresAt |-> loads[Len(loads)].begun + MODELS_DEV_CACHE_TTL]>>
  BY DEF MetadataInv, Entry
<1>4. catalogCache[1] = [load |-> Len(loads), expiresAt |-> loads[Len(loads)].begun + MODELS_DEV_CACHE_TTL]
  BY <1>3
<1> QED
  BY <1>2, <1>4

(* a reader joins the load of a fresh entry, or begins one *)
LEMMA AskKept ==
  ASSUME MetadataInv, NEW r \in Reader, Metadata!FetchModelsDevMeta(r) PROVE MetadataInv'
<1>0. /\ MODELS_DEV_CACHE_TTL \in Nat \ {0} /\ MODELS_DEV_RETRIES \in Nat \ {0}
      /\ loads \in Seq(LoadType) /\ age \in Nat /\ age' = age /\ builtin' = builtin
      /\ reads \in [Reader -> Nat] /\ reads[r] = 0
      /\ metadata \in [Reader -> [load : Nat, at : Nat, asked : Nat]]
  <2>1. MODELS_DEV_CACHE_TTL \in Nat \ {0} /\ MODELS_DEV_RETRIES \in Nat \ {0}
    BY ProvidersAssumption
  <2>2. age' = age /\ builtin' = builtin /\ reads[r] = 0
    BY DEF Metadata!FetchModelsDevMeta
  <2> QED
    BY <2>1, <2>2 DEF MetadataInv, MetadataType
<1>1. /\ metadata' \in [Reader -> [load : Nat, at : Nat, asked : Nat]]
      /\ metadata'[r].asked = age
      /\ \A q \in Reader : metadata'[q].load = metadata[q].load
      /\ \A q \in Reader : q # r => metadata'[q] = metadata[q]
  BY <1>0 DEF Metadata!FetchModelsDevMeta
<1>2. CASE Metadata!Fresh
  <2>1. loads # <<>>
    BY <1>2 DEF Metadata!Fresh, MetadataInv
  <2>2. /\ reads' = [reads EXCEPT ![r] = catalogCache[1].load] /\ catalogCache' = catalogCache
        /\ loads' = loads
    BY <1>2 DEF Metadata!FetchModelsDevMeta, Metadata!GetModelsDevCatalogCache
  <2>3. /\ Len(loads) \in DOMAIN loads /\ Len(loads) \in Nat \ {0}
        /\ loads[Len(loads)].begun <= age /\ loads[Len(loads)].begun \in Nat
        /\ age < loads[Len(loads)].begun + MODELS_DEV_CACHE_TTL
        /\ reads' = [reads EXCEPT ![r] = Len(loads)]
    <3>1. Len(loads) \in DOMAIN loads /\ Len(loads) \in Nat \ {0} /\ catalogCache[1].load = Len(loads)
          /\ catalogCache[1].expiresAt = loads[Len(loads)].begun + MODELS_DEV_CACHE_TTL
      BY <2>1, LatestLoad
    <3>2. loads[Len(loads)] \in LoadType
      BY <1>0, <3>1
    <3>3. catalogCache[1].expiresAt > age
      BY <1>2 DEF Metadata!Fresh
    <3>4. loads[Len(loads)].begun <= age
      BY <3>1 DEF MetadataInv, Bounded
    <3> QED
      BY <1>0, <2>2, <3>1, <3>2, <3>3, <3>4 DEF LoadType
  <2>4. reads' \in [Reader -> Nat] /\ \A q \in Reader : reads'[q] = IF q = r THEN Len(loads) ELSE reads[q]
    BY <1>0, <2>3
  <2>5. MetadataType'
    BY <1>0, <1>1, <2>2, <2>3, <2>4 DEF MetadataInv, MetadataType
  <2>6. Recent(r)'
    BY <1>1, <2>2, <2>3, <2>4 DEF Recent, Has
  <2>7. ASSUME NEW q \in Reader, q # r PROVE Recent(q)'
    BY <1>1, <2>2, <2>4, <2>7 DEF Recent, Has, MetadataInv
  <2> QED
    BY <1>0, <2>2, <2>5, <2>6, <2>7 DEF MetadataInv, Spaced, Bounded
<1>3. CASE ~Metadata!Fresh
  <2> DEFINE new == [begun |-> age, tried |-> 0, end |-> "flying"]
  <2>1. new \in LoadType /\ new.begun = age /\ new.tried = 0
    BY <1>0 DEF LoadType
  <2>2. /\ loads' = Append(loads, new) /\ reads' = [reads EXCEPT ![r] = Len(loads')]
        /\ catalogCache' = <<[load |-> Len(loads'), expiresAt |-> age + MODELS_DEV_CACHE_TTL]>>
    BY <1>3 DEF Metadata!FetchModelsDevMeta, Metadata!GetModelsDevCatalogCache
  <2> HIDE DEF new
  <2>3. /\ loads' \in Seq(LoadType) /\ Len(loads') = Len(loads) + 1 /\ Len(loads) \in Nat
        /\ loads'[Len(loads')] = new /\ \A l \in 1 .. Len(loads) : loads'[l] = loads[l]
    BY <1>0, <2>1, <2>2
  <2>4. loads' # <<>>
    BY <2>3
  <2>5. catalogCache' = Entry(loads')
    BY <2>1, <2>2, <2>3 DEF Entry
  <2>6. reads' \in [Reader -> Nat] /\ \A q \in Reader : reads'[q] = IF q = r THEN Len(loads') ELSE reads[q]
    BY <1>0, <2>2, <2>3
  <2>7. MetadataType'
    <3>1. \A q \in Reader : /\ reads[q] \in Nat /\ reads[q] <= Len(loads)
                            /\ metadata[q].load \in Nat /\ metadata[q].load <= Len(loads)
      BY <1>0 DEF MetadataInv, MetadataType
    <3>2. \A q \in Reader : reads'[q] <= Len(loads') /\ metadata'[q].load <= Len(loads')
      <4> SUFFICES ASSUME NEW q \in Reader
                   PROVE  reads'[q] <= Len(loads') /\ metadata'[q].load <= Len(loads')
        OBVIOUS
      <4>1. Len(loads) \in Nat /\ Len(loads') = Len(loads) + 1 /\ metadata'[q].load = metadata[q].load
            /\ reads'[q] = IF q = r THEN Len(loads') ELSE reads[q]
        BY <1>1, <2>3, <2>6
      <4> QED
        BY <3>1, <4>1
    <3>3. age' \in 0 .. MaxAge /\ builtin' \in {"none", "loading", "ready"}
      BY <1>0 DEF MetadataInv, MetadataType
    <3> QED
      BY <1>1, <2>3, <2>6, <3>2, <3>3 DEF MetadataType
  <2>8. Spaced'
    <3> SUFFICES ASSUME NEW l \in 1 .. Len(loads)
                 PROVE  loads'[l + 1].begun >= loads'[l].begun + MODELS_DEV_CACHE_TTL
      BY <2>3 DEF Spaced
    <3>1. CASE l = Len(loads)
      <4>0. l \in DOMAIN loads /\ loads # <<>> /\ loads[l] \in LoadType
        <5>1. l \in DOMAIN loads
          BY <1>0, <2>3
        <5> QED
          BY <1>0, <5>1
      <4>1. loads # <<>> /\ loads[l] \in LoadType /\ loads[l].begun \in Nat
        BY <4>0 DEF LoadType
      <4>2. catalogCache # <<>> /\ catalogCache[1].expiresAt = loads[l].begun + MODELS_DEV_CACHE_TTL
        BY <3>1, <4>1, LatestLoad DEF MetadataInv, Entry
      <4>3. ~(catalogCache[1].expiresAt > age)
        BY <1>3, <4>2 DEF Metadata!Fresh
      <4> QED
        BY <1>0, <2>1, <2>3, <3>1, <4>1, <4>2, <4>3
    <3>2. CASE l # Len(loads)
      <4>1. l \in 1 .. (Len(loads) - 1) /\ l + 1 \in 1 .. Len(loads)
        BY <2>3, <3>2
      <4> QED
        BY <2>3, <4>1 DEF MetadataInv, Spaced
    <3> QED
      BY <3>1, <3>2
  <2>9. Bounded'
    <3> SUFFICES ASSUME NEW l \in 1 .. Len(loads')
                 PROVE  /\ loads'[l].begun <= age /\ loads'[l].tried <= MODELS_DEV_RETRIES
                        /\ loads'[l].end = "flying" => loads'[l].tried < MODELS_DEV_RETRIES
      BY <1>0, <2>3 DEF Bounded
    <3>1. CASE l = Len(loads')
      BY <1>0, <2>1, <2>3, <3>1
    <3>2. CASE l # Len(loads')
      <4>1. l \in 1 .. Len(loads) /\ l \in DOMAIN loads
        BY <1>0, <2>3, <3>2
      <4> QED
        BY <2>3, <4>1 DEF MetadataInv, Bounded
    <3> QED
      BY <3>1, <3>2
  <2>10. Recent(r)'
    BY <1>0, <1>1, <2>1, <2>3, <2>6 DEF Recent, Has
  <2>11. ASSUME NEW q \in Reader, q # r PROVE Recent(q)'
    <3>1. Has(q)' = Has(q) /\ Has(q) \in Nat /\ Has(q) <= Len(loads)
      BY <1>0, <1>1, <2>6, <2>11 DEF Has, MetadataInv, MetadataType
    <3>2. Has(q) # 0 => loads'[Has(q)] = loads[Has(q)]
      BY <2>3, <3>1
    <3> QED
      BY <1>1, <2>11, <3>1, <3>2 DEF Recent, MetadataInv
  <2> QED
    BY <2>4, <2>5, <2>7, <2>8, <2>9, <2>10, <2>11 DEF MetadataInv
<1> QED
  BY <1>2, <1>3

(* an attempt of a load *)
LEMMA AttemptKept ==
  ASSUME MetadataInv, NEW l \in DOMAIN loads, NEW ok \in BOOLEAN,
         Metadata!FetchModelsDevCatalog(l, ok)
  PROVE  MetadataInv'
<1>0. /\ MODELS_DEV_RETRIES \in Nat \ {0} /\ loads \in Seq(LoadType) /\ loads[l] \in LoadType
      /\ loads[l].end = "flying" /\ loads[l].tried \in Nat
      /\ UNCHANGED <<age, catalogCache, reads, metadata, builtin>>
  <2>1. loads \in Seq(LoadType)
    BY DEF MetadataInv, MetadataType
  <2>2. loads[l] \in LoadType
    BY <2>1
  <2>3. loads[l].end = "flying" /\ UNCHANGED <<age, catalogCache, reads, metadata, builtin>>
    BY DEF Metadata!FetchModelsDevCatalog
  <2> QED
    BY <2>1, <2>2, <2>3, ProvidersAssumption DEF LoadType
<1> DEFINE n == [loads[l] EXCEPT !.tried = @ + 1,
                                 !.end = IF ok THEN "full"
                                         ELSE IF loads[l].tried + 1 = MODELS_DEV_RETRIES
                                         THEN "empty" ELSE @]
<1>1. n \in LoadType /\ n.begun = loads[l].begun /\ n.tried = loads[l].tried + 1
      /\ (n.end = "flying" => n.tried # MODELS_DEV_RETRIES)
  <2> DEFINE what == IF ok THEN "full"
                     ELSE IF loads[l].tried + 1 = MODELS_DEV_RETRIES THEN "empty" ELSE loads[l].end
  <2>1. what \in {"flying", "full", "empty"}
        /\ (what = "flying" => loads[l].tried + 1 # MODELS_DEV_RETRIES)
    BY <1>0
  <2>2. n = [loads[l] EXCEPT !.tried = @ + 1, !.end = what]
    OBVIOUS
  <2>3. loads[l].tried + 1 \in Nat
    BY <1>0
  <2> HIDE DEF what, n
  <2> QED
    BY <1>0, <2>1, <2>2, <2>3 DEF LoadType
<1>2. loads' = [loads EXCEPT ![l] = n]
  BY <1>0 DEF Metadata!FetchModelsDevCatalog
<1> HIDE DEF n
<1>3. /\ loads' \in Seq(LoadType) /\ Len(loads') = Len(loads) /\ DOMAIN loads' = DOMAIN loads
      /\ \A m \in DOMAIN loads : loads'[m] = IF m = l THEN n ELSE loads[m]
  BY <1>0, <1>1, <1>2
<1>4. Len(loads) \in Nat /\ DOMAIN loads = 1 .. Len(loads) /\ loads # <<>> /\ loads' # <<>>
  BY <1>0, <1>3
<1>5. \A m \in DOMAIN loads : loads'[m].begun = loads[m].begun
  BY <1>1, <1>3
<1>6. loads[l].tried < MODELS_DEV_RETRIES
  BY <1>0 DEF MetadataInv, Bounded
<1>7. MetadataType'
  BY <1>0, <1>3 DEF MetadataInv, MetadataType
<1>8. Spaced'
  <2> SUFFICES ASSUME NEW m \in 1 .. (Len(loads) - 1)
               PROVE  loads'[m + 1].begun >= loads'[m].begun + MODELS_DEV_CACHE_TTL
    BY <1>3 DEF Spaced
  <2>1. m \in DOMAIN loads /\ m + 1 \in DOMAIN loads
    BY <1>4
  <2> QED
    BY <1>5, <2>1 DEF MetadataInv, Spaced
<1>9. Bounded'
  <2> SUFFICES ASSUME NEW m \in DOMAIN loads
               PROVE  /\ loads'[m].begun <= age /\ loads'[m].tried <= MODELS_DEV_RETRIES
                      /\ loads'[m].end = "flying" => loads'[m].tried < MODELS_DEV_RETRIES
    BY <1>0, <1>3 DEF Bounded
  <2>1. CASE m = l
    BY <1>0, <1>1, <1>3, <1>6, <2>1 DEF MetadataInv, Bounded
  <2>2. CASE m # l
    BY <1>3, <2>2 DEF MetadataInv, Bounded
  <2> QED
    BY <2>1, <2>2
<1>10. ASSUME NEW q \in Reader PROVE Recent(q)'
  <2>1. Has(q)' = Has(q) /\ Has(q) \in Nat /\ Has(q) <= Len(loads)
    BY <1>0 DEF Has, MetadataInv, MetadataType
  <2>2. Has(q) # 0 => Has(q) \in DOMAIN loads
    BY <1>4, <2>1
  <2> QED
    BY <1>0, <1>5, <2>1, <2>2 DEF Recent, MetadataInv
<1>11. catalogCache' = Entry(loads')
  <2>1. Len(loads) \in DOMAIN loads
    BY <1>4
  <2> QED
    BY <1>0, <1>3, <1>4, <1>5, <2>1 DEF MetadataInv, Entry
<1> QED
  BY <1>4, <1>7, <1>8, <1>9, <1>10, <1>11 DEF MetadataInv

LEMMA MetadataStep == MetadataInv /\ (Metadata!Next \/ UNCHANGED metadataVars) => MetadataInv'
<1> SUFFICES ASSUME MetadataInv, Metadata!Next \/ UNCHANGED metadataVars PROVE MetadataInv'
  OBVIOUS
<1>1. ASSUME NEW r \in Reader, Metadata!FetchModelsDevMeta(r) PROVE MetadataInv'
  BY <1>1, AskKept
<1>2. ASSUME NEW r \in Reader, Metadata!Read(r) PROVE MetadataInv'
  <2>0. /\ UNCHANGED <<age, catalogCache, loads, builtin>> /\ reads[r] # 0 /\ age \in Nat
        /\ reads \in [Reader -> Nat]
        /\ metadata \in [Reader -> [load : Nat, at : Nat, asked : Nat]]
    BY <1>2 DEF Metadata!Read, MetadataInv, MetadataType
  <2>1. /\ reads' \in [Reader -> Nat] /\ \A q \in Reader : reads'[q] = IF q = r THEN 0 ELSE reads[q]
    BY <1>2, <2>0 DEF Metadata!Read
  <2>2. /\ metadata' \in [Reader -> [load : Nat, at : Nat, asked : Nat]]
        /\ \A q \in Reader : /\ metadata'[q].asked = metadata[q].asked
                             /\ metadata'[q].load = IF q = r THEN reads[r] ELSE metadata[q].load
    BY <1>2, <2>0 DEF Metadata!Read
  <2>3. MetadataType'
    <3>1. \A q \in Reader : reads[q] \in Nat /\ reads[q] <= Len(loads) /\ metadata[q].load <= Len(loads)
      BY <2>0 DEF MetadataInv, MetadataType
    <3>2. age' \in 0 .. MaxAge /\ builtin' \in {"none", "loading", "ready"} /\ loads' \in Seq(LoadType)
          /\ Len(loads') = Len(loads) /\ Len(loads) \in Nat
      BY <2>0 DEF MetadataInv, MetadataType
    <3>3. \A q \in Reader : reads'[q] <= Len(loads') /\ metadata'[q].load <= Len(loads')
      BY <2>1, <2>2, <3>1, <3>2
    <3> QED
      BY <2>1, <2>2, <3>2, <3>3 DEF MetadataType
  <2>4. ASSUME NEW q \in Reader PROVE Recent(q)'
    <3>1. Has(q)' = Has(q)
      BY <2>0, <2>1, <2>2 DEF Has
    <3> QED
      BY <2>0, <2>2, <3>1 DEF Recent, MetadataInv
  <2> QED
    BY <2>0, <2>3, <2>4 DEF MetadataInv, Spaced, Bounded
<1>3. ASSUME NEW l \in DOMAIN loads, NEW ok \in BOOLEAN, Metadata!FetchModelsDevCatalog(l, ok)
      PROVE  MetadataInv'
  BY <1>3, AttemptKept
<1>4. ASSUME NEW ok \in BOOLEAN, Metadata!LoadBuiltinModelsModule(ok) PROVE MetadataInv'
  <2>1. UNCHANGED <<age, catalogCache, loads, reads, metadata>>
        /\ builtin' \in {"none", "loading", "ready"}
    BY <1>4 DEF Metadata!LoadBuiltinModelsModule
  <2> QED
    BY <2>1 DEF MetadataInv, MetadataType, Spaced, Bounded, Recent, Has
<1>5. CASE Metadata!Tick
  <2>0. age \in Nat /\ MaxAge \in Nat /\ age < MaxAge /\ age' = age + 1
        /\ UNCHANGED <<catalogCache, loads, reads, metadata, builtin>>
    BY <1>5, ProvidersAssumption DEF Metadata!Tick, MetadataInv, MetadataType
  <2>1. age' = age + 1 /\ age' \in 0 .. MaxAge /\ age \in Nat
        /\ UNCHANGED <<catalogCache, loads, reads, metadata, builtin>>
    BY <2>0
  <2>2. MetadataType'
    BY <2>1 DEF MetadataInv, MetadataType
  <2>3. Bounded'
    <3> SUFFICES ASSUME NEW l \in DOMAIN loads PROVE loads[l].begun <= age'
      BY <2>1 DEF Bounded, MetadataInv
    <3>0. loads[l] \in LoadType
      BY DEF MetadataInv, MetadataType
    <3>1. loads[l].begun \in Nat /\ loads[l].begun <= age
      BY <3>0 DEF MetadataInv, Bounded, LoadType
    <3> QED
      BY <2>1, <3>1
  <2> QED
    BY <2>1, <2>2, <2>3 DEF MetadataInv, Spaced, Recent, Has
<1>6. CASE UNCHANGED metadataVars
  BY <1>6 DEF metadataVars, MetadataInv, MetadataType, Spaced, Bounded, Recent, Has
<1> QED
  BY <1>1, <1>2, <1>3, <1>4, <1>5, <1>6 DEF Metadata!Next

LEMMA MetadataShared == MetadataInv => Metadata!TypeOK /\ Metadata!CatalogShared
<1> SUFFICES ASSUME MetadataInv PROVE Metadata!TypeOK /\ Metadata!CatalogShared
  OBVIOUS
<1>0. loads \in Seq(LoadType) /\ MODELS_DEV_CACHE_TTL \in Nat /\ Len(loads) \in Nat
  BY ProvidersAssumption DEF MetadataInv, MetadataType
<1>1. Metadata!TypeOK
  <2>1. catalogCache # <<>> => catalogCache[1].load \in DOMAIN loads
    <3>1. catalogCache # <<>> => loads # <<>>
      BY DEF MetadataInv
    <3> QED
      BY <3>1, LatestLoad
  <2>2. \A r \in Reader : reads[r] \in 0 .. Len(loads)
    BY <1>0 DEF MetadataInv, MetadataType
  <2> QED
    BY <2>1, <2>2 DEF Metadata!TypeOK, MetadataInv, MetadataType
<1>2. ASSUME NEW r \in Reader, Has(r) # 0
      PROVE  loads[Has(r)].begun \in (metadata[r].asked - MODELS_DEV_CACHE_TTL + 1) .. metadata[r].asked
  <2>0. /\ metadata[r] \in [load : Nat, at : Nat, asked : Nat] /\ reads[r] \in Nat
        /\ reads[r] <= Len(loads) /\ metadata[r].load <= Len(loads)
    BY DEF MetadataInv, MetadataType
  <2>1. Has(r) \in DOMAIN loads /\ metadata[r].asked \in Nat
    <3>1. Has(r) \in 1 .. Len(loads)
      BY <1>0, <1>2, <2>0 DEF Has
    <3> QED
      BY <1>0, <2>0, <3>1
  <2>2. loads[Has(r)] \in LoadType /\ loads[Has(r)].begun \in Nat
    <3>1. loads[Has(r)] \in LoadType
      BY <1>0, <2>1
    <3> QED
      BY <3>1 DEF LoadType
  <2>3. /\ loads[Has(r)].begun <= metadata[r].asked
        /\ metadata[r].asked < loads[Has(r)].begun + MODELS_DEV_CACHE_TTL
    BY <1>2 DEF MetadataInv, Recent
  <2> QED
    BY <1>0, <2>1, <2>2, <2>3
<1> QED
  BY <1>1, <1>2 DEF Metadata!CatalogShared, MetadataInv, Spaced, Bounded, Has

----------------------------------------------------------------------------
(* fetchWithRetry: only an answer that is kept has a body to wait for, and a  *)
(* caller goes on with the call's answer only after its end.                  *)
FetchInv ==
  /\ Fetch!TypeOK /\ Fetch!FetchSound
  /\ tries \in Nat /\ cancelled \in BOOLEAN
  /\ sending = "body" => got \in {"ok", "refused"}
  /\ caller \notin {"waits", "late"} => sending = "ended"

LEMMA FetchStarts == Fetch!Init => FetchInv
<1> SUFFICES ASSUME Fetch!Init PROVE FetchInv
  OBVIOUS
<1>1. tries \in Nat /\ tried \in 0 .. tries /\ sent \in 0 .. tried
  BY SMT DEF Fetch!Init
<1>2. armed \in BOOLEAN /\ linked \in BOOLEAN /\ cancelled \in BOOLEAN
  BY DEF Fetch!Init
<1>3. /\ sending \in {"next", "fetching", "failed", "backoff", "body", "ended"}
      /\ (armed <=> sending = "fetching") /\ (linked <=> sending = "fetching")
      /\ lastError \in {"none", "abort", "limit", "server", "network", "timeout"}
  BY Zenon DEF Fetch!Init
<1>4. Fetch!FetchSound
  BY DEF Fetch!Init, Fetch!FetchSound
<1> QED
  BY <1>1, <1>2, <1>3, <1>4 DEF Fetch!Init, FetchInv, Fetch!TypeOK

(* A request leaves only if the caller has not aborted. *)
LEMMA SendingKept == ASSUME FetchInv, Fetch!FetchWithTimeout PROVE FetchInv'
<1>1. CASE cancelled
  BY <1>1 DEF Fetch!FetchWithTimeout, Fetch!UpstreamAborted, FetchInv, Fetch!TypeOK, Fetch!FetchSound
<1>2. CASE ~cancelled
  BY <1>2 DEF Fetch!FetchWithTimeout, Fetch!UpstreamAborted, FetchInv, Fetch!TypeOK, Fetch!FetchSound
<1> QED
  BY <1>1, <1>2 DEF FetchInv

LEMMA FetchStep == FetchInv /\ (Fetch!Next \/ UNCHANGED fetchVars) => FetchInv'
<1> SUFFICES ASSUME FetchInv, Fetch!Next \/ UNCHANGED fetchVars PROVE FetchInv'
  OBVIOUS
<1>1. CASE Fetch!FetchWithTimeout
  BY <1>1, SendingKept
(* whatever ends the wait for the headers, timer and link are gone with it *)
<1>2. ASSUME NEW status \in {"ok", "refused", "limit", "server"}, Fetch!Answer(status)
      PROVE  FetchInv'
  BY <1>2 DEF Fetch!Answer, Fetch!LetGo, FetchInv, Fetch!TypeOK, Fetch!FetchSound
<1>3. ASSUME NEW why \in {"network", "timeout"}, Fetch!Reject(why) PROVE FetchInv'
  BY <1>3 DEF Fetch!Reject, Fetch!LetGo, FetchInv, Fetch!TypeOK, Fetch!FetchSound
<1>4. CASE Fetch!Abort
  BY <1>4 DEF Fetch!Abort, Fetch!LetGo, FetchInv, Fetch!TypeOK, Fetch!FetchSound
<1>5. CASE Fetch!FetchWithRetry
  BY <1>5 DEF Fetch!FetchWithRetry, FetchInv, Fetch!TypeOK, Fetch!FetchSound
<1>6. CASE Fetch!Sleep \/ Fetch!Body \/ Fetch!Settle \/ Fetch!WithFetchDeadline
  BY <1>6 DEF Fetch!Sleep, Fetch!Body, Fetch!Settle, Fetch!WithFetchDeadline, FetchInv,
     Fetch!TypeOK, Fetch!FetchSound
<1>7. CASE UNCHANGED fetchVars
  BY <1>7 DEF fetchVars, FetchInv, Fetch!TypeOK, Fetch!FetchSound
<1> QED
  BY <1>1, <1>2, <1>3, <1>4, <1>5, <1>6, <1>7 DEF Fetch!Next

----------------------------------------------------------------------------
(* streamQoder: each block of the message is ended once, and the marks of the *)
(* parser and of the calls lead to blocks of their kind.                      *)
Char == {"a", "n", "<", ">", "t", "T", "r", "R", "x"}
BlockRecord == [kind : {"text", "thinking", "toolCall"}, id : Tool \cup {Qoder!Null},
                body : Seq(Char), starts : Nat, deltas : Nat, ends : Nat, args : Nat]
StreamRecord == [content : Seq(BlockRecord), plain : Int, reasoning : Int,
                 calls : [Tool -> [known : BOOLEAN, pieces : Nat, at : Int]],
                 native : BOOLEAN, parser : BOOLEAN, buffer : Seq(Char), inside : BOOLEAN,
                 think : Int, text : Int, tag : Seq(Char)]

(* All but the content is the same.                                           *)
SameMarks(r, s) ==
  /\ r.plain = s.plain /\ r.reasoning = s.reasoning /\ r.calls = s.calls /\ r.native = s.native
  /\ r.parser = s.parser /\ r.buffer = s.buffer /\ r.inside = s.inside
  /\ r.think = s.think /\ r.text = s.text /\ r.tag = s.tag

(* One block has changed, and is of the same kind and number as before.       *)
SameBut(r, s, place) ==
  /\ Len(r.content) = Len(s.content)
  /\ \A n \in 1 .. Len(s.content) : n # place => r.content[n] = s.content[n]
  /\ r.content[place].kind = s.content[place].kind /\ r.content[place].id = s.content[place].id

Changed(b, v, d) == [b EXCEPT !.body = v, !.deltas = d]
LEMMA BlockChanged ==
  ASSUME NEW b \in BlockRecord, NEW v \in Seq(Char), NEW d \in Nat,
         NEW c, c = Changed(b, v, d)
  PROVE  c \in BlockRecord /\ c.kind = b.kind /\ c.id = b.id /\ c.body = v /\ c.ends = b.ends
                           /\ c.deltas = d
BY DEF BlockRecord, Changed

LEMMA BlockGrown ==
  ASSUME NEW b \in BlockRecord, NEW t \in Seq(Char),
         NEW c, c = Changed(b, b.body \o t, b.deltas + 1)
  PROVE  c \in BlockRecord /\ c.kind = b.kind /\ c.id = b.id /\ c.body = b.body \o t /\ c.ends = b.ends
<1> DEFINE v == b.body \o t
           d == b.deltas + 1
<1>1. b.body \in Seq(Char) /\ b.deltas \in Nat
  BY DEF BlockRecord
<1>2. v \in Seq(Char) /\ d \in Nat /\ c = Changed(b, v, d)
  BY <1>1
<1>3. v = b.body \o t
  OBVIOUS
<1> HIDE DEF v, d
<1>4. c \in BlockRecord /\ c.kind = b.kind /\ c.id = b.id /\ c.body = v /\ c.ends = b.ends
  BY <1>2, BlockChanged, Z3
<1> QED BY <1>3, <1>4

LEMMA BlockEnded ==
  ASSUME NEW b \in BlockRecord, NEW c, c = [b EXCEPT !.ends = b.ends + 1]
  PROVE  c \in BlockRecord /\ c.kind = b.kind /\ c.id = b.id /\ c.body = b.body
                           /\ c.ends = b.ends + 1 /\ c.deltas = b.deltas
BY DEF BlockRecord

LEMMA ContentChanged ==
  ASSUME NEW s \in StreamRecord, NEW c \in Seq(BlockRecord), NEW r, r = [s EXCEPT !.content = c]
  PROVE  r \in StreamRecord /\ SameMarks(r, s) /\ r.content = c
BY DEF StreamRecord, SameMarks

Replaced(s, place, b) == [s EXCEPT !.content = [s.content EXCEPT ![place] = b]]
LEMMA BlockReplaced ==
  ASSUME NEW s \in StreamRecord, NEW place \in 1 .. Len(s.content), NEW b \in BlockRecord,
         b.kind = s.content[place].kind, b.id = s.content[place].id,
         NEW r, r = Replaced(s, place, b)
  PROVE  r \in StreamRecord /\ SameMarks(r, s) /\ SameBut(r, s, place) /\ r.content[place] = b
<1> DEFINE c == [s.content EXCEPT ![place] = b]
<1>1. s.content \in Seq(BlockRecord)
  BY DEF StreamRecord
<1>2. c \in Seq(BlockRecord) /\ Len(c) = Len(s.content) /\ c[place] = b
      /\ \A n \in 1 .. Len(s.content) : n # place => c[n] = s.content[n]
  BY <1>1
<1> HIDE DEF c
<1>3. r \in StreamRecord /\ SameMarks(r, s) /\ r.content = c
  BY <1>2, ContentChanged DEF c, Replaced
<1> QED BY <1>2, <1>3 DEF SameBut

LEMMA StartedState ==
  ASSUME NEW s \in StreamRecord, NEW sort \in {"text", "thinking", "toolCall"},
         NEW id \in Tool \cup {Qoder!Null}, NEW r, r = Qoder!Started(s, sort, id),
         NEW b, b = Qoder!Block(sort, id)
  PROVE  /\ r \in StreamRecord /\ SameMarks(r, s) /\ b \in BlockRecord
         /\ Len(r.content) = Len(s.content) + 1 /\ Qoder!Here(s) = Len(s.content) + 1
         /\ Qoder!Here(s) \in 1 .. Len(r.content)
         /\ \A n \in 1 .. Len(s.content) : r.content[n] = s.content[n]
         /\ r.content[Len(s.content) + 1] = b
         /\ b.kind = sort /\ b.id = id /\ b.body = <<>> /\ b.ends = 0 /\ b.deltas = 0
<1>1. b \in BlockRecord /\ b.kind = sort /\ b.id = id /\ b.body = <<>> /\ b.ends = 0 /\ b.deltas = 0
  BY DEF Qoder!Block, BlockRecord
<1>2. s.content \in Seq(BlockRecord)
  BY DEF StreamRecord
<1>3. r = [s EXCEPT !.content = Append(s.content, b)]
  BY DEF Qoder!Started
<1>4. Append(s.content, b) \in Seq(BlockRecord)
  BY <1>1, <1>2
<1>5. r \in StreamRecord /\ SameMarks(r, s) /\ r.content = Append(s.content, b)
  BY <1>3, <1>4, ContentChanged
<1> QED BY <1>1, <1>2, <1>5 DEF Qoder!Here

LEMMA GrownState ==
  ASSUME NEW s \in StreamRecord, NEW place \in 1 .. Len(s.content), NEW t \in Seq(Char),
         NEW r, r = Qoder!Grown(s, place, t)
  PROVE  /\ r \in StreamRecord /\ SameMarks(r, s) /\ SameBut(r, s, place)
         /\ r.content[place].body = s.content[place].body \o t
         /\ r.content[place].ends = s.content[place].ends
<1> DEFINE a == s.content[place]
           b == Changed(a, a.body \o t, a.deltas + 1)
<1>1. a \in BlockRecord
  BY DEF StreamRecord
<1>2. r = Replaced(s, place, b)
  BY DEF Qoder!Grown, Changed, Replaced
<1> HIDE DEF a
<1>3. b \in BlockRecord /\ b.kind = a.kind /\ b.id = a.id /\ b.body = a.body \o t /\ b.ends = a.ends
  BY <1>1, BlockGrown
<1> HIDE DEF b
<1>4. b \in BlockRecord /\ b.kind = s.content[place].kind /\ b.id = s.content[place].id
  BY <1>3 DEF a
<1>5. r \in StreamRecord /\ SameMarks(r, s) /\ SameBut(r, s, place) /\ r.content[place] = b
  BY <1>2, <1>4, BlockReplaced
<1> QED BY <1>3, <1>5 DEF a

LEMMA EndedState ==
  ASSUME NEW s \in StreamRecord, NEW place \in 1 .. Len(s.content),
         NEW r, r = Qoder!Ended(s, place)
  PROVE  /\ r \in StreamRecord /\ SameMarks(r, s) /\ SameBut(r, s, place)
         /\ r.content[place].body = s.content[place].body
         /\ r.content[place].deltas = s.content[place].deltas
         /\ r.content[place].ends = s.content[place].ends + 1
<1> DEFINE a == s.content[place]
           b == [a EXCEPT !.ends = a.ends + 1]
<1>1. a \in BlockRecord
  BY DEF StreamRecord
<1>2. r = Replaced(s, place, b)
  BY DEF Qoder!Ended, Replaced
<1> HIDE DEF a
<1>3. b \in BlockRecord /\ b.kind = a.kind /\ b.id = a.id /\ b.body = a.body /\ b.ends = a.ends + 1
      /\ b.deltas = a.deltas
  BY <1>1, BlockEnded
<1> HIDE DEF b
<1>4. b \in BlockRecord /\ b.kind = s.content[place].kind /\ b.id = s.content[place].id
  BY <1>3 DEF a
<1>5. r \in StreamRecord /\ SameMarks(r, s) /\ SameBut(r, s, place) /\ r.content[place] = b
  BY <1>2, <1>4, BlockReplaced
<1> QED BY <1>3, <1>5 DEF a

(* Marks lead to blocks of their kind.  A block of thinking is ended unless a *)
(* mark leads to it, and no other is, before the end.                         *)
Null == Qoder!Null
Points(s, p, sort) == p # Null => p \in 1 .. Len(s.content) /\ s.content[p].kind = sort
MarksInv(s) ==
  /\ Points(s, s.plain, "text") /\ Points(s, s.text, "text")
  /\ Points(s, s.think, "thinking") /\ Points(s, s.reasoning, "thinking")
  /\ s.think # Null => s.inside /\ s.parser /\ s.think # s.reasoning
  /\ s.text # Null => s.parser
  /\ s.reasoning # Null => s.native
  /\ s.plain # Null => s.native \/ ~s.parser
BlocksInv(s) ==
  \A n \in 1 .. Len(s.content) :
    /\ s.content[n].ends = IF s.content[n].kind = "thinking" /\ n \notin {s.think, s.reasoning}
                           THEN 1 ELSE 0
    /\ s.content[n].kind = "toolCall" => s.content[n].body = <<>>
(* Thinking is put before an open text, which is the last block but for calls.*)
CallsInv(s) ==
  \A i \in Tool :
    s.calls[i].at # Null => /\ s.calls[i].at \in 1 .. Len(s.content)
                            /\ s.content[s.calls[i].at].kind # "thinking"
                            /\ s.text # Null /\ s.think = Null => s.calls[i].at # s.text
OpenTextInv(s) ==
  s.text # Null /\ ~s.native =>
    \A n \in 1 .. Len(s.content) : n > s.text => s.content[n].kind = "toolCall"
Kept(s) == s \in StreamRecord /\ MarksInv(s) /\ BlocksInv(s) /\ CallsInv(s) /\ OpenTextInv(s)

NoTools(s) == \A n \in 1 .. Len(s.content) : s.content[n].kind # "toolCall"
(* Blocks were added or changed, but none of a call.                          *)
SameTools(r, s) ==
  /\ r.calls = s.calls /\ Len(s.content) <= Len(r.content)
  /\ \A n \in 1 .. Len(s.content) : s.content[n].kind = "toolCall" => r.content[n] = s.content[n]
  /\ \A n \in 1 .. Len(r.content) :
       r.content[n].kind = "toolCall" => n \in 1 .. Len(s.content) /\ s.content[n].kind = "toolCall"

LEMMA NullIs == Null = -1 /\ Null \in Int /\ Null \notin Nat
BY DEF Null, Qoder!Null

LEMMA LenOfContent == ASSUME NEW s \in StreamRecord PROVE Len(s.content) \in Nat
BY DEF StreamRecord

LEMMA GrownKept ==
  ASSUME NEW s, Kept(s), NEW place \in 1 .. Len(s.content), s.content[place].kind # "toolCall",
         NEW t \in Seq(Char), NEW r, r = Qoder!Grown(s, place, t)
  PROVE  Kept(r) /\ SameMarks(r, s) /\ SameTools(r, s) /\ SameBut(r, s, place)
<1>1. /\ s \in StreamRecord /\ r \in StreamRecord /\ SameMarks(r, s) /\ SameBut(r, s, place)
      /\ r.content[place].ends = s.content[place].ends
  BY GrownState DEF Kept
<1>2. /\ Len(r.content) = Len(s.content)
      /\ \A n \in 1 .. Len(s.content) : /\ r.content[n].kind = s.content[n].kind
                                        /\ r.content[n].ends = s.content[n].ends
                                        /\ s.content[n].kind = "toolCall" => r.content[n] = s.content[n]
  BY <1>1 DEF SameBut
<1>3. SameTools(r, s)
  BY <1>1, <1>2, LenOfContent DEF SameTools, SameMarks
<1>4. MarksInv(r) /\ BlocksInv(r)
  <2>1. MarksInv(r)
    BY <1>1, <1>2 DEF Kept, MarksInv, Points, SameMarks
  <2>2. BlocksInv(r)
    BY <1>1, <1>2 DEF Kept, BlocksInv, SameMarks
  <2> QED BY <2>1, <2>2
<1>5. CallsInv(r) /\ OpenTextInv(r)
  BY <1>1, <1>2 DEF Kept, CallsInv, OpenTextInv, SameMarks
<1> QED BY <1>1, <1>3, <1>4, <1>5 DEF Kept

WithText(s, p) == [s EXCEPT !.text = p]
LEMMA TextMarked ==
  ASSUME NEW s \in StreamRecord, NEW p \in Int, NEW r, r = WithText(s, p)
  PROVE  /\ r \in StreamRecord /\ r.text = p /\ r.content = s.content
         /\ r.plain = s.plain /\ r.reasoning = s.reasoning /\ r.calls = s.calls
         /\ r.native = s.native /\ r.parser = s.parser /\ r.buffer = s.buffer
         /\ r.inside = s.inside /\ r.think = s.think /\ r.tag = s.tag
BY DEF StreamRecord, WithText

WithThink(s, p) == [s EXCEPT !.think = p]
LEMMA ThinkMarked ==
  ASSUME NEW s \in StreamRecord, NEW p \in Int, NEW r, r = WithThink(s, p)
  PROVE  /\ r \in StreamRecord /\ r.think = p /\ r.content = s.content
         /\ r.plain = s.plain /\ r.reasoning = s.reasoning /\ r.calls = s.calls
         /\ r.native = s.native /\ r.parser = s.parser /\ r.buffer = s.buffer
         /\ r.inside = s.inside /\ r.text = s.text /\ r.tag = s.tag
BY DEF StreamRecord, WithThink

WithPlain(s, p) == [s EXCEPT !.plain = p]
LEMMA PlainMarked ==
  ASSUME NEW s \in StreamRecord, NEW p \in Int, NEW r, r = WithPlain(s, p)
  PROVE  /\ r \in StreamRecord /\ r.plain = p /\ r.content = s.content
         /\ r.think = s.think /\ r.reasoning = s.reasoning /\ r.calls = s.calls
         /\ r.native = s.native /\ r.parser = s.parser /\ r.buffer = s.buffer
         /\ r.inside = s.inside /\ r.text = s.text /\ r.tag = s.tag
BY DEF StreamRecord, WithPlain

WithReasoning(s, p) == [s EXCEPT !.reasoning = p]
LEMMA ReasoningMarked ==
  ASSUME NEW s \in StreamRecord, NEW p \in Int, NEW r, r = WithReasoning(s, p)
  PROVE  /\ r \in StreamRecord /\ r.reasoning = p /\ r.content = s.content
         /\ r.think = s.think /\ r.plain = s.plain /\ r.calls = s.calls
         /\ r.native = s.native /\ r.parser = s.parser /\ r.buffer = s.buffer
         /\ r.inside = s.inside /\ r.text = s.text /\ r.tag = s.tag
BY DEF StreamRecord, WithReasoning

(* A block at the end that is none of a call.                                 *)
Appends(r, s, sort) ==
  /\ Len(s.content) \in Nat /\ Len(r.content) = Len(s.content) + 1 /\ Qoder!Here(s) = Len(s.content) + 1
  /\ \A n \in 1 .. Len(r.content) : n \in 1 .. Len(s.content) \/ n = Len(s.content) + 1
  /\ \A n \in 1 .. Len(s.content) : r.content[n] = s.content[n]
  /\ r.content[Len(s.content) + 1].kind = sort /\ r.content[Len(s.content) + 1].ends = 0
  /\ r.content[Len(s.content) + 1].body = <<>>

LEMMA Appended ==
  ASSUME NEW s \in StreamRecord, NEW sort \in {"text", "thinking"}, NEW q, q = Qoder!Started(s, sort, Null),
         NEW r, r.content = q.content, r.calls = s.calls
  PROVE  Appends(r, s, sort) /\ SameTools(r, s)
<1> DEFINE b == Qoder!Block(sort, Null)
<1>1. /\ Len(q.content) = Len(s.content) + 1 /\ Qoder!Here(s) = Len(s.content) + 1
      /\ \A n \in 1 .. Len(s.content) : q.content[n] = s.content[n]
      /\ q.content[Len(s.content) + 1] = b
      /\ b.kind = sort /\ b.body = <<>> /\ b.ends = 0
  BY StartedState DEF Null
<1> HIDE DEF b
<1>2. Len(s.content) \in Nat /\ Len(r.content) = Len(s.content) + 1
      /\ \A n \in 1 .. Len(r.content) : n \in 1 .. Len(s.content) \/ n = Len(s.content) + 1
  BY <1>1, LenOfContent
<1>3. Appends(r, s, sort)
  BY <1>1, <1>2 DEF Appends
<1> QED BY <1>3 DEF Appends, SameTools

LEMMA AppendedPoints ==
  ASSUME NEW s, NEW r, NEW sort, Appends(r, s, sort)
  PROVE  /\ \A p, k : Points(s, p, k) => Points(r, p, k)
         /\ Points(r, Qoder!Here(s), sort) /\ Qoder!Here(s) \in 1 .. Len(r.content)
         /\ Qoder!Here(s) # Null /\ Qoder!Here(s) \in Int /\ Qoder!Here(s) \notin 1 .. Len(s.content)
BY NullIs DEF Appends, Points

(* A new block at the end becomes the open one of its kind.                   *)
Opened(r, s, sort) ==
  LET h == Qoder!Here(s)
  IN /\ r \in StreamRecord /\ Appends(r, s, sort) /\ SameTools(r, s)
     /\ r.native = s.native /\ r.parser = s.parser /\ r.buffer = s.buffer
     /\ r.inside = s.inside /\ r.tag = s.tag
     /\ \/ /\ sort = "text" /\ s.text = Null /\ s.parser
           /\ r.text = h /\ r.plain = s.plain /\ r.think = s.think /\ r.reasoning = s.reasoning
        \/ /\ sort = "text" /\ (s.native \/ ~s.parser)
           /\ r.text = s.text /\ r.plain = h /\ r.think = s.think /\ r.reasoning = s.reasoning
        \/ /\ sort = "thinking" /\ s.think = Null /\ s.text = Null /\ s.inside /\ s.parser
           /\ r.text = s.text /\ r.plain = s.plain /\ r.think = h /\ r.reasoning = s.reasoning
        \/ /\ sort = "thinking" /\ s.reasoning = Null /\ s.native
           /\ r.text = s.text /\ r.plain = s.plain /\ r.think = s.think /\ r.reasoning = h

LEMMA OpenedKept ==
  ASSUME NEW s, Kept(s), NEW sort \in {"text", "thinking"}, NEW r, Opened(r, s, sort)
  PROVE  Kept(r) /\ Qoder!Here(s) \in 1 .. Len(r.content) /\ r.content[Qoder!Here(s)].kind = sort
<1> DEFINE h == Qoder!Here(s)
<1>1. /\ \A p, k : Points(s, p, k) => Points(r, p, k)
      /\ Points(r, h, sort) /\ h \in 1 .. Len(r.content)
      /\ h # Null /\ h \notin 1 .. Len(s.content) /\ Appends(r, s, sort)
  BY AppendedPoints DEF Opened
<1>2. /\ \A n \in 1 .. Len(r.content) : n \in 1 .. Len(s.content) \/ n = h
      /\ \A n \in 1 .. Len(s.content) : r.content[n] = s.content[n] /\ n \in 1 .. Len(r.content)
      /\ r.content[h].kind = sort /\ r.content[h].ends = 0 /\ r.content[h].body = <<>>
      /\ \A n \in 1 .. Len(s.content) : h > n
      /\ ~ \E n \in 1 .. Len(r.content) : n > h
  BY <1>1 DEF Appends
<1>3. /\ r \in StreamRecord /\ r.calls = s.calls /\ r.native = s.native /\ r.parser = s.parser
      /\ r.inside = s.inside
  BY DEF Opened, SameTools
<1> DEFINE Marks == \/ /\ sort = "text" /\ s.text = Null /\ s.parser
                       /\ r.text = h /\ r.plain = s.plain /\ r.think = s.think /\ r.reasoning = s.reasoning
                    \/ /\ sort = "text" /\ (s.native \/ ~s.parser)
                       /\ r.text = s.text /\ r.plain = h /\ r.think = s.think /\ r.reasoning = s.reasoning
                    \/ /\ sort = "thinking" /\ s.think = Null /\ s.text = Null /\ s.inside /\ s.parser
                       /\ r.text = s.text /\ r.plain = s.plain /\ r.think = h /\ r.reasoning = s.reasoning
                    \/ /\ sort = "thinking" /\ s.reasoning = Null /\ s.native
                       /\ r.text = s.text /\ r.plain = s.plain /\ r.think = s.think /\ r.reasoning = h
<1>4. Marks
  BY DEF Opened
<1> HIDE DEF h
<1>5. MarksInv(r)
  <2>1. MarksInv(s) /\ (s.think # Null => s.think # h) /\ (s.reasoning # Null => s.reasoning # h)
    BY <1>1 DEF Kept, MarksInv, Points
  <2>2. /\ Points(r, r.plain, "text") /\ Points(r, r.text, "text")
        /\ Points(r, r.think, "thinking") /\ Points(r, r.reasoning, "thinking")
    <3>1. /\ Points(r, s.plain, "text") /\ Points(r, s.text, "text")
          /\ Points(r, s.think, "thinking") /\ Points(r, s.reasoning, "thinking")
      BY <1>1, <2>1 DEF MarksInv
    <3> QED BY <1>1, <1>4, <3>1
  <2>3. /\ r.think # Null => r.inside /\ r.parser /\ r.think # r.reasoning
        /\ r.text # Null => r.parser
        /\ r.reasoning # Null => r.native
        /\ r.plain # Null => r.native \/ ~r.parser
    BY <1>1, <1>3, <1>4, <2>1 DEF MarksInv
  <2> QED BY <2>2, <2>3 DEF MarksInv
<1>6. BlocksInv(r)
  <2> SUFFICES ASSUME NEW n \in 1 .. Len(r.content)
               PROVE  /\ r.content[n].ends = IF r.content[n].kind = "thinking" /\ n \notin {r.think, r.reasoning}
                                             THEN 1 ELSE 0
                      /\ r.content[n].kind = "toolCall" => r.content[n].body = <<>>
    BY DEF BlocksInv
  <2>1. CASE n = h
    BY <1>2, <1>4, <2>1
  <2>2. CASE n \in 1 .. Len(s.content)
    <3>1. n # h /\ n # Null /\ r.content[n] = s.content[n]
      BY <1>1, <1>2, <2>2, NullIs
    <3>2. n \in {r.think, r.reasoning} <=> n \in {s.think, s.reasoning}
      BY <1>4, <3>1
    <3> QED BY <2>2, <3>1, <3>2 DEF Kept, BlocksInv
  <2> QED BY <1>2, <2>1, <2>2
<1>7. CallsInv(r)
  <2> SUFFICES ASSUME NEW i \in Tool, r.calls[i].at # Null
               PROVE  /\ r.calls[i].at \in 1 .. Len(r.content)
                      /\ r.content[r.calls[i].at].kind # "thinking"
                      /\ r.text # Null /\ r.think = Null => r.calls[i].at # r.text
    BY DEF CallsInv
  <2>1. /\ r.calls[i].at \in 1 .. Len(s.content) /\ s.content[r.calls[i].at].kind # "thinking"
        /\ s.text # Null /\ s.think = Null => r.calls[i].at # s.text
    BY <1>3 DEF Kept, CallsInv
  <2>2. r.calls[i].at # h
    BY <1>1, <2>1
  <2> QED BY <1>1, <1>2, <1>4, <2>1, <2>2
<1>8. OpenTextInv(r)
  <2> SUFFICES ASSUME r.text # Null, ~r.native, NEW n \in 1 .. Len(r.content), n > r.text
               PROVE  r.content[n].kind = "toolCall"
    BY DEF OpenTextInv
  <2>1. r.text = h
    BY <1>3, <1>4 DEF Kept, MarksInv
  <2> QED BY <1>2, <2>1
<1> QED BY <1>1, <1>2, <1>3, <1>5, <1>6, <1>7, <1>8 DEF Kept, h
NewText(s) == [Qoder!Started(s, "text", Null) EXCEPT !.text = Qoder!Here(s)]
LEMMA TextOpened ==
  ASSUME NEW s, Kept(s), s.text = Null, s.parser, NEW r, r = NewText(s)
  PROVE  /\ Opened(r, s, "text") /\ r.text = Qoder!Here(s)
         /\ r.plain = s.plain /\ r.think = s.think /\ r.reasoning = s.reasoning
<1> DEFINE q == Qoder!Started(s, "text", Null)
<1>1. s \in StreamRecord
  BY DEF Kept
<1>2. q \in StreamRecord /\ SameMarks(q, s) /\ Qoder!Here(s) \in Int
  BY <1>1, StartedState, LenOfContent DEF Null, Qoder!Here
<1>3. r = WithText(q, Qoder!Here(s))
  BY DEF NewText, WithText
<1>4. q = Qoder!Started(s, "text", Null)
  OBVIOUS
<1> HIDE DEF q
<1>5. /\ r \in StreamRecord /\ r.text = Qoder!Here(s) /\ r.content = q.content
      /\ r.plain = q.plain /\ r.think = q.think /\ r.reasoning = q.reasoning
      /\ r.calls = q.calls /\ r.native = q.native /\ r.parser = q.parser
      /\ r.buffer = q.buffer /\ r.inside = q.inside /\ r.tag = q.tag
  BY <1>2, <1>3, TextMarked
<1>6. /\ r.plain = s.plain /\ r.think = s.think /\ r.reasoning = s.reasoning
      /\ r.calls = s.calls /\ r.native = s.native /\ r.parser = s.parser
      /\ r.buffer = s.buffer /\ r.inside = s.inside /\ r.tag = s.tag
  BY <1>2, <1>5 DEF SameMarks
<1>7. r.content = q.content /\ r.calls = s.calls
  BY <1>5, <1>6
<1>8. Appends(r, s, "text") /\ SameTools(r, s)
  BY <1>1, <1>4, <1>7, Appended
<1> QED BY <1>5, <1>6, <1>8 DEF Opened

NewPlain(s) == [Qoder!Started(s, "text", Null) EXCEPT !.plain = Qoder!Here(s)]
LEMMA PlainOpened ==
  ASSUME NEW s, Kept(s), s.native \/ ~s.parser, NEW r, r = NewPlain(s)
  PROVE  /\ Opened(r, s, "text") /\ r.plain = Qoder!Here(s)
         /\ r.text = s.text /\ r.think = s.think /\ r.reasoning = s.reasoning
<1> DEFINE q == Qoder!Started(s, "text", Null)
<1>1. s \in StreamRecord
  BY DEF Kept
<1>2. q \in StreamRecord /\ SameMarks(q, s) /\ Qoder!Here(s) \in Int
  BY <1>1, StartedState, LenOfContent DEF Null, Qoder!Here
<1>3. r = WithPlain(q, Qoder!Here(s))
  BY DEF NewPlain, WithPlain
<1>4. q = Qoder!Started(s, "text", Null)
  OBVIOUS
<1> HIDE DEF q
<1>5. /\ r \in StreamRecord /\ r.plain = Qoder!Here(s) /\ r.content = q.content
      /\ r.text = q.text /\ r.think = q.think /\ r.reasoning = q.reasoning
      /\ r.calls = q.calls /\ r.native = q.native /\ r.parser = q.parser
      /\ r.buffer = q.buffer /\ r.inside = q.inside /\ r.tag = q.tag
  BY <1>2, <1>3, PlainMarked
<1>6. /\ r.text = s.text /\ r.think = s.think /\ r.reasoning = s.reasoning
      /\ r.calls = s.calls /\ r.native = s.native /\ r.parser = s.parser
      /\ r.buffer = s.buffer /\ r.inside = s.inside /\ r.tag = s.tag
  BY <1>2, <1>5 DEF SameMarks
<1>7. r.content = q.content /\ r.calls = s.calls
  BY <1>5, <1>6
<1>8. Appends(r, s, "text") /\ SameTools(r, s)
  BY <1>1, <1>4, <1>7, Appended
<1> QED BY <1>5, <1>6, <1>8 DEF Opened

NewThought(s) == [Qoder!Started(s, "thinking", Null) EXCEPT !.think = Qoder!Here(s)]
LEMMA ThoughtOpened ==
  ASSUME NEW s, Kept(s), s.think = Null, s.text = Null, s.inside, s.parser, NEW r, r = NewThought(s)
  PROVE  /\ Opened(r, s, "thinking") /\ r.think = Qoder!Here(s)
         /\ r.text = s.text /\ r.plain = s.plain /\ r.reasoning = s.reasoning
<1> DEFINE q == Qoder!Started(s, "thinking", Null)
<1>1. s \in StreamRecord
  BY DEF Kept
<1>2. q \in StreamRecord /\ SameMarks(q, s) /\ Qoder!Here(s) \in Int
  BY <1>1, StartedState, LenOfContent DEF Null, Qoder!Here
<1>3. r = WithThink(q, Qoder!Here(s))
  BY DEF NewThought, WithThink
<1>4. q = Qoder!Started(s, "thinking", Null)
  OBVIOUS
<1> HIDE DEF q
<1>5. /\ r \in StreamRecord /\ r.think = Qoder!Here(s) /\ r.content = q.content
      /\ r.text = q.text /\ r.plain = q.plain /\ r.reasoning = q.reasoning
      /\ r.calls = q.calls /\ r.native = q.native /\ r.parser = q.parser
      /\ r.buffer = q.buffer /\ r.inside = q.inside /\ r.tag = q.tag
  BY <1>2, <1>3, ThinkMarked
<1>6. /\ r.text = s.text /\ r.plain = s.plain /\ r.reasoning = s.reasoning
      /\ r.calls = s.calls /\ r.native = s.native /\ r.parser = s.parser
      /\ r.buffer = s.buffer /\ r.inside = s.inside /\ r.tag = s.tag
  BY <1>2, <1>5 DEF SameMarks
<1>7. r.content = q.content /\ r.calls = s.calls
  BY <1>5, <1>6
<1>8. Appends(r, s, "thinking") /\ SameTools(r, s)
  BY <1>1, <1>4, <1>7, Appended
<1> QED BY <1>5, <1>6, <1>8 DEF Opened

NewReasoning(s) == [Qoder!Started(s, "thinking", Null) EXCEPT !.reasoning = Qoder!Here(s)]
LEMMA ReasoningOpened ==
  ASSUME NEW s, Kept(s), s.reasoning = Null, s.native, NEW r, r = NewReasoning(s)
  PROVE  /\ Opened(r, s, "thinking") /\ r.reasoning = Qoder!Here(s)
         /\ r.text = s.text /\ r.plain = s.plain /\ r.think = s.think
<1> DEFINE q == Qoder!Started(s, "thinking", Null)
<1>1. s \in StreamRecord
  BY DEF Kept
<1>2. q \in StreamRecord /\ SameMarks(q, s) /\ Qoder!Here(s) \in Int
  BY <1>1, StartedState, LenOfContent DEF Null, Qoder!Here
<1>3. r = WithReasoning(q, Qoder!Here(s))
  BY DEF NewReasoning, WithReasoning
<1>4. q = Qoder!Started(s, "thinking", Null)
  OBVIOUS
<1> HIDE DEF q
<1>5. /\ r \in StreamRecord /\ r.reasoning = Qoder!Here(s) /\ r.content = q.content
      /\ r.text = q.text /\ r.plain = q.plain /\ r.think = q.think
      /\ r.calls = q.calls /\ r.native = q.native /\ r.parser = q.parser
      /\ r.buffer = q.buffer /\ r.inside = q.inside /\ r.tag = q.tag
  BY <1>2, <1>3, ReasoningMarked
<1>6. /\ r.text = s.text /\ r.plain = s.plain /\ r.think = s.think
      /\ r.calls = s.calls /\ r.native = s.native /\ r.parser = s.parser
      /\ r.buffer = s.buffer /\ r.inside = s.inside /\ r.tag = s.tag
  BY <1>2, <1>5 DEF SameMarks
<1>7. r.content = q.content /\ r.calls = s.calls
  BY <1>5, <1>6
<1>8. Appends(r, s, "thinking") /\ SameTools(r, s)
  BY <1>1, <1>4, <1>7, Appended
<1> QED BY <1>5, <1>6, <1>8 DEF Opened
(* What a run of the parser leaves alone.                                     *)
Steady(r, s) ==
  /\ r.calls = s.calls /\ r.native = s.native /\ r.parser = s.parser /\ r.plain = s.plain
  /\ r.reasoning = s.reasoning /\ (NoTools(s) => NoTools(r))
SameSettings(r, s) == r.buffer = s.buffer /\ r.inside = s.inside /\ r.tag = s.tag

LEMMA SameToolsTwice ==
  ASSUME NEW s, NEW q, NEW r, SameTools(q, s), SameTools(r, q), Len(s.content) \in Nat,
         Len(q.content) \in Nat, Len(r.content) \in Nat
  PROVE  SameTools(r, s)
BY DEF SameTools

LEMMA SameToolsNone ==
  ASSUME NEW s, NEW r, SameTools(r, s), NoTools(s) PROVE NoTools(r)
BY DEF SameTools, NoTools

LEMMA SameToolsSelf == ASSUME NEW s, s \in StreamRecord PROVE SameTools(s, s)
BY LenOfContent DEF SameTools

LEMMA EmitTextKept ==
  ASSUME NEW s, Kept(s), s.parser, NEW t \in Seq(Char), NEW r, r = Qoder!EmitText(s, t)
  PROVE  Kept(r) /\ SameTools(r, s) /\ Steady(r, s) /\ SameSettings(r, s) /\ r.think = s.think
<1>0. s \in StreamRecord
  BY DEF Kept
<1>1. CASE t = <<>>
  <2>1. r = s
    BY <1>1 DEF Qoder!EmitText
  <2> QED BY <1>0, <2>1, SameToolsSelf DEF Steady, SameSettings
<1>2. CASE t # <<>> /\ s.text # Null
  <2>1. r = Qoder!Grown(s, s.text, t)
    BY <1>2 DEF Qoder!EmitText, Null
  <2>2. s.text \in 1 .. Len(s.content) /\ s.content[s.text].kind # "toolCall"
    BY <1>2 DEF Kept, MarksInv, Points
  <2>3. Kept(r) /\ SameMarks(r, s) /\ SameTools(r, s)
    BY <2>1, <2>2, GrownKept
  <2> QED BY <2>3, SameToolsNone DEF SameMarks, Steady, SameSettings
<1>3. CASE t # <<>> /\ s.text = Null
  <2> DEFINE h == Qoder!Here(s)
             q == NewText(s)
  <2>1. r = Qoder!Grown(q, h, t)
    BY <1>3 DEF Qoder!EmitText, NewText, Null
  <2>2. q = NewText(s)
    OBVIOUS
  <2> HIDE DEF q
  <2>3. /\ Opened(q, s, "text") /\ q.text = h /\ q.plain = s.plain /\ q.think = s.think
        /\ q.reasoning = s.reasoning
    BY <1>3, <2>2, TextOpened
  <2>4. Kept(q) /\ h \in 1 .. Len(q.content) /\ q.content[h].kind = "text"
    BY <2>3, OpenedKept
  <2> HIDE DEF h
  <2>5. Kept(r) /\ SameMarks(r, q) /\ SameTools(r, q)
    BY <2>1, <2>4, GrownKept
  <2>6. SameTools(r, s)
    BY <1>0, <2>3, <2>4, <2>5, SameToolsTwice, LenOfContent DEF Opened, Kept
  <2>7. Steady(r, s) /\ SameSettings(r, s) /\ r.think = s.think
    BY <2>3, <2>5, <2>6, SameToolsNone DEF Opened, SameTools, SameMarks, Steady, SameSettings
  <2> QED BY <2>5, <2>6, <2>7
<1> QED BY <1>1, <1>2, <1>3

LEMMA Inserted ==
  ASSUME NEW B, NEW c \in Seq(B), NEW p \in 1 .. Len(c), NEW e \in B,
         NEW d, d = Qoder!InsertAt(c, p, e)
  PROVE  /\ d \in Seq(B) /\ Len(d) = Len(c) + 1 /\ d[p] = e
         /\ \A n \in 1 .. p - 1 : d[n] = c[n]
         /\ \A n \in p + 1 .. Len(c) + 1 : d[n] = c[n - 1]
<1> DEFINE u == SubSeq(c, 1, p - 1)
           v == SubSeq(c, p, Len(c))
           w == u \o <<e>>
<1>1. u \in Seq(B) /\ Len(u) = p - 1 /\ \A n \in 1 .. p - 1 : u[n] = c[n]
  OBVIOUS
<1>2. v \in Seq(B) /\ Len(v) = Len(c) - p + 1 /\ \A n \in 1 .. Len(c) - p + 1 : v[n] = c[n + p - 1]
  OBVIOUS
<1>3. d = w \o v
  BY DEF Qoder!InsertAt
<1> HIDE DEF u, v
<1>4. w \in Seq(B) /\ Len(w) = p /\ w[p] = e /\ \A n \in 1 .. p - 1 : w[n] = u[n]
  BY <1>1
<1> HIDE DEF w
<1>5. d \in Seq(B) /\ Len(d) = Len(c) + 1 /\ \A n \in 1 .. p : d[n] = w[n]
  BY <1>2, <1>3, <1>4
<1>6. \A n \in p + 1 .. Len(c) + 1 : d[n] = v[n - p]
  BY <1>2, <1>3, <1>4
<1>7. \A n \in p + 1 .. Len(c) + 1 : d[n] = c[n - 1]
  <2> TAKE n \in p + 1 .. Len(c) + 1
  <2>1. n - p \in 1 .. Len(c) - p + 1 /\ (n - p) + p - 1 = n - 1
    OBVIOUS
  <2>2. v[n - p] = c[(n - p) + p - 1]
    BY <1>2, <2>1
  <2> QED BY <1>6, <2>1, <2>2
<1> QED BY <1>1, <1>4, <1>5, <1>7

(* Thinking put before the open text.                                         *)
Placed(s, b) == [s EXCEPT !.think = s.text, !.text = s.text + 1,
                          !.content = Qoder!InsertAt(s.content, s.text, b)]
LEMMA PlacedState ==
  ASSUME NEW s \in StreamRecord, NEW b \in BlockRecord, s.text \in 1 .. Len(s.content),
         NEW r, r = Placed(s, b)
  PROVE  /\ r \in StreamRecord /\ r.think = s.text /\ r.text = s.text + 1
         /\ r.plain = s.plain /\ r.reasoning = s.reasoning /\ r.calls = s.calls
         /\ r.native = s.native /\ r.parser = s.parser /\ r.buffer = s.buffer
         /\ r.inside = s.inside /\ r.tag = s.tag
         /\ Len(r.content) = Len(s.content) + 1 /\ r.content[s.text] = b
         /\ \A n \in 1 .. s.text - 1 : r.content[n] = s.content[n]
         /\ \A n \in s.text + 1 .. Len(s.content) + 1 : r.content[n] = s.content[n - 1]
<1> DEFINE d == Qoder!InsertAt(s.content, s.text, b)
<1>1. /\ d \in Seq(BlockRecord) /\ Len(d) = Len(s.content) + 1 /\ d[s.text] = b
      /\ \A n \in 1 .. s.text - 1 : d[n] = s.content[n]
      /\ \A n \in s.text + 1 .. Len(s.content) + 1 : d[n] = s.content[n - 1]
  <2>1. s.content \in Seq(BlockRecord)
    BY DEF StreamRecord
  <2> DEFINE c == s.content
             p == s.text
  <2>2. c \in Seq(BlockRecord) /\ p \in 1 .. Len(c) /\ d = Qoder!InsertAt(c, p, b)
    BY <2>1
  <2> HIDE DEF c, p, d
  <2>3. /\ d \in Seq(BlockRecord) /\ Len(d) = Len(c) + 1 /\ d[p] = b
        /\ \A n \in 1 .. p - 1 : d[n] = c[n]
        /\ \A n \in p + 1 .. Len(c) + 1 : d[n] = c[n - 1]
    BY <2>2, Inserted
  <2> QED BY <2>3 DEF c, p
<1> DEFINE Put(v, w, c) == [s EXCEPT !.think = v, !.text = w, !.content = c]
<1>2. r = Put(s.text, s.text + 1, d)
  BY DEF Placed
<1>3. \A v, w \in Int, c \in Seq(BlockRecord) :
        /\ Put(v, w, c) \in StreamRecord
        /\ Put(v, w, c).think = v /\ Put(v, w, c).text = w /\ Put(v, w, c).content = c
        /\ Put(v, w, c).plain = s.plain /\ Put(v, w, c).reasoning = s.reasoning
        /\ Put(v, w, c).calls = s.calls /\ Put(v, w, c).native = s.native
        /\ Put(v, w, c).parser = s.parser /\ Put(v, w, c).buffer = s.buffer
        /\ Put(v, w, c).inside = s.inside /\ Put(v, w, c).tag = s.tag
  <2> TAKE v, w \in Int, c \in Seq(BlockRecord)
  <2>1. Put(v, w, c) \in StreamRecord
    BY DEF StreamRecord
  <2>2. /\ Put(v, w, c).think = v /\ Put(v, w, c).text = w /\ Put(v, w, c).content = c
        /\ Put(v, w, c).plain = s.plain /\ Put(v, w, c).reasoning = s.reasoning
        /\ Put(v, w, c).calls = s.calls /\ Put(v, w, c).native = s.native
    BY DEF StreamRecord
  <2>3. /\ Put(v, w, c).parser = s.parser /\ Put(v, w, c).buffer = s.buffer
        /\ Put(v, w, c).inside = s.inside /\ Put(v, w, c).tag = s.tag
    BY DEF StreamRecord
  <2> HIDE DEF Put
  <2> QED BY <2>1, <2>2, <2>3
<1>4. s.text \in Int /\ s.text + 1 \in Int
  OBVIOUS
<1> HIDE DEF d, Put
<1>5. /\ r \in StreamRecord /\ r.think = s.text /\ r.text = s.text + 1 /\ r.content = d
      /\ r.plain = s.plain /\ r.reasoning = s.reasoning /\ r.calls = s.calls
      /\ r.native = s.native /\ r.parser = s.parser /\ r.buffer = s.buffer
      /\ r.inside = s.inside /\ r.tag = s.tag
  BY <1>1, <1>2, <1>3, <1>4
<1> QED BY <1>1, <1>5

LEMMA PlacedKept ==
  ASSUME NEW s, Kept(s), s.text # Null, s.think = Null, s.inside, ~s.native,
         NEW r, r = Placed(s, Qoder!Block("thinking", Null))
  PROVE  /\ Kept(r) /\ Steady(r, s) /\ SameSettings(r, s)
         /\ r.think = s.text /\ r.think \in 1 .. Len(r.content) /\ r.content[r.think].kind = "thinking"
<1> DEFINE b == Qoder!Block("thinking", Null)
           p == s.text
<1>1. s \in StreamRecord /\ p \in 1 .. Len(s.content) /\ s.content[p].kind = "text" /\ Len(s.content) \in Nat
      /\ s.parser /\ s.plain = Null /\ s.reasoning = Null
  BY LenOfContent DEF Kept, MarksInv, Points
<1>2. b \in BlockRecord /\ b.kind = "thinking" /\ b.ends = 0 /\ r = Placed(s, b)
  BY DEF Null, Qoder!Block, BlockRecord
<1> HIDE DEF b
<1>3. /\ r \in StreamRecord /\ r.think = p /\ r.text = p + 1
      /\ r.plain = s.plain /\ r.reasoning = s.reasoning /\ r.calls = s.calls
      /\ r.native = s.native /\ r.parser = s.parser /\ r.buffer = s.buffer
      /\ r.inside = s.inside /\ r.tag = s.tag
      /\ Len(r.content) = Len(s.content) + 1 /\ r.content[p] = b
      /\ \A n \in 1 .. p - 1 : r.content[n] = s.content[n]
      /\ \A n \in p + 1 .. Len(s.content) + 1 : r.content[n] = s.content[n - 1]
  <2>1. s \in StreamRecord /\ b \in BlockRecord /\ s.text \in 1 .. Len(s.content) /\ r = Placed(s, b)
    BY <1>1, <1>2
  <2>2. /\ r \in StreamRecord /\ r.think = s.text /\ r.text = s.text + 1
        /\ r.plain = s.plain /\ r.reasoning = s.reasoning /\ r.calls = s.calls
        /\ r.native = s.native /\ r.parser = s.parser /\ r.buffer = s.buffer
        /\ r.inside = s.inside /\ r.tag = s.tag
        /\ Len(r.content) = Len(s.content) + 1 /\ r.content[s.text] = b
        /\ \A n \in 1 .. s.text - 1 : r.content[n] = s.content[n]
        /\ \A n \in s.text + 1 .. Len(s.content) + 1 : r.content[n] = s.content[n - 1]
    <3> HIDE DEF p
    <3> QED BY ONLY <2>1, PlacedState
  <2> QED BY <2>2
<1> HIDE DEF p
<1>4. \A n \in 1 .. Len(r.content) :
        n \in 1 .. p - 1 \/ n = p \/ (n \in p + 1 .. Len(s.content) + 1 /\ n - 1 \in 1 .. Len(s.content) /\ n - 1 >= p)
  BY <1>1, <1>3
<1>5. \A n \in 1 .. Len(s.content) : n > p => s.content[n].kind = "toolCall"
  BY DEF Kept, OpenTextInv, p
<1>6. p \in Int /\ p # Null /\ p + 1 # Null /\ p + 1 \in 1 .. Len(r.content)
      /\ p \in 1 .. Len(r.content) /\ p + 1 \in p + 1 .. Len(s.content) + 1
  BY <1>1, <1>3, NullIs
<1>7. r.content[p + 1] = s.content[p]
  BY <1>3, <1>6
<1>8. MarksInv(r)
  <2>1. r.plain = Null /\ r.reasoning = Null /\ r.inside /\ r.parser
    BY <1>1, <1>3
  <2>2. Points(r, r.text, "text") /\ Points(r, r.think, "thinking")
    BY <1>1, <1>2, <1>3, <1>6, <1>7 DEF Points, p
  <2>3. Points(r, r.plain, "text") /\ Points(r, r.reasoning, "thinking")
    BY <2>1 DEF Points
  <2>4. r.think # r.reasoning
    BY <1>3, <1>6, <2>1
  <2> QED BY <2>1, <2>2, <2>3, <2>4 DEF MarksInv
<1>9. BlocksInv(r)
  <2> SUFFICES ASSUME NEW n \in 1 .. Len(r.content)
               PROVE  /\ r.content[n].ends = IF r.content[n].kind = "thinking" /\ n \notin {r.think, r.reasoning}
                                             THEN 1 ELSE 0
                      /\ r.content[n].kind = "toolCall" => r.content[n].body = <<>>
    BY DEF BlocksInv
  <2>1. CASE n = p
    BY <1>2, <1>3, <2>1
  <2>2. CASE n \in 1 .. p - 1
    <3>1. n \in 1 .. Len(s.content) /\ n # p /\ n # Null /\ r.content[n] = s.content[n]
      BY <1>1, <1>3, <2>2, NullIs
    <3>2. n \notin {r.think, r.reasoning} /\ n \notin {s.think, s.reasoning}
      BY <1>1, <1>3, <3>1
    <3> QED BY <3>1, <3>2 DEF Kept, BlocksInv
  <2>3. CASE n \in p + 1 .. Len(s.content) + 1
    <3>1. n - 1 \in 1 .. Len(s.content) /\ n - 1 >= p /\ r.content[n] = s.content[n - 1]
      BY <1>3, <1>4, <2>3, <1>1
    <3>2. s.content[n - 1].kind # "thinking"
      BY <1>1, <1>5, <3>1
    <3> QED BY <3>1, <3>2 DEF Kept, BlocksInv
  <2> QED BY <1>4, <2>1, <2>2, <2>3
<1>10. CallsInv(r)
  <2> SUFFICES ASSUME NEW i \in Tool, r.calls[i].at # Null
               PROVE  r.calls[i].at \in 1 .. Len(r.content) /\ r.content[r.calls[i].at].kind # "thinking"
    BY <1>3, <1>6 DEF CallsInv
  <2> DEFINE n == r.calls[i].at
  <2>1. n \in 1 .. Len(s.content) /\ s.content[n].kind # "thinking" /\ n # p
    BY <1>3 DEF Kept, CallsInv, p
  <2> HIDE DEF n
  <2>2. n \in 1 .. Len(r.content)
    BY <1>1, <1>3, <2>1
  <2>3. CASE n \in 1 .. p - 1
    BY <1>3, <2>1, <2>2, <2>3 DEF n
  <2>4. CASE n \in p + 1 .. Len(s.content) + 1 /\ n - 1 \in 1 .. Len(s.content) /\ n - 1 >= p
    <3>1. s.content[n - 1].kind # "thinking"
      BY <1>1, <1>5, <2>4
    <3>2. r.content[n] = s.content[n - 1]
      BY <1>3, <2>4
    <3> QED BY <2>2, <3>1, <3>2 DEF n
  <2> QED BY <1>4, <2>1, <2>2, <2>3, <2>4
<1>11. OpenTextInv(r)
  <2> SUFFICES ASSUME NEW n \in 1 .. Len(r.content), n > p + 1 PROVE r.content[n].kind = "toolCall"
    BY <1>3 DEF OpenTextInv
  <2>1. n \in p + 1 .. Len(s.content) + 1 /\ n - 1 \in 1 .. Len(s.content) /\ n - 1 > p
    BY <1>1, <1>3
  <2>2. r.content[n] = s.content[n - 1]
    BY <1>3, <2>1
  <2> QED BY <1>5, <2>1, <2>2
<1>12. NoTools(s) => NoTools(r)
  <2> SUFFICES ASSUME NoTools(s), NEW n \in 1 .. Len(r.content) PROVE r.content[n].kind # "toolCall"
    BY DEF NoTools
  <2>1. CASE n = p
    BY <1>2, <1>3, <2>1
  <2>2. CASE n \in 1 .. p - 1
    <3>1. n \in 1 .. Len(s.content)
      BY <1>1, <2>2
    <3>2. r.content[n] = s.content[n]
      BY <1>3, <2>2
    <3> QED BY <3>1, <3>2 DEF NoTools
  <2>3. CASE n \in p + 1 .. Len(s.content) + 1 /\ n - 1 \in 1 .. Len(s.content)
    BY <1>3, <2>3 DEF NoTools
  <2> QED BY <1>4, <2>1, <2>2, <2>3
<1>13. Steady(r, s) /\ SameSettings(r, s)
  BY <1>3, <1>12 DEF Steady, SameSettings
<1>14. r.think \in 1 .. Len(r.content) /\ r.content[r.think].kind = "thinking"
  BY <1>2, <1>3, <1>6
<1> QED BY <1>3, <1>8, <1>9, <1>10, <1>11, <1>13, <1>14 DEF Kept, p

LEMMA SteadyTwice ==
  ASSUME NEW s, NEW q, NEW r, Steady(q, s), Steady(r, q) PROVE Steady(r, s)
BY DEF Steady

LEMMA EmitThinkingKept ==
  ASSUME NEW s, Kept(s), s.parser, s.inside, ~s.native, NEW t \in Seq(Char),
         NEW r, r = Qoder!EmitThinking(s, t)
  PROVE  Kept(r) /\ Steady(r, s) /\ SameSettings(r, s)
<1>0. s \in StreamRecord
  BY DEF Kept
<1>1. CASE t = <<>>
  <2>1. r = s
    BY <1>1 DEF Qoder!EmitThinking
  <2> QED BY <2>1 DEF Steady, SameSettings
<1>2. CASE t # <<>> /\ s.think # Null
  <2>1. r = Qoder!Grown(s, s.think, t)
    BY <1>2 DEF Qoder!EmitThinking, Null
  <2>2. s.think \in 1 .. Len(s.content) /\ s.content[s.think].kind # "toolCall"
    BY <1>2 DEF Kept, MarksInv, Points
  <2>3. Kept(r) /\ SameMarks(r, s) /\ SameTools(r, s)
    BY <2>1, <2>2, GrownKept
  <2> QED BY <2>3, SameToolsNone DEF SameMarks, Steady, SameSettings
<1>3. CASE t # <<>> /\ s.think = Null /\ s.text = Null
  <2> DEFINE h == Qoder!Here(s)
             q == NewThought(s)
  <2>1. r = Qoder!Grown(q, h, t)
    BY <1>3 DEF Qoder!EmitThinking, NewThought, Null
  <2>2. q = NewThought(s)
    OBVIOUS
  <2> HIDE DEF q
  <2>3. Opened(q, s, "thinking") /\ q.plain = s.plain /\ q.reasoning = s.reasoning
    BY <1>3, <2>2, ThoughtOpened
  <2>4. Kept(q) /\ h \in 1 .. Len(q.content) /\ q.content[h].kind = "thinking"
    BY <2>3, OpenedKept
  <2> HIDE DEF h
  <2>5. Kept(r) /\ SameMarks(r, q) /\ SameTools(r, q)
    BY <2>1, <2>4, GrownKept
  <2>6. SameTools(r, s)
    BY <1>0, <2>3, <2>4, <2>5, SameToolsTwice, LenOfContent DEF Opened, Kept
  <2>7. Steady(r, s) /\ SameSettings(r, s)
    BY <2>3, <2>5, <2>6, SameToolsNone DEF Opened, SameTools, SameMarks, Steady, SameSettings
  <2> QED BY <2>5, <2>7
<1>4. CASE t # <<>> /\ s.think = Null /\ s.text # Null
  <2> DEFINE q == Placed(s, Qoder!Block("thinking", Null))
  <2>1. r = Qoder!Grown(q, s.text, t)
    BY <1>4 DEF Qoder!EmitThinking, Placed, Null
  <2>2. q = Placed(s, Qoder!Block("thinking", Null))
    OBVIOUS
  <2> HIDE DEF q
  <2>3. /\ Kept(q) /\ Steady(q, s) /\ SameSettings(q, s)
        /\ q.think = s.text /\ q.think \in 1 .. Len(q.content) /\ q.content[q.think].kind = "thinking"
    BY <1>4, <2>2, PlacedKept
  <2>4. Kept(r) /\ SameMarks(r, q) /\ SameTools(r, q)
    BY <2>1, <2>3, GrownKept
  <2>5. Steady(r, q) /\ SameSettings(r, q)
    BY <2>4, SameToolsNone DEF SameMarks, Steady, SameSettings
  <2> QED BY <2>3, <2>4, <2>5, SteadyTwice DEF SameSettings
<1> QED BY <1>1, <1>2, <1>3, <1>4

(* The settings of the parser.                                                *)
Buffered(s, b) == [s EXCEPT !.buffer = b]
LEMMA BufferedState ==
  ASSUME NEW s \in StreamRecord, NEW b \in Seq(Char), NEW r, r = Buffered(s, b)
  PROVE  /\ r \in StreamRecord /\ r.content = s.content /\ r.plain = s.plain /\ r.reasoning = s.reasoning
         /\ r.calls = s.calls /\ r.native = s.native /\ r.parser = s.parser /\ r.buffer = b
         /\ r.inside = s.inside /\ r.think = s.think /\ r.text = s.text
BY DEF Buffered, StreamRecord

LEMMA BufferedKept ==
  ASSUME NEW s, Kept(s), NEW b \in Seq(Char), NEW r, r = Buffered(s, b)
  PROVE  /\ Kept(r) /\ Steady(r, s) /\ SameTools(r, s) /\ r.buffer = b /\ r.inside = s.inside
         /\ r.content = s.content /\ r.think = s.think
<1>1. s \in StreamRecord
  BY DEF Kept
<1>2. /\ r \in StreamRecord /\ r.content = s.content /\ r.plain = s.plain /\ r.reasoning = s.reasoning
      /\ r.calls = s.calls /\ r.native = s.native /\ r.parser = s.parser /\ r.buffer = b
      /\ r.inside = s.inside /\ r.think = s.think /\ r.text = s.text
  BY <1>1, BufferedState
<1>3. MarksInv(r) /\ BlocksInv(r) /\ CallsInv(r) /\ OpenTextInv(r)
  BY <1>2 DEF Kept, MarksInv, BlocksInv, CallsInv, OpenTextInv, Points
<1>4. SameTools(r, s)
  BY <1>1, <1>2, LenOfContent DEF SameTools
<1> QED BY <1>2, <1>3, <1>4 DEF Kept, Steady, NoTools

Entered(s, b, g) == [s EXCEPT !.buffer = b, !.tag = g, !.inside = TRUE]
LEMMA EnteredKept ==
  ASSUME NEW s, Kept(s), NEW b \in Seq(Char), NEW g \in Seq(Char), NEW r, r = Entered(s, b, g)
  PROVE  Kept(r) /\ Steady(r, s) /\ r.buffer = b /\ r.inside
<1>1. s \in StreamRecord
  BY DEF Kept
<1>2. /\ r \in StreamRecord /\ r.content = s.content /\ r.plain = s.plain /\ r.reasoning = s.reasoning
      /\ r.calls = s.calls /\ r.native = s.native /\ r.parser = s.parser /\ r.buffer = b
      /\ r.inside = TRUE /\ r.think = s.think /\ r.text = s.text
  BY <1>1 DEF Entered, StreamRecord
<1>3. MarksInv(r) /\ BlocksInv(r) /\ CallsInv(r) /\ OpenTextInv(r)
  BY <1>2 DEF Kept, MarksInv, BlocksInv, CallsInv, OpenTextInv, Points
<1> QED BY <1>2, <1>3 DEF Kept, Steady, NoTools

Left(s, b) == [s EXCEPT !.buffer = b, !.inside = FALSE, !.think = Null, !.text = Null]
ThinkEnded(s) == IF s.think = Null THEN s ELSE Qoder!Ended(s, s.think)
LEMMA LeftKept ==
  ASSUME NEW s, Kept(s), ~s.native, NEW b \in Seq(Char), NEW r, r = Left(ThinkEnded(s), b)
  PROVE  Kept(r) /\ Steady(r, s) /\ r.buffer = b
<1> DEFINE q == ThinkEnded(s)
<1>1. s \in StreamRecord /\ Len(s.content) \in Nat /\ s.reasoning = Null
  BY LenOfContent DEF Kept, MarksInv
<1>2. /\ q \in StreamRecord /\ SameMarks(q, s) /\ Len(q.content) = Len(s.content)
      /\ \A n \in 1 .. Len(s.content) :
           /\ q.content[n].kind = s.content[n].kind /\ q.content[n].body = s.content[n].body
           /\ q.content[n].ends = IF q.content[n].kind = "thinking" THEN 1 ELSE 0
  <2>1. CASE s.think = Null
    <3>1. q = s
      BY <2>1 DEF ThinkEnded
    <3>2. \A n \in 1 .. Len(s.content) : n \notin {s.think, s.reasoning}
      BY <1>1, <2>1, NullIs
    <3> QED BY <1>1, <3>1, <3>2 DEF Kept, BlocksInv, SameMarks
  <2>2. CASE s.think # Null
    <3>1. s.think \in 1 .. Len(s.content) /\ s.content[s.think].kind = "thinking"
      BY <2>2 DEF Kept, MarksInv, Points
    <3>2. q = Qoder!Ended(s, s.think)
      BY <2>2 DEF ThinkEnded
    <3> HIDE DEF q
    <3>3. /\ q \in StreamRecord /\ SameMarks(q, s) /\ SameBut(q, s, s.think)
          /\ q.content[s.think].body = s.content[s.think].body
          /\ q.content[s.think].ends = s.content[s.think].ends + 1
      BY <1>1, <3>1, <3>2, EndedState
    <3>4. s.content[s.think].ends = 0
      BY <3>1 DEF Kept, BlocksInv
    <3>5. \A n \in 1 .. Len(s.content) : n # s.think =>
            /\ q.content[n] = s.content[n]
            /\ q.content[n].ends = IF q.content[n].kind = "thinking" THEN 1 ELSE 0
      <4> TAKE n \in 1 .. Len(s.content)
      <4> HAVE n # s.think
      <4>1. n \notin {s.think, s.reasoning}
        BY <1>1, NullIs
      <4> QED BY <3>3, <4>1 DEF SameBut, Kept, BlocksInv
    <3> QED BY <3>1, <3>3, <3>4, <3>5 DEF SameBut
  <2> QED BY <2>1, <2>2
<1>3. r = Left(q, b)
  OBVIOUS
<1> HIDE DEF q
<1>4. /\ r \in StreamRecord /\ r.content = q.content /\ r.plain = q.plain /\ r.reasoning = q.reasoning
      /\ r.calls = q.calls /\ r.native = q.native /\ r.parser = q.parser /\ r.buffer = b
      /\ r.inside = FALSE /\ r.think = Null /\ r.text = Null
  BY <1>2, <1>3, NullIs DEF Left, StreamRecord
<1>5. /\ r.plain = s.plain /\ r.reasoning = Null /\ r.calls = s.calls /\ r.native = s.native
      /\ r.parser = s.parser
  BY <1>1, <1>2, <1>4 DEF SameMarks
<1>6. MarksInv(r)
  BY <1>2, <1>4, <1>5 DEF Kept, MarksInv, Points
<1>7. BlocksInv(r)
  <2> SUFFICES ASSUME NEW n \in 1 .. Len(r.content)
               PROVE  /\ r.content[n].ends = IF r.content[n].kind = "thinking" /\ n \notin {r.think, r.reasoning}
                                             THEN 1 ELSE 0
                      /\ r.content[n].kind = "toolCall" => r.content[n].body = <<>>
    BY DEF BlocksInv
  <2>1. n \in 1 .. Len(s.content) /\ n \notin {r.think, r.reasoning}
    BY <1>2, <1>4, <1>5, NullIs
  <2> QED BY <1>2, <1>4, <2>1 DEF Kept, BlocksInv
<1>8. CallsInv(r)
  BY <1>2, <1>4, <1>5 DEF Kept, CallsInv
<1>9. OpenTextInv(r)
  BY <1>4 DEF OpenTextInv
<1>10. NoTools(s) => NoTools(r)
  BY <1>2, <1>4 DEF NoTools
<1> QED BY <1>1, <1>4, <1>5, <1>6, <1>7, <1>8, <1>9, <1>10 DEF Kept, Steady

(* Places in a text.                                                          *)
LEMMA NatLeast ==
  ASSUME NEW T, T \subseteq Nat, T # {}
  PROVE  \E x \in T : \A y \in T : x <= y
<1> DEFINE R == OpToRel(<, Nat)
<1>1. IsWellFoundedOn(R, Nat)
  BY NatLessThanWellFounded
<1>2. \A x, y \in Nat : x < y => <<x, y>> \in R
  BY DEF OpToRel
<1> HIDE DEF R
<1>3. PICK x \in T : \A y \in T : <<y, x>> \notin R
  BY <1>1, WFMin
<1> SUFFICES ASSUME NEW y \in T PROVE x <= y
  OBVIOUS
<1>4. x \in Nat /\ y \in Nat /\ ~(y < x)
  BY <1>2, <1>3
<1> QED BY <1>4

LEMMA Leasts ==
  ASSUME NEW S, S \subseteq Nat, S # {}
  PROVE  Qoder!Min0(S) \in S
<1>1. \E x \in S : \A y \in S : x <= y
  BY NatLeast
<1> QED BY <1>1 DEF Qoder!Min0

LEMMA Mosts ==
  ASSUME NEW k \in Nat, NEW S, S \subseteq 0 .. k, S # {}
  PROVE  Qoder!Max0(S) \in S
<1> DEFINE T == {n \in Nat : k - n \in S}
<1>1. T \subseteq Nat /\ T # {}
  <2>1. PICK x \in S : TRUE
    OBVIOUS
  <2>2. k - x \in T
    BY <2>1
  <2> QED BY <2>2
<1>2. PICK y \in T : \A z \in T : y <= z
  BY <1>1, NatLeast
<1>3. k - y \in S /\ \A z \in S : k - y >= z
  <2>1. y \in Nat /\ k - y \in S
    BY <1>2
  <2> SUFFICES ASSUME NEW z \in S PROVE k - y >= z
    BY <2>1
  <2>2. z \in 0 .. k /\ k - z \in T
    <3>1. z \in 0 .. k /\ k - z \in Nat /\ k - (k - z) = z
      OBVIOUS
    <3> QED BY <3>1
  <2>3. y <= k - z
    BY <1>2, <2>2
  <2> QED BY <2>1, <2>2, <2>3
<1>4. \E x \in S : \A z \in S : x >= z
  BY <1>3
<1> QED BY <1>4 DEF Qoder!Max0

LEMMA PartOf ==
  ASSUME NEW t \in Seq(Char), NEW m \in Int, NEW n \in Int, m >= 1, n <= Len(t)
  PROVE  SubSeq(t, m, n) \in Seq(Char)
<1>1. CASE m > n
  <2>1. SubSeq(t, m, n) = <<>>
    BY <1>1
  <2> QED BY <2>1
<1>2. CASE m <= n
  BY <1>2
<1> QED BY <1>1, <1>2

LEMMA UptoKept ==
  ASSUME NEW t \in Seq(Char), NEW n \in Int, n <= Len(t) PROVE Qoder!Upto(t, n) \in Seq(Char)
BY PartOf DEF Qoder!Upto
LEMMA FromKept ==
  ASSUME NEW t \in Seq(Char), NEW n \in Int, n >= 1 PROVE Qoder!From(t, n) \in Seq(Char)
<1>1. Len(t) \in Int /\ Len(t) <= Len(t)
  OBVIOUS
<1> QED BY <1>1, PartOf DEF Qoder!From

LEMMA PlacesIn ==
  ASSUME NEW t \in Seq(Char), NEW tag \in Seq(Char), Qoder!Places(t, tag) # {}
  PROVE  /\ Qoder!Min0(Qoder!Places(t, tag)) \in Nat \ {0}
         /\ Qoder!Min0(Qoder!Places(t, tag)) - 1 <= Len(t)
<1> DEFINE S == Qoder!Places(t, tag)
<1>1. S \subseteq 1 .. (Len(t) - Len(tag) + 1) /\ Len(tag) \in Nat /\ Len(t) \in Nat
  BY DEF Qoder!Places
<1>2. S \subseteq Nat
  BY <1>1
<1>3. Qoder!Min0(S) \in S
  BY <1>2, Leasts
<1> HIDE DEF S
<1>4. Qoder!Min0(S) \in 1 .. (Len(t) - Len(tag) + 1)
  BY <1>1, <1>3
<1>5. Qoder!Min0(S) \in Nat \ {0} /\ Qoder!Min0(S) - 1 <= Len(t)
  BY <1>1, <1>4
<1> QED BY <1>5 DEF S

LEMMA SafeIn ==
  ASSUME NEW t \in Seq(Char), NEW tags
  PROVE  Qoder!Safe(t, tags) \in 0 .. Len(t)
<1> DEFINE S == {0} \cup {n \in 1 .. Len(t) :
                  \E g \in tags : n < Len(g) /\ Qoder!From(t, Len(t) - n + 1) = Qoder!Upto(g, n)}
<1>1. Len(t) \in Nat /\ S \subseteq 0 .. Len(t) /\ S # {}
  OBVIOUS
<1>2. Qoder!Trailing(t, tags) = Qoder!Max0(S)
  BY DEF Qoder!Trailing
<1> HIDE DEF S
<1>3. Qoder!Trailing(t, tags) \in 0 .. Len(t)
  BY <1>1, <1>2, Mosts
<1> QED BY <1>1, <1>3 DEF Qoder!Safe

LEMMA VariantsKept ==
  \A v \in Qoder!Variants : v.open \in Seq(Char) /\ v.close \in Seq(Char) /\ Len(v.open) = 3
<1>1. \A a, b, c \in Char : <<a, b, c>> \in Seq(Char) /\ Len(<<a, b, c>>) = 3
  OBVIOUS
<1>2. "<" \in Char /\ "t" \in Char /\ "T" \in Char /\ "r" \in Char /\ "R" \in Char /\ ">" \in Char
  BY DEF Char
<1> DEFINE Open1 == <<"<", "t", ">">>
           Open2 == <<"<", "r", ">">>
           Close1 == <<"<", "T", ">">>
           Close2 == <<"<", "R", ">">>
<1>3. \A v \in Qoder!Variants : v.open \in {Open1, Open2} /\ v.close \in {Close1, Close2}
  BY DEF Qoder!Variants
<1>4. \A g \in {Open1, Open2, Close1, Close2} : g \in Seq(Char) /\ Len(g) = 3
  BY <1>1, <1>2
<1> HIDE DEF Open1, Open2, Close1, Close2
<1> QED BY <1>3, <1>4


(* A run of the parser.                                                       *)
Parsing(s) == Kept(s) /\ s.parser /\ ~s.native

LEMMA BeforeKept ==
  ASSUME NEW s, Parsing(s), NEW r, r = Qoder!BeforeThinking(s)
  PROVE  Kept(r) /\ Steady(r, s)
<1> DEFINE found == {v \in Qoder!Variants : Qoder!Places(s.buffer, v.open) # {}}
           first == CHOOSE v \in found : \A w \in found :
                      Qoder!Min0(Qoder!Places(s.buffer, v.open)) <= Qoder!Min0(Qoder!Places(s.buffer, w.open))
           pos == Qoder!Min0(Qoder!Places(s.buffer, first.open))
           safe == Qoder!Safe(s.buffer, {v.open : v \in Qoder!Variants})
<1>1. Kept(s) /\ s.parser /\ s.buffer \in Seq(Char)
  BY DEF Parsing, Kept, StreamRecord
<1>2. CASE found # {}
  <2> DEFINE T == {n \in Nat : \E v \in found : n = Qoder!Min0(Qoder!Places(s.buffer, v.open))}
             a == Qoder!EmitText(s, Qoder!Upto(s.buffer, pos - 1))
             b == Qoder!From(s.buffer, pos + Len(first.open))
  <2>1. \A v \in found : Qoder!Min0(Qoder!Places(s.buffer, v.open)) \in Nat
    BY <1>1, VariantsKept, PlacesIn
  <2>2. PICK n \in T : \A m \in T : n <= m
    <3>1. T \subseteq Nat /\ T # {}
      BY <1>2, <2>1
    <3> HIDE DEF T
    <3> QED BY <3>1, NatLeast
  <2>3. \E v \in found : \A w \in found :
          Qoder!Min0(Qoder!Places(s.buffer, v.open)) <= Qoder!Min0(Qoder!Places(s.buffer, w.open))
    BY <2>1, <2>2
  <2>4. first \in found
    BY <2>3
  <2> HIDE DEF first, T
  <2>5. /\ first \in Qoder!Variants /\ first.open \in Seq(Char) /\ first.close \in Seq(Char)
        /\ Len(first.open) = 3 /\ Qoder!Places(s.buffer, first.open) # {}
    BY <2>4, VariantsKept
  <2>6. pos \in Nat \ {0} /\ pos - 1 <= Len(s.buffer)
    BY <1>1, <2>5, PlacesIn
  <2> HIDE DEF pos
  <2>7. r = Entered(a, b, first.close)
    BY <1>2 DEF Qoder!BeforeThinking, Entered, first, pos
  <2>8. Qoder!Upto(s.buffer, pos - 1) \in Seq(Char) /\ b \in Seq(Char)
    <3>1. pos - 1 \in Int /\ pos + Len(first.open) \in Int /\ pos + Len(first.open) >= 1
      BY <2>5, <2>6
    <3> QED BY <1>1, <2>6, <3>1, UptoKept, FromKept
  <2>9. a = Qoder!EmitText(s, Qoder!Upto(s.buffer, pos - 1))
    OBVIOUS
  <2> HIDE DEF a, b, found
  <2>10. Kept(a) /\ Steady(a, s)
    BY <1>1, <2>8, <2>9, EmitTextKept
  <2> DEFINE g == first.close
  <2>11. g \in Seq(Char) /\ r = Entered(a, b, g)
    BY <2>5, <2>7
  <2> HIDE DEF g
  <2>12. Kept(r) /\ Steady(r, a)
    BY <2>8, <2>10, <2>11, EnteredKept
  <2> QED BY <2>10, <2>12, SteadyTwice
<1>3. CASE found = {}
  <2> DEFINE a == Qoder!EmitText(s, Qoder!Upto(s.buffer, safe))
             b == Qoder!From(s.buffer, safe + 1)
  <2>1. r = Buffered(a, b)
    BY <1>3 DEF Qoder!BeforeThinking, Buffered
  <2>2. safe \in 0 .. Len(s.buffer)
    BY <1>1, SafeIn
  <2> HIDE DEF safe
  <2>3. Qoder!Upto(s.buffer, safe) \in Seq(Char) /\ b \in Seq(Char)
    <3>1. safe \in Int /\ safe <= Len(s.buffer) /\ safe + 1 \in Int /\ safe + 1 >= 1
      BY <1>1, <2>2
    <3> QED BY <1>1, <3>1, UptoKept, FromKept
  <2>4. a = Qoder!EmitText(s, Qoder!Upto(s.buffer, safe))
    OBVIOUS
  <2> HIDE DEF a, b
  <2>5. Kept(a) /\ Steady(a, s)
    BY <1>1, <2>3, <2>4, EmitTextKept
  <2> QED BY <2>1, <2>3, <2>5, BufferedKept, SteadyTwice
<1> QED BY <1>2, <1>3

LEMMA InsideKept ==
  ASSUME NEW s, Parsing(s), s.inside, NEW r, r = Qoder!InsideThinking(s)
  PROVE  Kept(r) /\ Steady(r, s)
<1> DEFINE ends == Qoder!Places(s.buffer, s.tag)
           pos == Qoder!Min0(ends)
           safe == Qoder!Safe(s.buffer, {s.tag})
<1>1. Kept(s) /\ s.parser /\ ~s.native /\ s.inside /\ s.buffer \in Seq(Char) /\ s.tag \in Seq(Char)
  BY DEF Parsing, Kept, StreamRecord
<1>2. CASE ends # {}
  <2> DEFINE a == Qoder!EmitThinking(s, Qoder!Upto(s.buffer, pos - 1))
             c == Qoder!From(s.buffer, pos + Len(s.tag))
             b == Qoder!WithoutBreak(c)
  <2>1. r = Left(ThinkEnded(a), b)
    BY <1>2 DEF Qoder!InsideThinking, Left, ThinkEnded, Null
  <2>2. pos \in Nat \ {0} /\ pos - 1 <= Len(s.buffer)
    BY <1>1, <1>2, PlacesIn
  <2> HIDE DEF pos
  <2>3. Qoder!Upto(s.buffer, pos - 1) \in Seq(Char) /\ c \in Seq(Char)
    <3>1. pos - 1 \in Int /\ pos + Len(s.tag) \in Int /\ pos + Len(s.tag) >= 1
      BY <1>1, <2>2
    <3> QED BY <1>1, <2>2, <3>1, UptoKept, FromKept
  <2> HIDE DEF c
  <2>4. b \in Seq(Char)
    BY <2>3, FromKept DEF Qoder!WithoutBreak
  <2>5. a = Qoder!EmitThinking(s, Qoder!Upto(s.buffer, pos - 1))
    OBVIOUS
  <2> HIDE DEF a, b
  <2>6. Kept(a) /\ Steady(a, s)
    BY <1>1, <2>3, <2>5, EmitThinkingKept
  <2>7. ~a.native
    BY <1>1, <2>6 DEF Steady
  <2> QED BY <2>1, <2>4, <2>6, <2>7, LeftKept, SteadyTwice
<1>3. CASE ends = {}
  <2> DEFINE a == Qoder!EmitThinking(s, Qoder!Upto(s.buffer, safe))
             b == Qoder!From(s.buffer, safe + 1)
  <2>1. r = Buffered(a, b)
    BY <1>3 DEF Qoder!InsideThinking, Buffered
  <2>2. safe \in 0 .. Len(s.buffer)
    BY <1>1, SafeIn
  <2> HIDE DEF safe
  <2>3. Qoder!Upto(s.buffer, safe) \in Seq(Char) /\ b \in Seq(Char)
    <3>1. safe \in Int /\ safe <= Len(s.buffer) /\ safe + 1 \in Int /\ safe + 1 >= 1
      BY <1>1, <2>2
    <3> QED BY <1>1, <3>1, UptoKept, FromKept
  <2>4. a = Qoder!EmitThinking(s, Qoder!Upto(s.buffer, safe))
    OBVIOUS
  <2> HIDE DEF a, b
  <2>5. Kept(a) /\ Steady(a, s)
    BY <1>1, <2>3, <2>4, EmitThinkingKept
  <2> QED BY <2>1, <2>3, <2>5, BufferedKept, SteadyTwice
<1> QED BY <1>2, <1>3

LEMMA RoundKept ==
  ASSUME NEW s, Parsing(s), NEW r, r = Qoder!Round(s)
  PROVE  Parsing(r) /\ Steady(r, s)
<1> DEFINE b == IF s.inside THEN s ELSE Qoder!BeforeThinking(s)
<1>1. Kept(b) /\ Steady(b, s)
  <2>1. CASE s.inside
    BY <2>1 DEF Parsing, Steady
  <2>2. CASE ~s.inside
    BY <2>2, BeforeKept
  <2> QED BY <2>1, <2>2
<1>2. r = IF b.inside /\ b.buffer # <<>> THEN Qoder!InsideThinking(b) ELSE b
  BY DEF Qoder!Round
<1> HIDE DEF b
<1>3. Parsing(b)
  BY <1>1 DEF Parsing, Steady
<1>4. Kept(r) /\ Steady(r, s)
  <2>1. CASE b.inside /\ b.buffer # <<>>
    BY <1>1, <1>2, <1>3, <2>1, InsideKept, SteadyTwice
  <2>2. CASE ~(b.inside /\ b.buffer # <<>>)
    BY <1>1, <1>2, <2>2
  <2> QED BY <2>1, <2>2
<1> QED BY <1>4 DEF Parsing, Steady

LEMMA CountUp ==
  ASSUME NEW T, 0 \in T, \A n \in Nat : n \in T => n + 1 \in T
  PROVE  Nat \subseteq T
<1>1. SUFFICES ASSUME Nat \ T # {} PROVE FALSE
  OBVIOUS
<1>2. PICK x \in Nat \ T : \A y \in Nat \ T : x <= y
  BY <1>1, NatLeast
<1>3. x - 1 \in Nat /\ ~(x <= x - 1) /\ x = (x - 1) + 1
  BY <1>2
<1>4. x - 1 \in T
  BY <1>2, <1>3
<1> QED BY <1>2, <1>3, <1>4

(* The rounds of a loop, one per character.                                   *)
Runs(h, s, k) == h[0] = s /\ \A n \in 1 .. k : h[n] = Qoder!Round(h[n - 1])
LEMMA RoundsExist ==
  ASSUME NEW s, NEW k \in Nat
  PROVE  \E h : Runs(h, s, k)
<1> DEFINE Up(h, j) == h[0] = s /\ \A n \in 1 .. j : h[n] = Qoder!Round(h[n - 1])
           T == {j \in Nat : \E h : Up(h, j)}
<1>1. 0 \in T
  <2>1. Up([n \in {0} |-> s], 0)
    OBVIOUS
  <2> QED BY <2>1
<1>2. ASSUME NEW j \in Nat, j \in T PROVE j + 1 \in T
  <2>1. PICK h : Up(h, j)
    BY <1>2
  <2> DEFINE g == [n \in 0 .. j + 1 |-> IF n = j + 1 THEN Qoder!Round(h[j]) ELSE h[n]]
  <2>2. g[j + 1] = Qoder!Round(h[j]) /\ \A n \in 0 .. j : g[n] = h[n]
    OBVIOUS
  <2>3. \A n \in 1 .. j + 1 : n - 1 \in 0 .. j /\ (n \in 1 .. j \/ n = j + 1)
    OBVIOUS
  <2>4. g[0] = s /\ j + 1 - 1 = j
    BY <2>1, <2>2
  <2> HIDE DEF g
  <2>5. \A n \in 1 .. j + 1 : g[n] = Qoder!Round(g[n - 1])
    <3> SUFFICES ASSUME NEW n \in 1 .. j + 1 PROVE g[n] = Qoder!Round(g[n - 1])
      OBVIOUS
    <3>1. CASE n \in 1 .. j
      <4>1. n \in 0 .. j /\ n - 1 \in 0 .. j
        BY <2>3, <3>1
      <4>2. h[n] = Qoder!Round(h[n - 1])
        BY <2>1, <3>1
      <4> QED BY <2>2, <4>1, <4>2
    <3>2. CASE n = j + 1
      BY <2>2, <2>3, <2>4, <3>2
    <3> QED BY <2>3, <3>1, <3>2
  <2>6. Up(g, j + 1)
    BY <2>4, <2>5
  <2> QED BY <2>6
<1> HIDE DEF T
<1>3. k \in T
  BY <1>1, <1>2, CountUp
<1> QED BY <1>3 DEF T, Runs

Looped(s, D) ==
  LET iter[S \in SUBSET D] == IF S = {} THEN s ELSE LET x == Qoder!Max(S) IN Qoder!Round(iter[S \ {x}])
  IN iter[D]

LEMMA RoundsAreLooped == ASSUME NEW s PROVE Qoder!Rounds(s) = Looped(s, DOMAIN s.buffer)
BY DEF Qoder!Rounds, Qoder!FoldLeft, Qoder!MapThenFoldSet, Looped

LEMMA LoopedRuns ==
  ASSUME NEW s, NEW k \in Nat
  PROVE  \E h : Runs(h, s, k) /\ Looped(s, 1 .. k) = h[k]
<1> DEFINE D == 1 .. k
           Def(g) == g = [S \in SUBSET D |->
                       IF S = {} THEN s ELSE LET x == Qoder!Max(S) IN Qoder!Round(g[S \ {x}])]
           iter == CHOOSE g : Def(g)
<1>1. Looped(s, D) = iter[D]
  BY DEF Looped
<1>2. IsFiniteSet(D) /\ \A S \in SUBSET D : IsFiniteSet(S) /\ Cardinality(S) \in Nat /\ Cardinality(S) <= Cardinality(D)
  <2>1. IsFiniteSet(D)
    BY FS_Interval
  <2> HIDE DEF D
  <2>2. Cardinality(D) \in Nat /\ \A S \in SUBSET D : IsFiniteSet(S) /\ Cardinality(S) <= Cardinality(D)
    BY <2>1, FS_Subset, FS_CardinalityType
  <2> QED BY <2>1, <2>2, FS_CardinalityType
<1>3. \A S \in SUBSET D : S # {} =>
        /\ S \ {Qoder!Max(S)} \in SUBSET D
        /\ Cardinality(S \ {Qoder!Max(S)}) = Cardinality(S) - 1
  <2> SUFFICES ASSUME NEW S \in SUBSET D, S # {}
               PROVE  Cardinality(S \ {Qoder!Max(S)}) = Cardinality(S) - 1
    OBVIOUS
  <2>1. Qoder!Max0(S) \in S
    <3>1. S \subseteq 0 .. k
      OBVIOUS
    <3> QED BY <3>1, Mosts
  <2>2. Qoder!Max(S) \in S
    BY <2>1 DEF Qoder!Max, Qoder!Max0
  <2> QED BY <1>2, <2>2, FS_RemoveElement
<1>4. PICK h : Runs(h, s, Cardinality(D))
  <2> DEFINE c == Cardinality(D)
  <2>1. c \in Nat
    BY <1>2
  <2> HIDE DEF c
  <2>2. \E h : Runs(h, s, c)
    BY <2>1, RoundsExist
  <2> QED BY <2>2 DEF c
<1> DEFINE g == [S \in SUBSET D |-> h[Cardinality(S)]]
<1>5. Def(g)
  <2> SUFFICES ASSUME NEW S \in SUBSET D
               PROVE  h[Cardinality(S)] = IF S = {} THEN s ELSE Qoder!Round(g[S \ {Qoder!Max(S)}])
    OBVIOUS
  <2>1. CASE S = {}
    BY <1>4, <2>1, FS_EmptySet DEF Runs
  <2>2. CASE S # {}
    <3>1. Cardinality(S) \in 1 .. Cardinality(D)
      <4>1. Cardinality(S) # 0 /\ Cardinality(S) \in Nat /\ Cardinality(S) <= Cardinality(D) /\ Cardinality(D) \in Nat
        BY <1>2, <2>2, FS_EmptySet
      <4> QED BY <4>1
    <3>2. g[S \ {Qoder!Max(S)}] = h[Cardinality(S) - 1]
      BY <1>3, <2>2
    <3> QED BY <1>4, <2>2, <3>1, <3>2 DEF Runs
  <2> QED BY <2>1, <2>2
<1>6. Def(iter)
  BY <1>5
<1> HIDE DEF g, iter
<1>7. \A S \in SUBSET D : iter[S] = IF S = {} THEN s ELSE Qoder!Round(iter[S \ {Qoder!Max(S)}])
  BY <1>6
<1> HIDE DEF Def
<1>8. Cardinality(D) = k
  BY FS_Interval
<1> DEFINE T == {n \in Nat : \A S \in SUBSET D : Cardinality(S) = n => iter[S] = h[n]}
<1>9. 0 \in T
  BY <1>2, <1>4, <1>7, FS_EmptySet DEF Runs
<1>10. ASSUME NEW n \in Nat, n \in T PROVE n + 1 \in T
  <2> SUFFICES ASSUME NEW S \in SUBSET D, Cardinality(S) = n + 1
               PROVE  iter[S] = h[n + 1]
    OBVIOUS
  <2> DEFINE R == S \ {Qoder!Max(S)}
  <2>1. S # {}
    BY FS_EmptySet
  <2>2. R \in SUBSET D /\ Cardinality(R) = n
    BY <1>3, <2>1
  <2>3. iter[S] = Qoder!Round(iter[R])
    BY <1>7, <2>1
  <2>4. n + 1 \in 1 .. Cardinality(D) /\ (n + 1) - 1 = n
    BY <1>2
  <2> HIDE DEF R, D
  <2>5. iter[R] = h[n]
    BY <1>10, <2>2
  <2>6. h[n + 1] = Qoder!Round(h[n])
    BY <1>4, <2>4 DEF Runs
  <2> QED BY <2>3, <2>5, <2>6
<1> HIDE DEF T
<1>11. k \in T
  BY <1>9, <1>10, CountUp
<1>12. iter[D] = h[k]
  BY <1>8, <1>11 DEF T
<1> HIDE DEF D
<1> QED BY <1>1, <1>4, <1>8, <1>12 DEF D

LEMMA LoopedKept ==
  ASSUME NEW s, Parsing(s), NEW k \in Nat, NEW r, r = Looped(s, 1 .. k)
  PROVE  Parsing(r) /\ Steady(r, s)
<1>1. PICK h : Runs(h, s, k) /\ r = h[k]
  BY LoopedRuns
<1> DEFINE T == {n \in Nat : n <= k => Parsing(h[n]) /\ Steady(h[n], s)}
<1>2. 0 \in T
  BY <1>1 DEF Runs, Steady
<1>3. ASSUME NEW n \in Nat, n \in T PROVE n + 1 \in T
  <2> SUFFICES ASSUME n + 1 <= k PROVE Parsing(h[n + 1]) /\ Steady(h[n + 1], s)
    OBVIOUS
  <2>1. n + 1 \in 1 .. k /\ (n + 1) - 1 = n /\ n <= k
    OBVIOUS
  <2>2. h[n + 1] = Qoder!Round(h[n])
    BY <1>1, <2>1 DEF Runs
  <2>3. Parsing(h[n]) /\ Steady(h[n], s)
    BY <1>3, <2>1
  <2> QED BY <2>2, <2>3, RoundKept, SteadyTwice
<1> HIDE DEF T
<1>4. k \in T
  BY <1>2, <1>3, CountUp
<1> QED BY <1>1, <1>4 DEF T

LEMMA ProcessKept ==
  ASSUME NEW s, Parsing(s), NEW t \in Seq(Char), NEW r, r = Qoder!ProcessChunk(s, t)
  PROVE  Kept(r) /\ Steady(r, s)
<1> DEFINE b == s.buffer \o t
           q == Buffered(s, b)
<1>1. r = Qoder!Rounds(q)
  BY DEF Qoder!ProcessChunk, Buffered
<1>2. b \in Seq(Char) /\ q = Buffered(s, b)
  BY DEF Parsing, Kept, StreamRecord
<1> HIDE DEF b, q
<1>3. Kept(q) /\ Steady(q, s) /\ q.buffer = b
  BY <1>2, BufferedKept DEF Parsing
<1>4. Parsing(q)
  BY <1>3 DEF Parsing, Steady
<1> DEFINE k == Len(b)
<1>5. k \in Nat /\ r = Looped(q, 1 .. k)
  BY <1>1, <1>2, <1>3, RoundsAreLooped
<1> HIDE DEF k
<1>6. Parsing(r) /\ Steady(r, q)
  BY <1>4, <1>5, LoopedKept
<1> QED BY <1>3, <1>6, SteadyTwice DEF Parsing

(* The end of native reasoning.                                               *)
Unreasoned(s) == [s EXCEPT !.reasoning = Null]
LEMMA ReasoningClosedState ==
  ASSUME NEW s \in StreamRecord, Points(s, s.reasoning, "thinking"), NEW r, r = Qoder!ReasoningClosed(s)
  PROVE  /\ r \in StreamRecord /\ r.reasoning = Null /\ r.plain = s.plain /\ r.calls = s.calls
         /\ r.native = s.native /\ r.parser = s.parser /\ r.buffer = s.buffer
         /\ r.inside = s.inside /\ r.think = s.think /\ r.text = s.text
         /\ Len(r.content) = Len(s.content) /\ SameTools(r, s)
         /\ \A n \in 1 .. Len(s.content) :
              /\ r.content[n].kind = s.content[n].kind /\ r.content[n].body = s.content[n].body
              /\ n # s.reasoning => r.content[n] = s.content[n]
              /\ n = s.reasoning => r.content[n].ends = s.content[n].ends + 1
<1>1. CASE s.reasoning = Null
  <2>1. r = s
    BY <1>1 DEF Qoder!ReasoningClosed, Null
  <2>2. \A n \in 1 .. Len(s.content) : n # s.reasoning
    BY <1>1, NullIs
  <2> QED BY <1>1, <2>1, <2>2, SameToolsSelf
<1>2. CASE s.reasoning # Null
  <2> DEFINE q == Qoder!Ended(s, s.reasoning)
  <2>1. s.reasoning \in 1 .. Len(s.content) /\ s.content[s.reasoning].kind = "thinking"
    BY <1>2 DEF Points
  <2>2. r = Unreasoned(q)
    BY <1>2 DEF Qoder!ReasoningClosed, Unreasoned, Null
  <2>3. q = Qoder!Ended(s, s.reasoning)
    OBVIOUS
  <2> HIDE DEF q
  <2>4. /\ q \in StreamRecord /\ SameMarks(q, s) /\ SameBut(q, s, s.reasoning)
        /\ q.content[s.reasoning].body = s.content[s.reasoning].body
        /\ q.content[s.reasoning].ends = s.content[s.reasoning].ends + 1
    BY <2>1, <2>3, EndedState
  <2>5. /\ r \in StreamRecord /\ r.reasoning = Null /\ r.plain = q.plain /\ r.calls = q.calls
        /\ r.native = q.native /\ r.parser = q.parser /\ r.buffer = q.buffer
        /\ r.inside = q.inside /\ r.think = q.think /\ r.text = q.text /\ r.content = q.content
    BY <2>2, <2>4, NullIs DEF Unreasoned, StreamRecord
  <2>6. \A n \in 1 .. Len(s.content) :
          /\ r.content[n].kind = s.content[n].kind /\ r.content[n].body = s.content[n].body
          /\ n # s.reasoning => r.content[n] = s.content[n]
          /\ n = s.reasoning => r.content[n].ends = s.content[n].ends + 1
    BY <2>1, <2>4, <2>5 DEF SameBut
  <2>7. SameTools(r, s)
    BY <2>1, <2>4, <2>5, <2>6, LenOfContent DEF SameTools, SameMarks, SameBut
  <2> QED BY <2>4, <2>5, <2>6, <2>7 DEF SameMarks, SameBut
<1> QED BY <1>1, <1>2

LEMMA ReasoningClosedKept ==
  ASSUME NEW s, Kept(s), NEW r, r = Qoder!ReasoningClosed(s)
  PROVE  /\ Kept(r) /\ SameTools(r, s) /\ r.parser = s.parser /\ r.native = s.native
<1>1. s \in StreamRecord /\ Points(s, s.reasoning, "thinking")
  BY DEF Kept, MarksInv
<1>2. /\ r \in StreamRecord /\ r.reasoning = Null /\ r.plain = s.plain /\ r.calls = s.calls
      /\ r.native = s.native /\ r.parser = s.parser /\ r.buffer = s.buffer
      /\ r.inside = s.inside /\ r.think = s.think /\ r.text = s.text
      /\ Len(r.content) = Len(s.content) /\ SameTools(r, s)
      /\ \A n \in 1 .. Len(s.content) :
           /\ r.content[n].kind = s.content[n].kind /\ r.content[n].body = s.content[n].body
           /\ n # s.reasoning => r.content[n] = s.content[n]
           /\ n = s.reasoning => r.content[n].ends = s.content[n].ends + 1
  BY <1>1, ReasoningClosedState
<1>3. MarksInv(r)
  BY <1>2 DEF Kept, MarksInv, Points
<1>4. BlocksInv(r)
  <2> SUFFICES ASSUME NEW n \in 1 .. Len(r.content)
               PROVE  /\ r.content[n].ends = IF r.content[n].kind = "thinking" /\ n \notin {r.think, r.reasoning}
                                             THEN 1 ELSE 0
                      /\ r.content[n].kind = "toolCall" => r.content[n].body = <<>>
    BY DEF BlocksInv
  <2>1. n \in 1 .. Len(s.content) /\ n # Null
    BY <1>2, NullIs
  <2>2. CASE n = s.reasoning
    <3>1. s.content[n].kind = "thinking" /\ n # s.think /\ s.content[n].ends = 0
      BY <1>1, <2>1, <2>2 DEF Points, Kept, MarksInv, BlocksInv
    <3> QED BY <1>2, <2>1, <2>2, <3>1
  <2>3. CASE n # s.reasoning
    BY <1>2, <2>1, <2>3 DEF Kept, BlocksInv
  <2> QED BY <2>2, <2>3
<1>5. CallsInv(r) /\ OpenTextInv(r)
  BY <1>2 DEF Kept, CallsInv, OpenTextInv
<1> QED BY <1>2, <1>3, <1>4, <1>5 DEF Kept

LEMMA SaidKept ==
  ASSUME NEW s, Kept(s), NEW t \in Seq(Char), NEW r, r = Qoder!Said(s, t)
  PROVE  /\ Kept(r) /\ r.calls = s.calls /\ (NoTools(s) => NoTools(r))
         /\ r.parser = s.parser /\ r.native = s.native
<1> DEFINE c == Qoder!ReasoningClosed(s)
<1>1. Kept(c) /\ SameTools(c, s) /\ c.parser = s.parser /\ c.native = s.native
  BY ReasoningClosedKept
<1>2. c.calls = s.calls /\ (NoTools(s) => NoTools(c))
  BY <1>1, SameToolsNone DEF SameTools
<1>3. r = IF c.parser /\ ~c.native THEN Qoder!ProcessChunk(c, t)
          ELSE IF c.plain # Null THEN Qoder!Grown(c, c.plain, t)
          ELSE Qoder!Grown(NewPlain(c), Qoder!Here(c), t)
  BY DEF Qoder!Said, NewPlain, Null
<1> HIDE DEF c
<1>4. CASE c.parser /\ ~c.native
  <2>1. r = Qoder!ProcessChunk(c, t) /\ Parsing(c)
    BY <1>1, <1>3, <1>4 DEF Parsing
  <2>2. Kept(r) /\ Steady(r, c)
    BY <2>1, ProcessKept
  <2> QED BY <1>1, <1>2, <2>2 DEF Steady
<1>5. CASE ~(c.parser /\ ~c.native) /\ c.plain # Null
  <2>1. r = Qoder!Grown(c, c.plain, t)
    BY <1>3, <1>5
  <2>2. c.plain \in 1 .. Len(c.content) /\ c.content[c.plain].kind # "toolCall"
    BY <1>1, <1>5 DEF Kept, MarksInv, Points
  <2>3. Kept(r) /\ SameTools(r, c) /\ SameMarks(r, c)
    BY <1>1, <2>1, <2>2, GrownKept
  <2> QED BY <1>1, <1>2, <2>3, SameToolsNone DEF SameTools, SameMarks
<1>6. CASE ~(c.parser /\ ~c.native) /\ c.plain = Null
  <2> DEFINE h == Qoder!Here(c)
             q == NewPlain(c)
  <2>1. r = Qoder!Grown(q, h, t) /\ (c.native \/ ~c.parser) /\ q = NewPlain(c)
    BY <1>3, <1>6
  <2> HIDE DEF q
  <2>2. Opened(q, c, "text")
    BY <1>1, <2>1, PlainOpened
  <2>3. Kept(q) /\ h \in 1 .. Len(q.content) /\ q.content[h].kind = "text"
    BY <1>1, <2>2, OpenedKept
  <2> HIDE DEF h
  <2>4. Kept(r) /\ SameTools(r, q) /\ SameMarks(r, q)
    BY <2>1, <2>3, GrownKept
  <2>5. SameTools(q, c) /\ q.parser = c.parser /\ q.native = c.native
    BY <2>2 DEF Opened
  <2> QED BY <1>1, <1>2, <2>4, <2>5, SameToolsNone DEF SameTools, SameMarks
<1> QED BY <1>4, <1>5, <1>6

Natively(s) == [s EXCEPT !.native = TRUE]
LEMMA ReasonedKept ==
  ASSUME NEW s, Kept(s), NEW t \in Seq(Char), NEW r, r = Qoder!Reasoned(s, t)
  PROVE  Kept(r) /\ SameTools(r, s) /\ r.native
<1> DEFINE n == Natively(s)
<1>1. s \in StreamRecord
  BY DEF Kept
<1>2. /\ n \in StreamRecord /\ n.content = s.content /\ n.plain = s.plain /\ n.reasoning = s.reasoning
      /\ n.calls = s.calls /\ n.native /\ n.parser = s.parser /\ n.buffer = s.buffer
      /\ n.inside = s.inside /\ n.think = s.think /\ n.text = s.text
  BY <1>1 DEF Natively, StreamRecord
<1>3. r = IF n.reasoning # Null THEN Qoder!Grown(n, n.reasoning, t)
          ELSE Qoder!Grown(NewReasoning(n), Qoder!Here(n), t)
  BY <1>2 DEF Qoder!Reasoned, NewReasoning, Natively, Null, Qoder!Here
<1> HIDE DEF n
<1>4. Kept(n) /\ SameTools(n, s)
  <2>1. MarksInv(n) /\ BlocksInv(n) /\ CallsInv(n) /\ OpenTextInv(n)
    BY <1>2 DEF Kept, MarksInv, BlocksInv, CallsInv, OpenTextInv, Points
  <2> QED BY <1>1, <1>2, <2>1, LenOfContent DEF Kept, SameTools
<1>5. CASE n.reasoning # Null
  <2>1. r = Qoder!Grown(n, n.reasoning, t)
    BY <1>3, <1>5
  <2>2. n.reasoning \in 1 .. Len(n.content) /\ n.content[n.reasoning].kind # "toolCall"
    BY <1>4, <1>5 DEF Kept, MarksInv, Points
  <2>3. Kept(r) /\ SameTools(r, n) /\ r.native = n.native
    BY <1>4, <2>1, <2>2, GrownKept DEF SameMarks
  <2> QED BY <1>1, <1>2, <1>4, <2>3, SameToolsTwice, LenOfContent DEF Kept
<1>6. CASE n.reasoning = Null
  <2> DEFINE h == Qoder!Here(n)
             q == NewReasoning(n)
  <2>1. r = Qoder!Grown(q, h, t) /\ q = NewReasoning(n)
    BY <1>3, <1>6
  <2> HIDE DEF q
  <2>2. Opened(q, n, "thinking")
    BY <1>2, <1>4, <1>6, <2>1, ReasoningOpened
  <2>3. Kept(q) /\ h \in 1 .. Len(q.content) /\ q.content[h].kind = "thinking"
    BY <1>4, <2>2, OpenedKept
  <2> HIDE DEF h
  <2>4. Kept(r) /\ SameTools(r, q) /\ r.native = q.native
    BY <2>1, <2>3, GrownKept DEF SameMarks
  <2>5. SameTools(q, n) /\ q.native = n.native
    BY <2>2 DEF Opened
  <2>6. SameTools(q, s)
    BY <1>1, <1>4, <2>3, <2>5, SameToolsTwice, LenOfContent DEF Kept
  <2> QED BY <1>1, <1>2, <2>3, <2>4, <2>5, <2>6, SameToolsTwice, LenOfContent DEF Kept
<1> QED BY <1>5, <1>6

(* The tool calls, each with its block unless text came in between.           *)
Exact(s) ==
  /\ \A i \in Tool :
       /\ s.calls[i].at = Null => s.calls[i].pieces = 0
       /\ s.calls[i].at # Null => /\ s.content[s.calls[i].at].kind = "toolCall"
                                  /\ s.content[s.calls[i].at].id = i
  /\ \A n \in 1 .. Len(s.content) :
       s.content[n].kind = "toolCall" =>
         /\ s.content[n].id \in Tool /\ s.calls[s.content[n].id].at = n
         /\ s.content[n].deltas = s.calls[s.content[n].id].pieces

LEMMA ExactKept ==
  ASSUME NEW s, Exact(s), NEW r, SameTools(r, s),
         \A i \in Tool : s.calls[i].at # Null => s.calls[i].at \in 1 .. Len(s.content)
  PROVE  Exact(r)
BY DEF Exact, SameTools

CallRecord == [known : BOOLEAN, pieces : Nat, at : Int]
WithCalls(s, c) == [s EXCEPT !.calls = c]
LEMMA CallsMarked ==
  ASSUME NEW s \in StreamRecord, NEW c \in [Tool -> CallRecord], NEW r, r = WithCalls(s, c)
  PROVE  /\ r \in StreamRecord /\ r.calls = c /\ r.content = s.content
         /\ r.plain = s.plain /\ r.reasoning = s.reasoning /\ r.native = s.native
         /\ r.parser = s.parser /\ r.buffer = s.buffer /\ r.inside = s.inside
         /\ r.think = s.think /\ r.text = s.text /\ r.tag = s.tag
BY DEF StreamRecord, CallRecord, WithCalls

(* A call that a delta names, one whose block is opened, and a piece of it.   *)
Named(s, i) == [s EXCEPT !.calls[i].known = TRUE]
Begun(s, i) == [Qoder!Started(s, "toolCall", i) EXCEPT !.calls[i].at = Qoder!Here(s)]
Piece(s, i, p) == [s EXCEPT !.calls[i].pieces = @ + 1, !.content[p].deltas = @ + 1]

(* What the parser holds, and the blocks but for the pieces in calls.         *)
SameParse(r, s) ==
  /\ r.native = s.native /\ r.parser = s.parser /\ r.buffer = s.buffer
  /\ r.inside = s.inside /\ r.tag = s.tag /\ r.think = s.think
SameBodies(r, s) ==
  /\ Len(r.content) = Len(s.content)
  /\ \A n \in 1 .. Len(s.content) :
       r.content[n].kind = s.content[n].kind /\ r.content[n].body = s.content[n].body

LEMMA NamedKept ==
  ASSUME NEW s, Kept(s), NEW i \in Tool, NEW r, r = Named(s, i)
  PROVE  /\ Kept(r) /\ (Exact(s) => Exact(r)) /\ r.content = s.content /\ SameParse(r, s)
         /\ \A j \in Tool : r.calls[j].at = s.calls[j].at
<1> DEFINE c == [s.calls EXCEPT ![i].known = TRUE]
<1>1. s \in StreamRecord /\ s.calls \in [Tool -> CallRecord]
  BY DEF Kept, StreamRecord, CallRecord
<1>2. /\ c \in [Tool -> CallRecord] /\ r = WithCalls(s, c)
      /\ \A j \in Tool : c[j].at = s.calls[j].at /\ c[j].pieces = s.calls[j].pieces
  BY <1>1 DEF CallRecord, Named, WithCalls
<1> HIDE DEF c
<1>3. /\ r \in StreamRecord /\ r.calls = c /\ r.content = s.content
      /\ r.plain = s.plain /\ r.reasoning = s.reasoning /\ r.native = s.native
      /\ r.parser = s.parser /\ r.inside = s.inside /\ r.think = s.think /\ r.text = s.text
      /\ r.buffer = s.buffer /\ r.tag = s.tag
  BY <1>1, <1>2, CallsMarked
<1>4. MarksInv(r) /\ BlocksInv(r) /\ OpenTextInv(r)
  BY <1>3 DEF Kept, MarksInv, BlocksInv, OpenTextInv, Points
<1>5. CallsInv(r)
  BY <1>2, <1>3 DEF Kept, CallsInv
<1>6. Exact(s) => Exact(r)
  BY <1>2, <1>3 DEF Exact
<1> QED BY <1>2, <1>3, <1>4, <1>5, <1>6 DEF Kept, SameParse

LEMMA BegunKept ==
  ASSUME NEW s, Kept(s), NEW i \in Tool, s.calls[i].at = Null, NEW r, r = Begun(s, i)
  PROVE  /\ Kept(r) /\ (Exact(s) => Exact(r)) /\ r.calls[i].at = Qoder!Here(s)
         /\ SameParse(r, s) /\ Appends(r, s, "toolCall")
<1> DEFINE q == Qoder!Started(s, "toolCall", i)
           h == Qoder!Here(s)
           b == Qoder!Block("toolCall", i)
           c == [s.calls EXCEPT ![i].at = h]
<1>1. /\ s \in StreamRecord /\ s.calls \in [Tool -> CallRecord] /\ Len(s.content) \in Nat
      /\ b = Qoder!Block("toolCall", i) /\ q = Qoder!Started(s, "toolCall", i)
  BY LenOfContent DEF Kept, StreamRecord, CallRecord
<1>2. h = Len(s.content) + 1
  BY DEF Qoder!Here
<1>3. r = [q EXCEPT !.calls[i].at = h]
  BY DEF Begun
<1>4. /\ q \in StreamRecord /\ SameMarks(q, s) /\ Len(q.content) = Len(s.content) + 1
      /\ \A n \in 1 .. Len(s.content) : q.content[n] = s.content[n]
      /\ q.content[Len(s.content) + 1] = b
      /\ b.kind = "toolCall" /\ b.id = i /\ b.body = <<>> /\ b.ends = 0 /\ b.deltas = 0
  <2>1. s \in StreamRecord /\ i \in Tool \cup {Qoder!Null}
    BY <1>1
  <2>2. q \in StreamRecord /\ SameMarks(q, s) /\ Len(q.content) = Len(s.content) + 1
    BY <2>1, StartedState
  <2>3. \A n \in 1 .. Len(s.content) : q.content[n] = s.content[n]
    <3>1. q.content = Append(s.content, b) /\ s.content \in Seq(BlockRecord)
      BY <1>1 DEF Qoder!Started, StreamRecord
    <3> HIDE DEF q, b
    <3> QED BY <3>1
  <2>4. q.content[Len(s.content) + 1] = b
    BY <2>1, StartedState
  <2>5. b.kind = "toolCall" /\ b.id = i /\ b.body = <<>> /\ b.ends = 0 /\ b.deltas = 0
    BY <2>1, StartedState
  <2> HIDE DEF b, q, c, h
  <2> QED BY <2>2, <2>3, <2>4, <2>5
<1> HIDE DEF q, b, c, h
<1>5. q.calls = s.calls
  BY <1>4 DEF SameMarks
<1>6. /\ c \in [Tool -> CallRecord] /\ r = WithCalls(q, c) /\ c[i].at = h
      /\ \A j \in Tool : c[j].pieces = s.calls[j].pieces /\ (j # i => c[j].at = s.calls[j].at)
  <2>1. r = WithCalls(q, [q.calls EXCEPT ![i].at = h])
    BY <1>3 DEF WithCalls
  <2>2. r = WithCalls(q, c)
    BY <1>5, <2>1 DEF c
  <2>3. h \in Int
    BY <1>1, <1>2
  <2>4. c \in [Tool -> CallRecord] /\ c[i].at = h
    BY <1>1, <2>3 DEF CallRecord, c
  <2>5. \A j \in Tool : c[j].pieces = s.calls[j].pieces /\ (j # i => c[j].at = s.calls[j].at)
    BY <1>1 DEF CallRecord, c
  <2> QED BY <2>2, <2>4, <2>5
<1>7. /\ r \in StreamRecord /\ r.calls = c /\ r.content = q.content
      /\ r.plain = q.plain /\ r.reasoning = q.reasoning /\ r.native = q.native
      /\ r.parser = q.parser /\ r.inside = q.inside /\ r.think = q.think /\ r.text = q.text
      /\ r.buffer = q.buffer /\ r.tag = q.tag
  BY <1>4, <1>6, CallsMarked
<1>8. /\ r.plain = s.plain /\ r.reasoning = s.reasoning /\ r.native = s.native
      /\ r.parser = s.parser /\ r.inside = s.inside /\ r.think = s.think /\ r.text = s.text
      /\ r.buffer = s.buffer /\ r.tag = s.tag
  BY <1>4, <1>7 DEF SameMarks
<1>9. /\ Len(r.content) = Len(s.content) + 1 /\ h \in 1 .. Len(r.content)
      /\ \A n \in 1 .. Len(r.content) : n \in 1 .. Len(s.content) \/ n = h
      /\ \A n \in 1 .. Len(s.content) : r.content[n] = s.content[n] /\ n \in 1 .. Len(r.content) /\ n # h
      /\ r.content[h] = b
  BY <1>1, <1>2, <1>4, <1>7
<1>10. MarksInv(r)
  BY <1>8, <1>9 DEF Kept, MarksInv, Points
<1>11. BlocksInv(r)
  <2> SUFFICES ASSUME NEW n \in 1 .. Len(r.content)
               PROVE  /\ r.content[n].ends = IF r.content[n].kind = "thinking" /\ n \notin {r.think, r.reasoning}
                                             THEN 1 ELSE 0
                      /\ r.content[n].kind = "toolCall" => r.content[n].body = <<>>
    BY DEF BlocksInv
  <2>1. CASE n = h
    BY <1>4, <1>9, <2>1
  <2>2. CASE n \in 1 .. Len(s.content)
    BY <1>8, <1>9, <2>2 DEF Kept, BlocksInv
  <2> QED BY <1>9, <2>1, <2>2
<1>12. CallsInv(r)
  <2> SUFFICES ASSUME NEW j \in Tool, r.calls[j].at # Null
               PROVE  /\ r.calls[j].at \in 1 .. Len(r.content)
                      /\ r.content[r.calls[j].at].kind # "thinking"
                      /\ r.text # Null /\ r.think = Null => r.calls[j].at # r.text
    BY DEF CallsInv
  <2>1. CASE j = i
    <3>1. r.text # Null => r.text # h
      BY <1>8, <1>9 DEF Kept, MarksInv, Points
    <3> QED BY <1>4, <1>6, <1>7, <1>9, <2>1, <3>1
  <2>2. CASE j # i
    BY <1>6, <1>7, <1>8, <1>9, <2>2 DEF Kept, CallsInv
  <2> QED BY <2>1, <2>2
<1>13. OpenTextInv(r)
  BY <1>4, <1>8, <1>9 DEF Kept, OpenTextInv
<1>14. ASSUME Exact(s) PROVE Exact(r)
  <2>1. s.calls[i].pieces = 0
    BY <1>14 DEF Exact
  <2>2. ASSUME NEW j \in Tool
        PROVE  /\ r.calls[j].at = Null => r.calls[j].pieces = 0
               /\ r.calls[j].at # Null => /\ r.content[r.calls[j].at].kind = "toolCall"
                                          /\ r.content[r.calls[j].at].id = j
    <3>1. CASE j = i
      BY <1>4, <1>6, <1>7, <1>9, <2>1, <3>1
    <3>2. CASE j # i
      <4>1. r.calls[j].at = s.calls[j].at /\ r.calls[j].pieces = s.calls[j].pieces
        BY <1>6, <1>7, <3>2
      <4>2. s.calls[j].at # Null => /\ s.calls[j].at \in 1 .. Len(s.content)
                                    /\ s.content[s.calls[j].at].kind = "toolCall"
                                    /\ s.content[s.calls[j].at].id = j
        BY <1>14 DEF Exact, Kept, CallsInv
      <4>3. s.calls[j].at = Null => s.calls[j].pieces = 0
        BY <1>14 DEF Exact
      <4> QED BY <1>9, <4>1, <4>2, <4>3
    <3> QED BY <3>1, <3>2
  <2>3. ASSUME NEW n \in 1 .. Len(r.content), r.content[n].kind = "toolCall"
        PROVE  /\ r.content[n].id \in Tool /\ r.calls[r.content[n].id].at = n
               /\ r.content[n].deltas = r.calls[r.content[n].id].pieces
    <3>1. CASE n = h
      BY <1>4, <1>6, <1>7, <1>9, <2>1, <3>1
    <3>2. CASE n \in 1 .. Len(s.content)
      <4>1. /\ s.content[n].id \in Tool /\ s.calls[s.content[n].id].at = n
            /\ s.content[n].deltas = s.calls[s.content[n].id].pieces /\ r.content[n] = s.content[n]
        BY <1>9, <1>14, <2>3, <3>2 DEF Exact
      <4>2. s.content[n].id # i
        BY <3>2, <4>1, NullIs
      <4> QED BY <1>6, <1>7, <4>1, <4>2
    <3> QED BY <1>9, <3>1, <3>2
  <2> QED BY <2>2, <2>3 DEF Exact
<1>15. SameParse(r, s) /\ Appends(r, s, "toolCall")
  <2>1. Qoder!Here(s) = Len(s.content) + 1
    BY DEF Qoder!Here
  <2> QED BY <1>1, <1>2, <1>4, <1>8, <1>9, <2>1 DEF SameParse, Appends
<1> QED BY <1>6, <1>7, <1>10, <1>11, <1>12, <1>13, <1>14, <1>15 DEF Kept, h

LEMMA PieceKept ==
  ASSUME NEW s, Kept(s), NEW i \in Tool, NEW p, p = s.calls[i].at, p # Null,
         NEW r, r = Piece(s, i, p)
  PROVE  /\ Kept(r) /\ (Exact(s) => Exact(r)) /\ SameParse(r, s) /\ SameBodies(r, s)
<1> DEFINE a == s.content[p]
           b == Changed(a, a.body, a.deltas + 1)
           q == Replaced(s, p, b)
           c == [s.calls EXCEPT ![i].pieces = @ + 1]
<1>1. s \in StreamRecord /\ s.calls \in [Tool -> CallRecord] /\ p \in 1 .. Len(s.content)
  BY DEF Kept, StreamRecord, CallRecord, CallsInv
<1>2. a \in BlockRecord /\ a.body \in Seq(Char) /\ a.deltas \in Nat /\ a.deltas + 1 \in Nat
  <2>1. a \in BlockRecord
    BY <1>1 DEF StreamRecord
  <2> HIDE DEF a
  <2> QED BY <2>1 DEF BlockRecord
<1>3. r = WithCalls(q, c)
  BY <1>1 DEF Piece, WithCalls, Replaced, Changed
<1>4. c \in [Tool -> CallRecord]
      /\ \A j \in Tool : c[j].at = s.calls[j].at /\ c[j].pieces = s.calls[j].pieces + (IF j = i THEN 1 ELSE 0)
  BY <1>1 DEF CallRecord
<1> HIDE DEF c, a
<1>5. b \in BlockRecord /\ b.kind = a.kind /\ b.id = a.id /\ b.body = a.body /\ b.ends = a.ends
      /\ b.deltas = a.deltas + 1
  <2> DEFINE v == a.body
             d == a.deltas + 1
  <2>1. v \in Seq(Char) /\ d \in Nat
    BY <1>2
  <2> HIDE DEF v, d
  <2> QED BY <1>2, <2>1, BlockChanged DEF v, d
<1>6. q = Replaced(s, p, b)
  OBVIOUS
<1> HIDE DEF b, q
<1>7. /\ q \in StreamRecord /\ SameMarks(q, s) /\ SameBut(q, s, p) /\ q.content[p] = b
  BY <1>1, <1>5, <1>6, BlockReplaced DEF a
<1>8. /\ r \in StreamRecord /\ r.calls = c /\ r.content = q.content
      /\ r.plain = q.plain /\ r.reasoning = q.reasoning /\ r.native = q.native
      /\ r.parser = q.parser /\ r.inside = q.inside /\ r.think = q.think /\ r.text = q.text
      /\ r.buffer = q.buffer /\ r.tag = q.tag
  BY <1>3, <1>4, <1>7, CallsMarked
<1>9. /\ r.plain = s.plain /\ r.reasoning = s.reasoning /\ r.native = s.native
      /\ r.parser = s.parser /\ r.inside = s.inside /\ r.think = s.think /\ r.text = s.text
      /\ r.buffer = s.buffer /\ r.tag = s.tag
  BY <1>7, <1>8 DEF SameMarks
<1>10. /\ Len(r.content) = Len(s.content)
       /\ \A n \in 1 .. Len(s.content) :
            /\ r.content[n].kind = s.content[n].kind /\ r.content[n].id = s.content[n].id
            /\ r.content[n].body = s.content[n].body /\ r.content[n].ends = s.content[n].ends
            /\ n # p => r.content[n] = s.content[n]
       /\ r.content[p].deltas = s.content[p].deltas + 1
  BY <1>1, <1>5, <1>7, <1>8 DEF SameBut, a
<1>11. MarksInv(r) /\ OpenTextInv(r)
  <2>1. MarksInv(r)
    BY <1>9, <1>10 DEF Kept, MarksInv, Points
  <2>2. OpenTextInv(r)
    BY <1>9, <1>10 DEF Kept, OpenTextInv
  <2> QED BY <2>1, <2>2
<1>12. BlocksInv(r)
  BY <1>9, <1>10 DEF Kept, BlocksInv
<1>13. CallsInv(r)
  <2> SUFFICES ASSUME NEW j \in Tool, r.calls[j].at # Null
               PROVE  /\ r.calls[j].at \in 1 .. Len(r.content)
                      /\ r.content[r.calls[j].at].kind # "thinking"
                      /\ r.text # Null /\ r.think = Null => r.calls[j].at # r.text
    BY DEF CallsInv
  <2> DEFINE x == s.calls[j].at
  <2>1. r.calls[j].at = x /\ x # Null
    BY <1>4, <1>8
  <2>2. CallsInv(s)
    BY DEF Kept
  <2>3. /\ x \in 1 .. Len(s.content) /\ s.content[x].kind # "thinking"
        /\ s.text # Null /\ s.think = Null => x # s.text
    BY <2>1, <2>2, Zenon DEF CallsInv
  <2> HIDE DEF x
  <2>4. Len(r.content) = Len(s.content) /\ r.content[x].kind = s.content[x].kind
    BY <1>10, <2>3
  <2> QED BY <1>9, <2>1, <2>3, <2>4
<1>14. ASSUME Exact(s) PROVE Exact(r)
  <2> DEFINE C == s.content
             D == r.content
             K == s.calls
             L == r.calls
             N == Len(s.content)
  <2>1. /\ Len(D) = N /\ D[p].deltas = C[p].deltas + 1 /\ p \in 1 .. N
        /\ \A n \in 1 .. N : D[n].kind = C[n].kind /\ D[n].id = C[n].id
        /\ \A n \in 1 .. N : n # p => D[n] = C[n]
    BY <1>1, <1>10
  <2>2. \A j \in Tool : L[j].at = K[j].at /\ (j # i => L[j].pieces = K[j].pieces)
    BY <1>1, <1>4, <1>8 DEF CallRecord
  <2>3. L[i].pieces = K[i].pieces + 1
    BY <1>4, <1>8
  <2>4. /\ K[i].at = p /\ K[i].at # Null /\ C[p].id = i
        /\ \A j \in Tool : /\ K[j].at = Null => K[j].pieces = 0
                           /\ K[j].at # Null => C[K[j].at].kind = "toolCall" /\ C[K[j].at].id = j
        /\ \A n \in 1 .. N :
             C[n].kind = "toolCall" =>
               C[n].id \in Tool /\ K[C[n].id].at = n /\ C[n].deltas = K[C[n].id].pieces
    BY <1>14 DEF Exact
  <2>5. \A j \in Tool : K[j].at # Null => K[j].at \in 1 .. N
    BY DEF Kept, CallsInv
  <2> HIDE DEF C, D, K, L, N
  <2>6. ASSUME NEW j \in Tool
        PROVE  /\ L[j].at = Null => L[j].pieces = 0
               /\ L[j].at # Null => D[L[j].at].kind = "toolCall" /\ D[L[j].at].id = j
    <3> DEFINE x == K[j].at
    <3>1. L[j].at = x /\ (x = Null => j # i) /\ (j # i => L[j].pieces = K[j].pieces)
      BY <2>2, <2>4
    <3>2. x = Null => K[j].pieces = 0
      BY <2>4
    <3>3. x # Null => x \in 1 .. N /\ C[x].kind = "toolCall" /\ C[x].id = j
      BY <2>4, <2>5
    <3> HIDE DEF x
    <3>4. x # Null => D[x].kind = "toolCall" /\ D[x].id = j
      BY <2>1, <3>3
    <3> QED BY <3>1, <3>2, <3>4
  <2>7. ASSUME NEW n \in 1 .. N, D[n].kind = "toolCall"
        PROVE  D[n].id \in Tool /\ L[D[n].id].at = n /\ D[n].deltas = L[D[n].id].pieces
    <3> DEFINE x == C[n].id
    <3>1. D[n].id = x /\ C[n].kind = "toolCall"
      BY <2>1, <2>7
    <3>2. x \in Tool /\ K[x].at = n /\ C[n].deltas = K[x].pieces
      BY <2>4, <3>1
    <3>3. n = p => x = i
      BY <2>4
    <3>4. n # p => x # i
      BY <2>2, <2>4, <3>2
    <3> HIDE DEF x
    <3>5. L[x].at = n /\ (x # i => L[x].pieces = K[x].pieces)
      BY <2>2, <3>2
    <3>6. CASE n = p
      BY <2>1, <2>3, <3>1, <3>2, <3>3, <3>5, <3>6
    <3>7. CASE n # p
      <4>1. D[n].deltas = C[n].deltas
        BY <2>1, <3>7
      <4> QED BY <3>1, <3>2, <3>4, <3>5, <3>7, <4>1
    <3> QED BY <3>6, <3>7
  <2>8. \A n \in 1 .. N :
          D[n].kind = "toolCall" => D[n].id \in Tool /\ L[D[n].id].at = n /\ D[n].deltas = L[D[n].id].pieces
    BY <2>7, Zenon
  <2>9. Len(D) = N
    BY <2>1
  <2> QED BY <2>6, <2>8, <2>9, Zenon DEF Exact, C, D, K, L
<1>15. SameParse(r, s) /\ SameBodies(r, s)
  BY <1>9, <1>10 DEF SameParse, SameBodies
<1> QED BY <1>8, <1>11, <1>12, <1>13, <1>14, <1>15 DEF Kept

LEMMA CalledKept ==
  ASSUME NEW s, Kept(s), NEW i \in Tool, NEW some, NEW r, r = Qoder!Called(s, i, some)
  PROVE  /\ Kept(r) /\ (Exact(s) => Exact(r))
<1> DEFINE k == Named(s, i)
           b == IF s.calls[i].at = Null THEN Begun(k, i) ELSE k
<1>1. /\ Kept(k) /\ (Exact(s) => Exact(k)) /\ k.content = s.content
      /\ \A j \in Tool : k.calls[j].at = s.calls[j].at
  BY NamedKept
<1>2. r = IF ~some THEN k ELSE Piece(b, i, b.calls[i].at)
  <2>1. Qoder!Here(s) = Qoder!Here(k)
    BY <1>1 DEF Qoder!Here
  <2> QED BY <2>1 DEF Qoder!Called, Qoder!Opens, Named, Begun, Piece, Null
<1>3. b = IF s.calls[i].at = Null THEN Begun(k, i) ELSE k
  OBVIOUS
<1> HIDE DEF k, b
<1>4. Kept(b) /\ (Exact(s) => Exact(b)) /\ b.calls[i].at # Null
  <2>1. CASE s.calls[i].at = Null
    <3>1. b = Begun(k, i) /\ k.calls[i].at = Null
      BY <1>1, <1>3, <2>1
    <3>2. Kept(b) /\ (Exact(k) => Exact(b)) /\ b.calls[i].at = Qoder!Here(k)
      BY <1>1, <3>1, BegunKept
    <3>3. Qoder!Here(k) # Null
      BY <1>1, LenOfContent, NullIs DEF Kept, Qoder!Here
    <3> QED BY <1>1, <3>2, <3>3
  <2>2. CASE s.calls[i].at # Null
    BY <1>1, <1>3, <2>2
  <2> QED BY <2>1, <2>2
<1>5. CASE ~some
  BY <1>1, <1>2, <1>5
<1>6. CASE some
  <2> DEFINE p == b.calls[i].at
  <2>1. p = b.calls[i].at /\ p # Null /\ r = Piece(b, i, p)
    BY <1>2, <1>4, <1>6
  <2> HIDE DEF p
  <2> QED BY <1>4, <2>1, PieceKept
<1> QED BY <1>5, <1>6

(* The end: the parser may leave the block ended that its mark leads to.      *)
Closing(s) ==
  /\ s \in StreamRecord /\ Points(s, s.reasoning, "thinking") /\ (s.think # Null => s.inside)
  /\ \A n \in 1 .. Len(s.content) :
       /\ s.content[n].ends \in {0, 1}
       /\ s.content[n].kind = "thinking" /\ s.content[n].ends = 0 => n \in {s.think, s.reasoning}
       /\ s.content[n].kind # "thinking" \/ n = s.reasoning => s.content[n].ends = 0
       /\ s.content[n].kind = "toolCall" => s.content[n].body = <<>>
  /\ \A i \in Tool : s.calls[i].at # Null => /\ s.calls[i].at \in 1 .. Len(s.content)
                                             /\ s.content[s.calls[i].at].kind # "thinking"

LEMMA KeptCloses == ASSUME NEW s, Kept(s) PROVE Closing(s)
<1>1. \A n \in 1 .. Len(s.content) : n = s.reasoning => s.content[n].ends = 0
  BY DEF Kept, BlocksInv
<1> QED BY <1>1 DEF Kept, MarksInv, BlocksInv, CallsInv, Closing

LEMMA FinalizedCloses ==
  ASSUME NEW s, Kept(s), s.parser, NEW r, r = Qoder!Finalized(s)
  PROVE  Closing(r) /\ SameTools(r, s)
<1> DEFINE f == CASE s.buffer = <<>> -> s
                  [] s.buffer # <<>> /\ s.inside /\ s.think # Null ->
                       Qoder!Ended(Qoder!Grown(s, s.think, s.buffer), s.think)
                  [] OTHER -> Qoder!EmitText(s, s.buffer)
<1>1. r = Buffered(f, <<>>)
  BY DEF Qoder!Finalized, Buffered, Null
<1>2. s \in StreamRecord /\ s.buffer \in Seq(Char) /\ Len(s.content) \in Nat
  BY LenOfContent DEF Kept, StreamRecord
<1>3. Closing(f) /\ SameTools(f, s)
  <2>1. CASE s.buffer = <<>>
    <3>1. f = s
      BY <2>1
    <3> QED BY <1>2, <3>1, KeptCloses, SameToolsSelf
  <2>2. CASE s.buffer # <<>> /\ s.inside /\ s.think # Null
    <3> DEFINE t == s.buffer
               p == s.think
               g == Qoder!Grown(s, p, t)
    <3>1. f = Qoder!Ended(g, p) /\ t \in Seq(Char)
      BY <1>2, <2>2
    <3>2. p \in 1 .. Len(s.content) /\ s.content[p].kind = "thinking" /\ p # s.reasoning
      BY <2>2 DEF Kept, MarksInv, Points
    <3>3. g = Qoder!Grown(s, p, t)
      OBVIOUS
    <3> HIDE DEF f, g, t, p
    <3>4. Kept(g) /\ SameMarks(g, s) /\ SameTools(g, s) /\ SameBut(g, s, p)
      BY <3>1, <3>2, <3>3, GrownKept
    <3>5. g \in StreamRecord /\ p \in 1 .. Len(g.content) /\ g.content[p].kind = "thinking"
          /\ p = g.think /\ p # g.reasoning
      BY <3>2, <3>4 DEF Kept, SameBut, SameMarks, p
    <3>6. /\ f \in StreamRecord /\ SameMarks(f, g) /\ SameBut(f, g, p)
          /\ f.content[p].ends = g.content[p].ends + 1
      BY <3>1, <3>5, EndedState
    <3>7. g.content[p].ends = 0
      BY <3>4, <3>5 DEF Kept, BlocksInv
    <3>8. SameTools(f, g)
      BY <3>5, <3>6, LenOfContent DEF SameTools, SameBut, SameMarks
    <3>9. SameTools(f, s)
      BY <1>2, <3>4, <3>5, <3>6, <3>8, SameToolsTwice, LenOfContent
    <3>10. Closing(f)
      <4>1. Closing(g)
        BY <3>4, KeptCloses
      <4>2. \A n \in 1 .. Len(f.content) :
              n \in 1 .. Len(g.content) /\ f.content[n].kind = g.content[n].kind
              /\ (n # p => f.content[n] = g.content[n])
        BY <3>6 DEF SameBut
      <4>3. /\ f.reasoning = g.reasoning /\ f.think = g.think /\ f.inside = g.inside /\ f.calls = g.calls
            /\ Len(f.content) = Len(g.content)
        BY <3>6 DEF SameBut, SameMarks
      <4>4. f.content[p].ends = 1 /\ f.content[p].kind = "thinking"
        BY <3>5, <3>6, <3>7 DEF SameBut
      <4>5. Points(f, f.reasoning, "thinking") /\ (f.think # Null => f.inside)
        BY <4>1, <4>2, <4>3 DEF Closing, Points
      <4>6. \A n \in 1 .. Len(f.content) :
              /\ f.content[n].ends \in {0, 1}
              /\ f.content[n].kind = "thinking" /\ f.content[n].ends = 0 => n \in {f.think, f.reasoning}
              /\ f.content[n].kind # "thinking" \/ n = f.reasoning => f.content[n].ends = 0
              /\ f.content[n].kind = "toolCall" => f.content[n].body = <<>>
        <5> TAKE n \in 1 .. Len(f.content)
        <5>1. CASE n = p
          BY <3>5, <4>3, <4>4, <5>1
        <5>2. CASE n # p
          BY <4>1, <4>2, <4>3, <5>2 DEF Closing
        <5> QED BY <5>1, <5>2
      <4>7. \A i \in Tool : f.calls[i].at # Null => /\ f.calls[i].at \in 1 .. Len(f.content)
                                                    /\ f.content[f.calls[i].at].kind # "thinking"
        BY <4>1, <4>2, <4>3 DEF Closing
      <4> QED BY <3>6, <4>5, <4>6, <4>7 DEF Closing
    <3> QED BY <3>9, <3>10
  <2>3. CASE s.buffer # <<>> /\ ~(s.inside /\ s.think # Null)
    <3> DEFINE t == s.buffer
    <3>1. f = Qoder!EmitText(s, t) /\ t \in Seq(Char)
      BY <1>2, <2>3
    <3> HIDE DEF f, t
    <3> QED BY <3>1, EmitTextKept, KeptCloses
  <2> QED BY <2>1, <2>2, <2>3
<1> HIDE DEF f
<1>4. /\ r \in StreamRecord /\ r.content = f.content /\ r.reasoning = f.reasoning /\ r.calls = f.calls
      /\ r.inside = f.inside /\ r.think = f.think
  <2> DEFINE b == <<>>
  <2>1. f \in StreamRecord /\ b \in Seq(Char) /\ r = Buffered(f, b)
    BY <1>1, <1>3 DEF Closing
  <2> HIDE DEF b
  <2> QED BY <2>1, BufferedState
<1> QED BY <1>3, <1>4 DEF Closing, SameTools, Points

(* What the message is when the stream is over.                               *)
EndsSound(s, orderly) ==
  /\ \A n \in 1 .. Len(s.content) :
       /\ s.content[n].ends <= 1 /\ (s.content[n].kind = "text" /\ orderly => s.content[n].ends = 0)
       /\ s.content[n].kind = "toolCall" => s.content[n].body = <<>>
       /\ s.content[n].kind = "thinking" /\ s.content[n].ends = 0 => n = s.think
       /\ orderly /\ s.content[n].kind = "toolCall" =>
            /\ s.content[n].ends = 1 /\ s.content[n].args = s.calls[s.content[n].id].pieces
            /\ s.content[n].deltas = s.content[n].args
  /\ s.think # Null => s.inside

Settled(b, n, a) == [b EXCEPT !.ends = n, !.args = a]
LEMMA BlockSettled ==
  ASSUME NEW b \in BlockRecord, NEW n \in Nat, NEW a \in Nat, NEW e, e = Settled(b, n, a)
  PROVE  /\ e \in BlockRecord /\ e.kind = b.kind /\ e.id = b.id /\ e.body = b.body
         /\ e.deltas = b.deltas /\ e.ends = n /\ e.args = a
BY DEF BlockRecord, Settled

CallEnded(b, a) == Settled(b, b.ends + 1, a)
LEMMA CallBlockEnded ==
  ASSUME NEW b \in BlockRecord, NEW a \in Nat
  PROVE  /\ CallEnded(b, a) \in BlockRecord
         /\ CallEnded(b, a).kind = b.kind /\ CallEnded(b, a).id = b.id
         /\ CallEnded(b, a).body = b.body /\ CallEnded(b, a).deltas = b.deltas
         /\ CallEnded(b, a).ends = b.ends + 1 /\ CallEnded(b, a).args = a
<1> DEFINE n == b.ends + 1
           e == Settled(b, n, a)
<1>1. n \in Nat /\ CallEnded(b, a) = e
  BY DEF BlockRecord, CallEnded
<1> HIDE DEF n
<1>2. /\ e \in BlockRecord /\ e.kind = b.kind /\ e.id = b.id /\ e.body = b.body
      /\ e.deltas = b.deltas /\ e.ends = n /\ e.args = a
  BY <1>1, BlockSettled
<1>3. n = b.ends + 1
  BY DEF n
<1> HIDE DEF e
<1> QED BY <1>1, <1>2, <1>3

LEMMA ToolsEndedState ==
  ASSUME NEW s, Closing(s), s.reasoning = Null, NEW orderly, orderly => Exact(s),
         NEW r, r = Qoder!ToolsEnded(s)
  PROVE  EndsSound(r, orderly) /\ DOMAIN r.content = 1 .. Len(r.content)
         /\ \A n \in 1 .. Len(r.content) : r.content[n].kind \in {"text", "thinking", "toolCall"}
<1> DEFINE done == {i \in Tool : s.calls[i].at # Null}
           Hit(n) == \E i \in done : s.calls[i].at = n
           Mine(n) == CHOOSE i \in done : s.calls[i].at = n
           c == [n \in DOMAIN s.content |->
                  IF Hit(n) THEN CallEnded(s.content[n], s.calls[Mine(n)].pieces) ELSE s.content[n]]
<1>1. /\ s \in StreamRecord /\ s.content \in Seq(BlockRecord) /\ Len(s.content) \in Nat
      /\ DOMAIN s.content = 1 .. Len(s.content)
  BY DEF Closing, StreamRecord
<1>2. r = [s EXCEPT !.content = c]
  BY DEF Qoder!ToolsEnded, Null, CallEnded, Settled
<1>4. \A n : Hit(n) => Mine(n) \in Tool /\ s.calls[Mine(n)].at = n /\ n # Null
  OBVIOUS
<1>5. \A i \in Tool : s.calls[i].pieces \in Nat
  BY <1>1 DEF StreamRecord
<1> HIDE DEF Mine
<1>6. c = [n \in 1 .. Len(s.content) |->
             IF Hit(n) THEN CallEnded(s.content[n], s.calls[Mine(n)].pieces) ELSE s.content[n]]
  BY <1>1
<1> HIDE DEF Hit, c
<1>7. \A n \in 1 .. Len(s.content) : s.content[n] \in BlockRecord
  BY <1>1
<1>8. \A n \in 1 .. Len(s.content) : c[n] \in BlockRecord
  <2> TAKE n \in 1 .. Len(s.content)
  <2>1. CASE Hit(n)
    BY <1>4, <1>5, <1>6, <1>7, <2>1, CallBlockEnded
  <2>2. CASE ~Hit(n)
    BY <1>6, <1>7, <2>2
  <2> QED BY <2>1, <2>2
<1>9. c \in Seq(BlockRecord) /\ Len(c) = Len(s.content)
  <2>1. c \in [1 .. Len(s.content) -> BlockRecord]
    <3> DEFINE v(n) == IF Hit(n) THEN CallEnded(s.content[n], s.calls[Mine(n)].pieces) ELSE s.content[n]
    <3>1. c = [n \in 1 .. Len(s.content) |-> v(n)]
      BY <1>6
    <3> HIDE DEF v
    <3> QED BY <1>8, <3>1
  <2>2. \A n \in Nat : \A f \in [1 .. n -> BlockRecord] : f \in Seq(BlockRecord) /\ Len(f) = n
    OBVIOUS
  <2> QED BY <1>1, <2>1, <2>2
<1>10. /\ r \in StreamRecord /\ r.content = c /\ r.calls = s.calls /\ r.think = s.think
       /\ r.inside = s.inside
  BY <1>1, <1>2, <1>9 DEF StreamRecord
<1>11. ASSUME NEW n \in 1 .. Len(r.content)
       PROVE  /\ r.content[n].ends <= 1 /\ (r.content[n].kind = "text" /\ orderly => r.content[n].ends = 0)
              /\ r.content[n].kind = "toolCall" => r.content[n].body = <<>>
              /\ r.content[n].kind = "thinking" /\ r.content[n].ends = 0 => n = r.think
              /\ orderly /\ r.content[n].kind = "toolCall" =>
                   /\ r.content[n].ends = 1 /\ r.content[n].args = r.calls[r.content[n].id].pieces
                   /\ r.content[n].deltas = r.content[n].args
              /\ r.content[n].kind \in {"text", "thinking", "toolCall"}
  <2>1. n \in 1 .. Len(s.content) /\ n # Null
    BY <1>9, <1>10, NullIs
  <2>2. s.content[n].kind \in {"text", "thinking", "toolCall"} /\ s.content[n].ends \in {0, 1}
    BY <1>7, <2>1 DEF BlockRecord, Closing
  <2>3. CASE Hit(n)
    <3> DEFINE i == Mine(n)
    <3>1. i \in Tool /\ s.calls[i].at = n /\ i \in done
      BY <1>4, <2>3
    <3>2. r.content[n] = CallEnded(s.content[n], s.calls[i].pieces)
      BY <1>6, <1>10, <2>1, <2>3
    <3> HIDE DEF i
    <3>3. /\ r.content[n].kind = s.content[n].kind /\ r.content[n].id = s.content[n].id
          /\ r.content[n].body = s.content[n].body /\ r.content[n].deltas = s.content[n].deltas
          /\ r.content[n].ends = s.content[n].ends + 1 /\ r.content[n].args = s.calls[i].pieces
      <4> DEFINE b == s.content[n]
                 a == s.calls[i].pieces
                 e == r.content[n]
      <4>1. b \in BlockRecord /\ a \in Nat /\ e = CallEnded(b, a)
        BY <1>5, <1>7, <2>1, <3>1, <3>2
      <4> HIDE DEF a, b, e
      <4>2. /\ e.kind = b.kind /\ e.id = b.id /\ e.body = b.body
            /\ e.deltas = b.deltas /\ e.ends = b.ends + 1 /\ e.args = a
        BY <4>1, CallBlockEnded
      <4> QED BY <4>2 DEF a, b, e
    <3>4. s.content[n].kind # "thinking" /\ s.content[n].ends = 0
      BY <2>1, <3>1 DEF Closing
    <3>5. orderly => s.content[n].kind = "toolCall" /\ s.content[n].id = i /\ s.content[n].deltas = s.calls[i].pieces
      BY <2>1, <3>1 DEF Exact
    <3> QED BY <1>10, <2>1, <2>2, <3>3, <3>4, <3>5 DEF Closing
  <2>4. CASE ~Hit(n)
    <3>1. r.content[n] = s.content[n]
      BY <1>6, <1>10, <2>1, <2>4
    <3>2. orderly => s.content[n].kind # "toolCall"
      BY <2>1, <2>4 DEF Exact, Hit
    <3> QED BY <1>10, <2>1, <2>2, <3>1, <3>2 DEF Closing
  <2> QED BY <2>3, <2>4
<1>12. r.think # Null => r.inside
  BY <1>10 DEF Closing
<1> QED BY <1>9, <1>10, <1>11, <1>12 DEF EndsSound

(* The stream.                                                                *)
QoderInv ==
  /\ Qoder!TypeOK /\ wire \in Seq(Char)
  /\ step # "over" => last = "none"
  /\ last # "done" => Kept(st) /\ (~mixed => Exact(st))
  /\ last = "done" => EndsSound(st, ~mixed) /\ DOMAIN st.content = 1 .. Len(st.content)

LEMMA TextsAreTexts == Texts \subseteq Seq(Char)
<1> DEFINE Bit == Seq(Char)
<1>1. "a" \in Char /\ "n" \in Char /\ "<" \in Char /\ ">" \in Char /\ "t" \in Char /\ "T" \in Char
      /\ "r" \in Char
  BY DEF Char
<1>2. \A a \in Char : <<a>> \in Bit
  OBVIOUS
<1>3. \A a, b, c \in Char : <<a, b, c>> \in Bit
  OBVIOUS
<1>4. \A a, b, c, d, e, f \in Char : <<a, b, c, d, e, f>> \in Bit
  OBVIOUS
<1>5. \A u, v \in Bit : u \o v \in Bit
  OBVIOUS
<1>6. <<"a">> \in Bit /\ <<"<">> \in Bit /\ Thought("t") \in Bit /\ Thought("r") \in Bit
      /\ <<"<", "T", ">">> \in Bit
  BY <1>1, <1>2, <1>3 DEF Thought
<1>7. <<"<", "T", ">", "n", "n", "a">> \in Bit
  BY <1>1, <1>4
<1>8. <<>> \in Bit
  OBVIOUS
<1> HIDE DEF Bit
<1> DEFINE Insides == {<<"a">>, <<"<">>}
           Endings == {<<>>, <<"<", "T", ">", "n", "n", "a">>, <<"<", "T", ">">> \o Thought("r") \o <<"a">>}
<1>9. \A u \in Insides : u \in Bit
  BY <1>6
<1>10. \A u \in Endings : u \in Bit
  <2>1. <<"<", "T", ">">> \o Thought("r") \o <<"a">> \in Bit
    BY <1>5, <1>6
  <2> QED BY <1>7, <1>8, <2>1
<1>11. <<"a">> \o Thought("t") \in Bit
  BY <1>5, <1>6
<1>12. Texts = {<<"a">> \o Thought("t") \o inside \o ending : inside \in Insides, ending \in Endings}
  BY DEF Texts
<1> HIDE DEF Insides, Endings
<1>13. \A u \in Insides, v \in Endings : <<"a">> \o Thought("t") \o u \o v \in Bit
  BY <1>5, <1>9, <1>10, <1>11
<1> SUFFICES ASSUME NEW u \in Texts PROVE u \in Bit
  BY DEF Bit
<1>14. PICK x \in Insides, y \in Endings : u = <<"a">> \o Thought("t") \o x \o y
  BY <1>12
<1> QED BY <1>13, <1>14

LEMMA FreshKept ==
  ASSUME NEW thinking \in BOOLEAN, NEW r, r = Qoder!Fresh(thinking)
  PROVE  Kept(r) /\ Exact(r)
<1> DEFINE tag == (CHOOSE v \in Qoder!Variants : v.open[2] = "t").close
           c == [i \in Tool |-> Qoder!NoCall]
           F(x, y) == [content |-> <<>>, plain |-> Null, reasoning |-> Null, calls |-> x,
                       native |-> FALSE, parser |-> thinking, buffer |-> <<>>, inside |-> FALSE,
                       think |-> Null, text |-> Null, tag |-> y]
<1>1. tag \in Seq(Char)
  <2>1. \E v \in Qoder!Variants : v.open[2] = "t"
    BY DEF Qoder!Variants
  <2>2. (CHOOSE v \in Qoder!Variants : v.open[2] = "t") \in Qoder!Variants
    BY <2>1
  <2> QED BY <2>2, VariantsKept
<1>2. c \in [Tool -> CallRecord] /\ \A i \in Tool : c[i].at = Null /\ c[i].pieces = 0
  BY NullIs DEF Qoder!NoCall, CallRecord, Null
<1>3. r = F(c, tag)
  BY DEF Qoder!Fresh, Null
<1> HIDE DEF tag, c
<1>4. /\ r.content = <<>> /\ r.plain = Null /\ r.reasoning = Null /\ r.calls = c /\ r.think = Null
      /\ r.text = Null
  BY <1>3
<1>5. r \in StreamRecord
  BY <1>1, <1>2, <1>3, NullIs DEF StreamRecord, CallRecord
<1> HIDE DEF F
<1>6. 1 .. Len(r.content) = {}
  BY <1>4
<1> QED BY <1>2, <1>4, <1>5, <1>6 DEF Kept, Exact, MarksInv, BlocksInv, CallsInv, OpenTextInv, Points

LEMMA KeptKinds ==
  ASSUME NEW s, Kept(s)
  PROVE  DOMAIN s.content = 1 .. Len(s.content)
         /\ \A n \in DOMAIN s.content : s.content[n].kind \in {"text", "thinking", "toolCall"}
<1>1. s.content \in Seq(BlockRecord)
  BY DEF Kept, StreamRecord
<1>2. DOMAIN s.content = 1 .. Len(s.content) /\ \A n \in DOMAIN s.content : s.content[n] \in BlockRecord
  BY <1>1
<1>3. \A b \in BlockRecord : b.kind \in {"text", "thinking", "toolCall"}
  BY DEF BlockRecord
<1> QED BY <1>2, <1>3

LEMMA QoderStarts == Qoder!Init => QoderInv
<1> SUFFICES ASSUME Qoder!Init PROVE QoderInv
  OBVIOUS
<1>1. PICK thinking \in BOOLEAN : st = Qoder!Fresh(thinking)
  BY DEF Qoder!Init
<1>2. Kept(st) /\ Exact(st)
  BY <1>1, FreshKept
<1>3. wire \in Seq(Char)
  BY TextsAreTexts DEF Qoder!Init
<1>4. \A n \in DOMAIN st.content : st.content[n].kind \in {"text", "thinking", "toolCall"}
  BY <1>2, KeptKinds
<1>5. Qoder!TypeOK
  <2>1. 0 \in 0 .. MaxOther
    BY ProvidersAssumption
  <2> QED BY <1>4, <2>1 DEF Qoder!Init, Qoder!TypeOK
<1>6. last = "none"
  BY DEF Qoder!Init
<1> QED BY <1>2, <1>3, <1>5, <1>6 DEF QoderInv

(* A text that comes in between has no block of a call before it, or is known *)
(* to mix them.                                                               *)
LEMMA TextKept == ASSUME QoderInv, Qoder!Text PROVE QoderInv'
<1>1. last = "none" /\ last' = last /\ step # "over" /\ step' = step /\ Kept(st) /\ (~mixed => Exact(st))
  BY DEF QoderInv, Qoder!Text
<1>2. PICK n \in 1 .. MaxPiece :
        n <= Len(wire) /\ wire' = Qoder!From(wire, n + 1) /\ st' = Qoder!Said(st, Qoder!Upto(wire, n))
  BY DEF Qoder!Text
<1> DEFINE t == Qoder!Upto(wire, n)
<1>3. t \in Seq(Char) /\ wire' \in Seq(Char)
  <2>1. wire \in Seq(Char) /\ n \in Int /\ n + 1 \in Int /\ n + 1 >= 1
    BY DEF QoderInv
  <2> QED BY <1>2, <2>1, UptoKept, FromKept
<1> HIDE DEF t
<1>4. Kept(st') /\ st'.calls = st.calls /\ (NoTools(st) => NoTools(st'))
  <2>1. st' = Qoder!Said(st, t)
    BY <1>2 DEF t
  <2> QED BY <1>1, <1>3, <2>1, SaidKept
<1>5. ~mixed' => Exact(st')
  <2> SUFFICES ASSUME ~mixed' PROVE Exact(st')
    OBVIOUS
  <2>1. ~mixed /\ \A i \in Tool : st.calls[i].at = Null
    BY DEF Qoder!Text, Null
  <2>2. Exact(st)
    BY <1>1, <2>1
  <2>3. NoTools(st)
    BY <2>1, <2>2, NullIs DEF Exact, NoTools
  <2> QED BY <1>4, <2>1, <2>2, <2>3 DEF Exact, NoTools
<1>6. Qoder!TypeOK'
  BY <1>4, KeptKinds DEF QoderInv, Qoder!Text, Qoder!TypeOK
<1> QED BY <1>1, <1>3, <1>4, <1>5, <1>6 DEF QoderInv

LEMMA OtherKept == ASSUME QoderInv, Qoder!Other PROVE QoderInv'
<1>1. last = "none" /\ last' = last /\ step # "over" /\ step' = step /\ Kept(st) /\ (~mixed => Exact(st))
      /\ mixed' = mixed /\ wire' = wire
  BY DEF QoderInv, Qoder!Other
<1>2. Kept(st') /\ (~mixed => Exact(st'))
  <2>1. CASE st' = Qoder!Reasoned(st, <<"x">>)
    <3> DEFINE t == <<"x">>
    <3>1. t \in Seq(Char) /\ st' = Qoder!Reasoned(st, t)
      BY <2>1 DEF Char
    <3> HIDE DEF t
    <3>2. Kept(st') /\ SameTools(st', st)
      BY <1>1, <3>1, ReasonedKept
    <3> QED BY <1>1, <3>2, ExactKept DEF Kept, CallsInv
  <2>2. CASE \E i \in Tool, some \in BOOLEAN : st' = Qoder!Called(st, i, some)
    BY <1>1, <2>2, CalledKept
  <2> QED BY <2>1, <2>2 DEF Qoder!Other
<1>3. Qoder!TypeOK'
  <2>1. \A n \in DOMAIN st'.content : st'.content[n].kind \in {"text", "thinking", "toolCall"}
    BY <1>2, KeptKinds
  <2>2. others' \in 0 .. MaxOther /\ reason' = reason
    BY ProvidersAssumption DEF QoderInv, Qoder!TypeOK, Qoder!Other
  <2> QED BY <1>1, <2>1, <2>2 DEF QoderInv, Qoder!TypeOK
<1> QED BY <1>1, <1>2, <1>3 DEF QoderInv

LEMMA DoneKept == ASSUME QoderInv, Qoder!Done PROVE QoderInv'
<1>1. Kept(st) /\ (~mixed => Exact(st)) /\ mixed' = mixed /\ wire' = wire /\ last' = "done"
      /\ step' = "over"
  BY DEF QoderInv, Qoder!Done
<1> DEFINE f == IF st.parser THEN Qoder!Finalized(st) ELSE st
           c == Qoder!ReasoningClosed(f)
<1>2. Closing(f) /\ SameTools(f, st)
  <2>1. CASE st.parser
    BY <1>1, <2>1, FinalizedCloses
  <2>2. CASE ~st.parser
    BY <1>1, <2>2, KeptCloses, SameToolsSelf DEF Kept
  <2> QED BY <2>1, <2>2
<1>3. ~mixed => Exact(f)
  BY <1>1, <1>2, ExactKept DEF Kept, CallsInv
<1>4. st' = Qoder!ToolsEnded(c) /\ c = Qoder!ReasoningClosed(f)
  BY DEF Qoder!Done
<1> HIDE DEF f, c
<1>5. /\ c \in StreamRecord /\ c.reasoning = Null /\ c.calls = f.calls
      /\ c.inside = f.inside /\ c.think = f.think
      /\ Len(c.content) = Len(f.content) /\ SameTools(c, f)
      /\ \A n \in 1 .. Len(f.content) :
           /\ c.content[n].kind = f.content[n].kind /\ c.content[n].body = f.content[n].body
           /\ n # f.reasoning => c.content[n] = f.content[n]
           /\ n = f.reasoning => c.content[n].ends = f.content[n].ends + 1
  <2>1. f \in StreamRecord /\ Points(f, f.reasoning, "thinking")
    BY <1>2 DEF Closing
  <2> QED BY <1>4, <2>1, ReasoningClosedState
<1>6. Closing(c)
  <2>1. \A n \in 1 .. Len(c.content) :
          /\ c.content[n].ends \in {0, 1}
          /\ c.content[n].kind = "thinking" /\ c.content[n].ends = 0 => n \in {c.think, c.reasoning}
          /\ c.content[n].kind # "thinking" \/ n = c.reasoning => c.content[n].ends = 0
          /\ c.content[n].kind = "toolCall" => c.content[n].body = <<>>
    <3> TAKE n \in 1 .. Len(c.content)
    <3>1. n \in 1 .. Len(f.content) /\ n # Null
      BY <1>5, NullIs
    <3>2. CASE n = f.reasoning
      <4>1. f.content[n].kind = "thinking" /\ f.content[n].ends = 0
        BY <1>2, <3>1, <3>2 DEF Closing, Points
      <4>2. c.content[n].kind = "thinking" /\ c.content[n].ends = 1
        BY <1>5, <3>1, <3>2, <4>1
      <4> QED BY <1>5, <3>1, <4>2
    <3>3. CASE n # f.reasoning
      BY <1>2, <1>5, <3>1, <3>3 DEF Closing
    <3> QED BY <3>2, <3>3
  <2> QED BY <1>2, <1>5, <2>1 DEF Closing, Points
<1>7. ~mixed => Exact(c)
  BY <1>2, <1>3, <1>5, ExactKept DEF Closing
<1>8. /\ EndsSound(st', ~mixed) /\ DOMAIN st'.content = 1 .. Len(st'.content)
      /\ \A n \in 1 .. Len(st'.content) : st'.content[n].kind \in {"text", "thinking", "toolCall"}
  <2> DEFINE orderly == ~mixed
  <2>1. orderly => Exact(c)
    BY <1>7
  <2> HIDE DEF orderly
  <2>2. /\ EndsSound(st', orderly) /\ DOMAIN st'.content = 1 .. Len(st'.content)
        /\ \A n \in 1 .. Len(st'.content) : st'.content[n].kind \in {"text", "thinking", "toolCall"}
    BY <1>4, <1>5, <1>6, <2>1, ToolsEndedState
  <2> QED BY <2>2 DEF orderly
<1>9. Qoder!TypeOK'
  BY <1>8 DEF QoderInv, Qoder!Done, Qoder!TypeOK
<1> QED BY <1>1, <1>8, <1>9 DEF QoderInv

LEMMA QoderStep == QoderInv /\ (Qoder!Next \/ UNCHANGED streamVars) => QoderInv'
<1> SUFFICES ASSUME QoderInv, Qoder!Next \/ UNCHANGED streamVars PROVE QoderInv'
  OBVIOUS
<1>1. CASE step # "over" /\ Qoder!Breaks
  BY <1>1 DEF QoderInv, Qoder!Breaks, Qoder!TypeOK
<1>2. CASE step # "over" /\ step' \in {"fetch", "read"} /\ UNCHANGED <<wire, seen, st, others, reason, last, mixed>>
  BY <1>2 DEF QoderInv, Qoder!TypeOK
<1>3. CASE Qoder!Finish
  BY <1>3 DEF QoderInv, Qoder!Finish, Qoder!TypeOK
<1>4. CASE UNCHANGED streamVars
  BY <1>4 DEF QoderInv, streamVars, Qoder!TypeOK
<1> QED BY <1>1, <1>2, <1>3, <1>4, TextKept, OtherKept, DoneKept
        DEF Qoder!Next, Qoder!Setup, Qoder!Fetch, Qoder!BreaksOff

LEMMA QoderBlocks == QoderInv => Qoder!TypeOK /\ Qoder!BlocksSound
<1> SUFFICES ASSUME QoderInv PROVE Qoder!BlocksSound
  BY DEF QoderInv
<1>1. CASE last # "done"
  <2>1. Kept(st) /\ DOMAIN st.content = 1 .. Len(st.content)
    BY <1>1, KeptKinds DEF QoderInv
  <2>2. \A n \in 1 .. Len(st.content) :
          /\ st.content[n].ends <= 1 /\ (st.content[n].kind = "text" /\ ~mixed => st.content[n].ends = 0)
          /\ st.content[n].kind = "toolCall" => st.content[n].body = <<>>
    BY <2>1 DEF Kept, BlocksInv
  <2> QED BY <1>1, <2>1, <2>2 DEF Qoder!BlocksSound
<1>2. CASE last = "done"
  <2>1. EndsSound(st, ~mixed) /\ DOMAIN st.content = 1 .. Len(st.content)
    BY <1>2 DEF QoderInv
  <2> DEFINE A == {n \in DOMAIN st.content : st.content[n].kind = "thinking" /\ st.content[n].ends = 0}
  <2>2. A \subseteq {st.think} /\ (A # {} => st.think # Null)
    BY <2>1, NullIs DEF EndsSound
  <2>3. Qoder!Cardinality(A) <= IF st.inside THEN 1 ELSE 0
    <3>1. CASE A = {}
      <4>1. Qoder!Cardinality({}) = Cardinality({})
        BY DEF Qoder!Cardinality, Cardinality
      <4>2. Cardinality({}) = 0
        BY FS_EmptySet
      <4> QED BY <3>1, <4>1, <4>2
    <3>2. CASE A # {}
      <4>1. A = {st.think} /\ st.inside
        BY <2>1, <2>2, <3>2 DEF EndsSound
      <4>2. Qoder!Cardinality({st.think}) = 1
        <5>1. Qoder!Cardinality({st.think}) = Cardinality({st.think})
          BY DEF Qoder!Cardinality, Cardinality
        <5> QED BY <5>1, FS_Singleton
      <4> HIDE DEF A
      <4> QED BY <4>1, <4>2
    <3> QED BY <3>1, <3>2
  <2> HIDE DEF A
  <2>4. \A n \in DOMAIN st.content :
          /\ st.content[n].ends <= 1 /\ (st.content[n].kind = "text" /\ ~mixed => st.content[n].ends = 0)
          /\ st.content[n].kind = "toolCall" => st.content[n].body = <<>>
    BY <2>1 DEF EndsSound
  <2>5. ~mixed => \A n \in DOMAIN st.content :
          st.content[n].kind = "toolCall" =>
            st.content[n].ends = 1 /\ st.content[n].args = st.calls[st.content[n].id].pieces
            /\ st.content[n].deltas = st.content[n].args
    BY <2>1 DEF EndsSound
  <2> QED BY <1>2, <2>3, <2>4, <2>5 DEF Qoder!BlocksSound, A
<1> QED BY <1>1, <1>2

----------------------------------------------------------------------------
(* The parts of a sequence, put together from the first on.                   *)
Cat(x, y) == x \o y
Sums(h, a) == /\ h[0] = <<>>
              /\ \A n \in 1 .. Len(a) : h[n] = Cat(h[n - 1], a[n])

Str == Seq(Char)
LEMMA CatTyped ==
         /\ <<>> \in Str
         /\ \A x, y \in Str : Cat(x, y) \in Str
         /\ \A x \in Str : Cat(x, <<>>) = x /\ Cat(<<>>, x) = x
         /\ \A x, y, z \in Str : Cat(x, Cat(y, z)) = Cat(Cat(x, y), z)
BY DEF Cat, Str

LEMMA FlatIs ==
  ASSUME NEW a, Len(a) # 0
  PROVE  Qoder!FlattenSeq(a) =
           (CHOOSE f : f = [n \in 1 .. Len(a) |-> IF n = 1 THEN a[n] ELSE Cat(f[n - 1], a[n])])[Len(a)]
BY DEF Qoder!FlattenSeq, Cat
LEMMA FlatEmpty == ASSUME NEW a, Len(a) = 0 PROVE Qoder!FlattenSeq(a) = a
BY DEF Qoder!FlattenSeq

LEMMA SumsTyped ==
  ASSUME NEW a \in Seq(Str), NEW h, Sums(h, a)
  PROVE  \A n \in 0 .. Len(a) : h[n] \in Str
<1> DEFINE T == {n \in Nat : n <= Len(a) => h[n] \in Str}
<1>1. 0 \in T
  BY CatTyped DEF Sums
<1>2. ASSUME NEW n \in Nat, n \in T PROVE n + 1 \in T
  <2> SUFFICES ASSUME n + 1 <= Len(a) PROVE h[n + 1] \in Str
    OBVIOUS
  <2>1. n + 1 \in 1 .. Len(a) /\ n + 1 - 1 = n /\ h[n] \in Str
    BY <1>2
  <2>2. a[n + 1] \in Str
    BY <2>1
  <2>3. h[n + 1] = Cat(h[n], a[n + 1])
    BY <2>1 DEF Sums
  <2> QED BY <2>1, <2>2, <2>3, CatTyped
<1> HIDE DEF T
<1>3. Nat \subseteq T
  BY <1>1, <1>2, CountUp
<1> QED BY <1>3 DEF T

LEMMA SumsExist ==
  ASSUME NEW a \in Seq(Str)
  PROVE  \E h : Sums(h, a)
<1> DEFINE Up(h, k) == h[0] = <<>> /\ \A n \in 1 .. k : h[n] = Cat(h[n - 1], a[n])
           T == {k \in Nat : \E h : Up(h, k)}
<1>1. 0 \in T
  <2>1. Up([n \in {0} |-> <<>>], 0)
    OBVIOUS
  <2> QED BY <2>1
<1>2. ASSUME NEW k \in Nat, k \in T PROVE k + 1 \in T
  <2>1. PICK h : Up(h, k)
    BY <1>2
  <2> DEFINE g == [n \in 0 .. k + 1 |-> IF n = k + 1 THEN Cat(h[k], a[k + 1]) ELSE h[n]]
  <2>2. g[k + 1] = Cat(h[k], a[k + 1]) /\ \A n \in 0 .. k : g[n] = h[n]
    OBVIOUS
  <2>3. \A n \in 1 .. k + 1 : n - 1 \in 0 .. k /\ (n \in 1 .. k \/ n = k + 1)
    OBVIOUS
  <2>4. g[0] = <<>> /\ k + 1 - 1 = k /\ g[k] = h[k]
    BY <2>1, <2>2
  <2> HIDE DEF g
  <2>5. ASSUME NEW n \in 1 .. k + 1 PROVE g[n] = Cat(g[n - 1], a[n])
    <3>1. CASE n \in 1 .. k
      <4>1. n \in 0 .. k /\ n - 1 \in 0 .. k
        BY <2>3, <3>1
      <4>2. h[n] = Cat(h[n - 1], a[n])
        BY <2>1, <3>1
      <4> QED BY <2>2, <4>1, <4>2
    <3>2. CASE n = k + 1
      BY <2>2, <2>4, <3>2
    <3> QED BY <2>3, <3>1, <3>2
  <2>6. Up(g, k + 1)
    BY <2>4, <2>5
  <2> QED BY <2>6
<1> HIDE DEF T
<1>3. Len(a) \in T
  <2>1. Nat \subseteq T
    BY <1>1, <1>2, CountUp
  <2> QED BY <2>1
<1> QED BY <1>3 DEF T, Sums

LEMMA Flattened ==
  ASSUME NEW a \in Seq(Str), NEW h, Sums(h, a)
  PROVE  Qoder!FlattenSeq(a) = h[Len(a)] /\ h[Len(a)] \in Str
<1>1. CASE Len(a) = 0
  <2>1. a = <<>> /\ h[Len(a)] = <<>>
    BY <1>1 DEF Sums
  <2> QED BY <1>1, <2>1, CatTyped, FlatEmpty
<1>2. CASE Len(a) # 0
  <2> DEFINE D == 1 .. Len(a)
             Def(f) == f = [n \in D |-> IF n = 1 THEN a[n] ELSE Cat(f[n - 1], a[n])]
             flat == CHOOSE f : Def(f)
             g == [n \in D |-> h[n]]
  <2>1. Len(a) \in Nat \ {0} /\ Len(a) \in D
    BY <1>2
  <2>2. \A n \in D : h[n] \in Str
    BY <2>1, SumsTyped
  <2>3. Def(g)
    <3> SUFFICES ASSUME NEW n \in D PROVE h[n] = IF n = 1 THEN a[n] ELSE Cat(g[n - 1], a[n])
      OBVIOUS
    <3>1. CASE n = 1
      <4>1. h[1] = Cat(<<>>, a[1]) /\ a[1] \in Str
        BY <2>1 DEF Sums
      <4> QED BY <3>1, <4>1, CatTyped
    <3>2. CASE n # 1
      <4>1. n - 1 \in D
        BY <2>1, <3>2
      <4> QED BY <3>2, <4>1 DEF Sums
    <3> QED BY <3>1, <3>2
  <2>4. Def(flat)
    BY <2>3
  <2> HIDE DEF flat
  <2> DEFINE T == {n \in Nat : n + 1 \in D => flat[n + 1] = h[n + 1]}
  <2>5. 0 \in T
    <3>1. 1 \in D
      BY <2>1
    <3>2. flat[1] = a[1]
      BY <2>4, <3>1
    <3>3. g[1] = a[1] /\ g[1] = h[1]
      <4> HIDE DEF D
      <4> QED BY <2>3, <3>1
    <3> QED BY <3>2, <3>3
  <2>6. ASSUME NEW n \in Nat, n \in T PROVE n + 1 \in T
    <3> SUFFICES ASSUME n + 1 + 1 \in D PROVE flat[n + 1 + 1] = h[n + 1 + 1]
      OBVIOUS
    <3> DEFINE m == n + 1 + 1
    <3>1. m \in D /\ m # 1 /\ m - 1 = n + 1 /\ n + 1 \in D
      BY <2>1
    <3>2. flat[m - 1] = h[m - 1]
      BY <2>6, <3>1
    <3> HIDE DEF m
    <3>3. flat[m] = Cat(flat[m - 1], a[m])
      BY <2>4, <3>1
    <3>4. h[m] = Cat(h[m - 1], a[m])
      BY <3>1 DEF Sums
    <3>5. flat[m] = h[m]
      BY <3>2, <3>3, <3>4
    <3> QED BY <3>5 DEF m
  <2> HIDE DEF T
  <2>7. Len(a) - 1 \in T
    <3>1. Nat \subseteq T
      BY <2>5, <2>6, CountUp
    <3> QED BY <2>1, <3>1
  <2>8. flat[Len(a)] = h[Len(a)]
    BY <2>1, <2>7 DEF T
  <2>9. Qoder!FlattenSeq(a) = flat[Len(a)]
    BY <2>1, FlatIs DEF flat
  <2> QED BY <2>1, <2>2, <2>8, <2>9
<1> QED BY <1>1, <1>2

LEMMA FlatTyped ==
  ASSUME NEW a \in Seq(Str) PROVE Qoder!FlattenSeq(a) \in Str
BY SumsExist, Flattened

LEMMA FlatJoined ==
  ASSUME NEW a \in Seq(Str), NEW b \in Seq(Str)
  PROVE  Qoder!FlattenSeq(a \o b) = Cat(Qoder!FlattenSeq(a), Qoder!FlattenSeq(b))
<1> DEFINE c == a \o b
           m == Len(a)
<1>1. PICK h : Sums(h, a)
  BY SumsExist
<1>2. PICK g : Sums(g, b)
  BY SumsExist
<1>3. /\ \A n \in 0 .. m : h[n] \in Str
      /\ \A n \in 0 .. Len(b) : g[n] \in Str
  BY <1>1, <1>2, SumsTyped
<1>4. /\ c \in Seq(Str) /\ Len(c) = m + Len(b) /\ m \in Nat /\ Len(b) \in Nat
      /\ \A n \in 1 .. m : c[n] = a[n]
      /\ \A n \in 1 .. Len(b) : c[m + n] = b[n]
  OBVIOUS
<1> DEFINE k == [n \in 0 .. Len(c) |-> IF n <= m THEN h[n] ELSE Cat(h[m], g[n - m])]
<1>5. \A n \in 0 .. Len(c) : k[n] = IF n <= m THEN h[n] ELSE Cat(h[m], g[n - m])
  OBVIOUS
<1> HIDE DEF c, m, k
<1>6. Sums(k, c)
  <2>1. k[0] = <<>>
    BY <1>1, <1>4, <1>5 DEF Sums
  <2>2. ASSUME NEW n \in 1 .. Len(c) PROVE k[n] = Cat(k[n - 1], c[n])
    <3>1. CASE n <= m
      <4>1. n \in 1 .. m /\ n - 1 \in 0 .. Len(c) /\ n \in 0 .. Len(c) /\ n - 1 <= m
        BY <1>4, <3>1
      <4>2. h[n] = Cat(h[n - 1], a[n])
        BY <1>1, <4>1 DEF Sums, m
      <4> QED BY <1>4, <1>5, <3>1, <4>1, <4>2
    <3>2. CASE n > m
      <4> DEFINE j == n - m
      <4>1. j \in 1 .. Len(b) /\ j - 1 \in 0 .. Len(b) /\ n - 1 - m = j - 1 /\ m + j = n /\ m \in 0 .. m
            /\ n \in 0 .. Len(c) /\ n - 1 \in 0 .. Len(c) /\ ~(n <= m) /\ m \in 0 .. Len(c)
        BY <1>4, <3>2
      <4>2. k[n] = Cat(h[m], g[j])
        BY <1>5, <4>1
      <4>3. k[n - 1] = Cat(h[m], g[j - 1])
        <5>1. CASE n - 1 = m
          <6>1. j - 1 = 0 /\ g[0] = <<>> /\ k[m] = h[m]
            BY <1>2, <1>5, <4>1, <5>1 DEF Sums
          <6>2. Cat(h[m], <<>>) = h[m]
            BY <1>3, <4>1, CatTyped
          <6> QED BY <5>1, <6>1, <6>2
        <5>2. CASE n - 1 # m
          <6>1. ~(n - 1 <= m)
            BY <1>4, <3>2, <5>2
          <6> QED BY <1>5, <4>1, <6>1
        <5> QED BY <5>1, <5>2
      <4>4. c[n] = b[j] /\ b[j] \in Str
        BY <1>4, <4>1
      <4> HIDE DEF j
      <4>5. g[j] = Cat(g[j - 1], b[j])
        BY <1>2, <4>1 DEF Sums
      <4>6. Cat(h[m], Cat(g[j - 1], b[j])) = Cat(Cat(h[m], g[j - 1]), b[j])
        BY <1>3, <4>1, <4>4, CatTyped
      <4> QED BY <4>2, <4>3, <4>4, <4>5, <4>6
    <3> QED BY <1>4, <3>1, <3>2
  <2> QED BY <2>1, <2>2 DEF Sums
<1>7. k[Len(c)] = Cat(h[m], g[Len(b)])
  <2>1. CASE Len(b) = 0
    <3>1. Len(c) = m /\ k[m] = h[m] /\ g[Len(b)] = <<>> /\ h[m] \in Str
      BY <1>2, <1>3, <1>4, <1>5, <2>1 DEF Sums
    <3> QED BY <3>1, CatTyped
  <2>2. CASE Len(b) # 0
    <3>1. Len(c) \in 0 .. Len(c) /\ ~(Len(c) <= m) /\ Len(c) - m = Len(b)
      BY <1>4, <2>2
    <3> QED BY <1>5, <3>1
  <2> QED BY <2>1, <2>2
<1> QED BY <1>1, <1>2, <1>4, <1>6, <1>7, Flattened DEF c, m

LEMMA FlatGrown ==
  ASSUME NEW a \in Seq(Str), NEW b \in Seq(Str), Len(b) = Len(a), NEW p \in 1 .. Len(a), NEW t \in Str,
         b[p] = Cat(a[p], t), \A n \in 1 .. Len(a) : n # p => b[n] = a[n],
         \A n \in p + 1 .. Len(a) : a[n] = <<>>
  PROVE  Qoder!FlattenSeq(b) = Cat(Qoder!FlattenSeq(a), t)
<1>1. PICK h : Sums(h, a)
  BY SumsExist
<1>2. /\ \A n \in 0 .. Len(a) : h[n] \in Str
      /\ \A n \in 1 .. Len(a) : a[n] \in Str
  BY <1>1, SumsTyped
<1> DEFINE k == [n \in 0 .. Len(a) |-> IF n < p THEN h[n] ELSE Cat(h[n], t)]
<1>3. \A n \in 0 .. Len(a) : k[n] = IF n < p THEN h[n] ELSE Cat(h[n], t)
  OBVIOUS
<1> HIDE DEF k
<1>4. Len(a) \in Nat /\ p \in Int /\ p >= 1 /\ p <= Len(a)
  OBVIOUS
<1>5. Sums(k, b)
  <2>1. k[0] = <<>>
    BY <1>1, <1>3, <1>4 DEF Sums
  <2>2. ASSUME NEW n \in 1 .. Len(a) PROVE k[n] = Cat(k[n - 1], b[n])
    <3>1. n \in 0 .. Len(a) /\ n - 1 \in 0 .. Len(a) /\ h[n] = Cat(h[n - 1], a[n])
      BY <1>1 DEF Sums
    <3>2. CASE n < p
      <4>1. n - 1 < p /\ n # p
        BY <3>2
      <4> QED BY <1>3, <3>1, <3>2, <4>1
    <3>3. CASE n = p
      <4>1. ~(n < p) /\ n - 1 < p
        BY <3>3
      <4>2. k[n] = Cat(Cat(h[n - 1], a[n]), t) /\ k[n - 1] = h[n - 1]
        BY <1>3, <3>1, <4>1
      <4>3. b[n] = Cat(a[n], t) /\ h[n - 1] \in Str /\ a[n] \in Str
        BY <1>2, <3>1, <3>3
      <4> DEFINE y == h[n - 1]
                 z == a[n]
      <4>4. y \in Str /\ z \in Str /\ k[n] = Cat(Cat(y, z), t) /\ k[n - 1] = y /\ b[n] = Cat(z, t)
        BY <4>2, <4>3
      <4> HIDE DEF y, z
      <4> QED BY <4>4, CatTyped
    <3>4. CASE n > p
      <4>1. ~(n < p) /\ ~(n - 1 < p) /\ n # p /\ n \in p + 1 .. Len(a)
        BY <3>4
      <4>2. k[n] = Cat(Cat(h[n - 1], <<>>), t) /\ k[n - 1] = Cat(h[n - 1], t) /\ b[n] = <<>>
        BY <1>3, <3>1, <4>1
      <4> QED BY <1>2, <3>1, <4>2, CatTyped
    <3> QED BY <1>4, <3>2, <3>3, <3>4
  <2> QED BY <2>1, <2>2 DEF Sums
<1>6. k[Len(a)] = Cat(h[Len(a)], t)
  <2>1. Len(a) \in 0 .. Len(a) /\ ~(Len(a) < p)
    BY <1>4
  <2> QED BY <1>3, <2>1
<1> QED BY <1>1, <1>5, <1>6, Flattened

LEMMA FlatPut ==
  ASSUME NEW a \in Seq(Str), NEW b \in Seq(Str), Len(b) = Len(a) + 1, NEW p \in 1 .. Len(a) + 1,
         NEW x \in Str, b[p] = x, \A n \in 1 .. p - 1 : b[n] = a[n],
         \A n \in p + 1 .. Len(a) + 1 : b[n] = a[n - 1],
         x = <<>> \/ \A n \in p .. Len(a) : a[n] = <<>>
  PROVE  Qoder!FlattenSeq(b) = Cat(Qoder!FlattenSeq(a), x)
<1>1. PICK h : Sums(h, a)
  BY SumsExist
<1>2. /\ \A n \in 0 .. Len(a) : h[n] \in Str
      /\ \A n \in 1 .. Len(a) : a[n] \in Str
  BY <1>1, SumsTyped
<1> DEFINE l == Len(a) + 1
           k == [n \in 0 .. l |-> IF n < p THEN h[n] ELSE Cat(h[n - 1], x)]
<1>3. \A n \in 0 .. l : k[n] = IF n < p THEN h[n] ELSE Cat(h[n - 1], x)
  OBVIOUS
<1> HIDE DEF k
<1>4. Len(a) \in Nat /\ p \in Int /\ p >= 1 /\ p <= l /\ l = Len(a) + 1 /\ l \in Nat /\ Len(b) = l
  OBVIOUS
<1>5. /\ \A n \in p + 1 .. l : b[n] = a[n - 1]
      /\ \A n \in 1 .. p - 1 : b[n] = a[n]
  OBVIOUS
<1> HIDE DEF l
<1>6. Sums(k, b)
  <2>1. k[0] = <<>>
    BY <1>1, <1>3, <1>4 DEF Sums
  <2>2. ASSUME NEW n \in 1 .. l PROVE k[n] = Cat(k[n - 1], b[n])
    <3>1. n \in 0 .. l /\ n - 1 \in 0 .. l /\ n - 1 \in 0 .. Len(a)
      BY <1>4
    <3>2. CASE n < p
      <4>1. n - 1 < p /\ n \in 1 .. Len(a) /\ n \in 1 .. p - 1
        BY <1>4, <3>2
      <4>2. h[n] = Cat(h[n - 1], a[n])
        BY <1>1, <4>1 DEF Sums
      <4> QED BY <1>3, <1>5, <3>1, <3>2, <4>1, <4>2
    <3>3. CASE n = p
      <4>1. ~(n < p) /\ n - 1 < p
        BY <3>3
      <4> QED BY <1>3, <3>1, <3>3, <4>1
    <3>4. CASE n > p
      <4> DEFINE m == n - 1
      <4>1. /\ ~(n < p) /\ ~(m < p) /\ n \in p + 1 .. l /\ m \in p .. Len(a) /\ m \in 1 .. Len(a)
            /\ m - 1 \in 0 .. Len(a) /\ m \in 0 .. l /\ m \in 0 .. Len(a)
        BY <1>4, <3>4
      <4>2. k[n] = Cat(h[m], x) /\ k[m] = Cat(h[m - 1], x) /\ b[n] = a[m]
        BY <1>3, <1>5, <3>1, <4>1
      <4> HIDE DEF m
      <4>3. h[m] = Cat(h[m - 1], a[m])
        BY <1>1, <4>1 DEF Sums
      <4>4. h[m - 1] \in Str /\ a[m] \in Str /\ (x = <<>> \/ a[m] = <<>>)
        BY <1>2, <4>1
      <4>5. k[n] = Cat(k[m], b[n])
        <5> DEFINE y == h[m - 1]
                   z == a[m]
        <5>0. y \in Str /\ z \in Str /\ (x = <<>> \/ z = <<>>)
              /\ k[n] = Cat(Cat(y, z), x) /\ k[m] = Cat(y, x) /\ b[n] = z
          BY <4>2, <4>3, <4>4
        <5> HIDE DEF y, z
        <5>1. CASE x = <<>>
          BY <5>0, <5>1, CatTyped
        <5>2. CASE z = <<>>
          BY <5>0, <5>2, CatTyped
        <5> QED BY <5>0, <5>1, <5>2
      <4> QED BY <4>5 DEF m
    <3> QED BY <1>4, <3>2, <3>3, <3>4
  <2> QED BY <1>4, <2>1, <2>2 DEF Sums
<1>7. k[l] = Cat(h[Len(a)], x)
  <2>1. l \in 0 .. l /\ ~(l < p) /\ l - 1 = Len(a)
    BY <1>4
  <2> QED BY <1>3, <2>1
<1> QED BY <1>1, <1>4, <1>6, <1>7, Flattened

(* Words of a text, without its line breaks.                                  *)
Word(c) == IF c = "n" THEN <<>> ELSE <<c>>
WordParts(t) == [n \in DOMAIN t |-> Word(t[n])]
LEMMA WordsAre == ASSUME NEW t PROVE Qoder!Words(t) = Qoder!FlattenSeq(WordParts(t))
BY DEF Qoder!Words, WordParts, Word

LEMMA WordTyped == \A c \in Char : Word(c) \in Str
BY DEF Word, Str

LEMMA WordPartsTyped ==
  ASSUME NEW t \in Str
  PROVE  /\ WordParts(t) \in Seq(Str) /\ Len(WordParts(t)) = Len(t)
         /\ \A n \in 1 .. Len(t) : WordParts(t)[n] = Word(t[n])
<1>1. t \in Seq(Char) /\ DOMAIN t = 1 .. Len(t) /\ Len(t) \in Nat
  BY DEF Str
<1>2. \A n \in 1 .. Len(t) : t[n] \in Char
  BY <1>1
<1>3. WordParts(t) = [n \in 1 .. Len(t) |-> Word(t[n])]
  BY <1>1 DEF WordParts
<1>4. \A n \in 1 .. Len(t) : Word(t[n]) \in Str
  BY <1>2, WordTyped
<1>5. WordParts(t) \in [1 .. Len(t) -> Str]
  <2> HIDE DEF Word, Str
  <2> QED BY <1>3, <1>4
<1>6. \A n \in Nat : \A f \in [1 .. n -> Str] : f \in Seq(Str) /\ Len(f) = n
  OBVIOUS
<1> QED BY <1>1, <1>3, <1>5, <1>6

LEMMA WordsTyped == \A t \in Str : Qoder!Words(t) \in Str
BY WordsAre, WordPartsTyped, FlatTyped

LEMMA WordsJoined ==
  ASSUME NEW t \in Str, NEW u \in Str
  PROVE  Qoder!Words(Cat(t, u)) = Cat(Qoder!Words(t), Qoder!Words(u))
<1> DEFINE a == WordParts(t)
           b == WordParts(u)
           v == Cat(t, u)
           c == WordParts(v)
<1>1. v \in Str /\ Len(v) = Len(t) + Len(u) /\ Len(t) \in Nat /\ Len(u) \in Nat
      /\ \A n \in 1 .. Len(t) : v[n] = t[n]
  BY DEF Cat, Str
<1>0. \A j \in 1 .. Len(u) : v[Len(t) + j] = u[j]
  BY DEF Cat, Str
<1> HIDE DEF v
<1>2. /\ a \in Seq(Str) /\ Len(a) = Len(t) /\ \A n \in 1 .. Len(t) : a[n] = Word(t[n])
      /\ b \in Seq(Str) /\ Len(b) = Len(u) /\ \A n \in 1 .. Len(u) : b[n] = Word(u[n])
      /\ c \in Seq(Str) /\ Len(c) = Len(t) + Len(u)
      /\ \A n \in 1 .. Len(t) + Len(u) : c[n] = Word(v[n])
  BY <1>1, WordPartsTyped
<1> HIDE DEF a, b, c
<1>3. c = a \o b
  <2>1. /\ a \o b \in Seq(Str) /\ Len(a \o b) = Len(a) + Len(b)
        /\ \A n \in 1 .. Len(a) : (a \o b)[n] = a[n]
        /\ \A n \in 1 .. Len(b) : (a \o b)[Len(a) + n] = b[n]
    <3>1. \A x, y \in Seq(Str) :
            /\ x \o y \in Seq(Str) /\ Len(x \o y) = Len(x) + Len(y)
            /\ \A n \in 1 .. Len(x) : (x \o y)[n] = x[n]
            /\ \A n \in 1 .. Len(y) : (x \o y)[Len(x) + n] = y[n]
      OBVIOUS
    <3>2. a \in Seq(Str) /\ b \in Seq(Str)
      BY <1>2
    <3> QED BY <3>1, <3>2
  <2> DEFINE d == a \o b
  <2>2. d \in Seq(Str) /\ Len(d) = Len(t) + Len(u)
        /\ (\A n \in 1 .. Len(t) : d[n] = a[n]) /\ \A n \in 1 .. Len(u) : d[Len(t) + n] = b[n]
    BY <1>2, <2>1
  <2> HIDE DEF d
  <2>3. \A n \in 1 .. Len(t) + Len(u) : c[n] = d[n]
    <3> SUFFICES ASSUME NEW n \in 1 .. Len(t) + Len(u) PROVE c[n] = d[n]
      OBVIOUS
    <3>1. CASE n <= Len(t)
      <4>1. n \in 1 .. Len(t)
        BY <3>1
      <4> QED BY <1>1, <1>2, <2>2, <4>1
    <3>2. CASE ~(n <= Len(t))
      <4> DEFINE m == n - Len(t)
      <4>1. m \in 1 .. Len(u) /\ Len(t) + m = n
        BY <1>1, <3>2
      <4> HIDE DEF m
      <4>2. d[Len(t) + m] = b[m] /\ b[m] = Word(u[m])
        BY <1>2, <2>2, <4>1
      <4>3. v[Len(t) + m] = u[m] /\ c[n] = Word(v[n])
        <5>1. v[Len(t) + m] = u[m]
          <6>1. m \in 1 .. Len(u) /\ \A j \in 1 .. Len(u) : v[Len(t) + j] = u[j]
            BY <1>0, <4>1, Zenon
          <6> QED BY <6>1
        <5>2. c[n] = Word(v[n])
          BY <1>2
        <5> QED BY <5>1, <5>2
      <4> QED BY <4>1, <4>2, <4>3
    <3> QED BY <3>1, <3>2
  <2>4. c = d
    <3>1. \A x, y \in Seq(Str) : Len(x) = Len(y) /\ (\A n \in 1 .. Len(x) : x[n] = y[n]) => x = y
      OBVIOUS
    <3> QED BY <1>2, <2>2, <2>3, <3>1
  <2> QED BY <2>4 DEF d
<1>4. Qoder!FlattenSeq(c) = Cat(Qoder!FlattenSeq(a), Qoder!FlattenSeq(b))
  BY <1>2, <1>3, FlatJoined
<1> QED BY <1>4, WordsAre DEF a, b, c, v

LEMMA WordsOfNone == Qoder!Words(<<>>) = <<>> /\ Qoder!Words(<<"n">>) = <<>>
<1>1. <<>> \in Str /\ <<"n">> \in Str /\ Len(<<>>) = 0 /\ Len(<<"n">>) = 1
  BY DEF Str, Char
<1>2. WordParts(<<>>) \in Seq(Str) /\ Len(WordParts(<<>>)) = 0
  BY <1>1, WordPartsTyped
<1>3. Qoder!Words(<<>>) = <<>>
  <2>1. WordParts(<<>>) = <<>>
    BY <1>2
  <2> QED BY <1>2, <2>1, WordsAre, FlatEmpty
<1> DEFINE u == <<"n">>
           a == WordParts(u)
<1>4. a \in Seq(Str) /\ Len(a) = 1 /\ a[1] = Word("n")
  <2>1. u \in Str /\ Len(u) = 1 /\ u[1] = "n" /\ 1 \in 1 .. 1
    BY <1>1
  <2> HIDE DEF u
  <2> QED BY <2>1, WordPartsTyped
<1>5. a[1] = <<>>
  BY <1>4 DEF Word
<1> HIDE DEF a
<1> DEFINE h == [n \in 0 .. 1 |-> <<>>]
<1>6. \A n \in 0 .. 1 : h[n] = <<>>
  OBVIOUS
<1> HIDE DEF h
<1>7. Sums(h, a)
  <2>1. h[1] = Cat(h[0], a[1]) /\ h[0] = <<>>
    BY <1>5, <1>6, CatTyped
  <2>2. \A n \in 1 .. 1 : n = 1 /\ n - 1 = 0
    OBVIOUS
  <2> QED BY <1>4, <2>1, <2>2 DEF Sums
<1>8. Qoder!FlattenSeq(a) = h[1]
  BY <1>4, <1>7, Flattened
<1> QED BY <1>3, <1>6, <1>8, WordsAre DEF a
----------------------------------------------------------------------------
(* What Pi was told of a kind of blocks.                                      *)
Part(b, k) == IF b.kind = k THEN b.body ELSE <<>>
Parts(s, k) == [n \in 1 .. Len(s.content) |-> Part(s.content[n], k)]
Told(s, k) == Qoder!FlattenSeq(Parts(s, k))

LEMMA PartTyped == \A b \in BlockRecord : \A k : Part(b, k) \in Str
BY CatTyped DEF BlockRecord, Part, Str

LEMMA PartsTyped ==
  ASSUME NEW s \in StreamRecord, NEW k
  PROVE  /\ Parts(s, k) \in Seq(Str) /\ Len(Parts(s, k)) = Len(s.content) /\ Len(s.content) \in Nat
         /\ \A n \in 1 .. Len(s.content) : Parts(s, k)[n] = Part(s.content[n], k)
<1>1. s.content \in Seq(BlockRecord)
  BY DEF StreamRecord
<1> DEFINE l == Len(s.content)
<1>2. l \in Nat /\ \A n \in 1 .. l : s.content[n] \in BlockRecord
  BY <1>1
<1> HIDE DEF l
<1>3. \A n \in 1 .. l : Part(s.content[n], k) \in Str
  BY <1>2, PartTyped
<1> DEFINE v(n) == Part(s.content[n], k)
           a == [n \in 1 .. l |-> v(n)]
<1>4. \A n \in 1 .. l : v(n) \in Str
  BY <1>3
<1> HIDE DEF v
<1>5. a \in [1 .. l -> Str] /\ \A n \in 1 .. l : a[n] = v(n)
  BY <1>4
<1> HIDE DEF a
<1>6. \A m \in Nat : \A f \in [1 .. m -> Str] : f \in Seq(Str) /\ Len(f) = m
  OBVIOUS
<1>7. a \in Seq(Str) /\ Len(a) = l
  BY <1>2, <1>5, <1>6
<1>8. Parts(s, k) = a
  BY DEF Parts, a, v, l
<1> QED BY <1>2, <1>5, <1>7, <1>8 DEF v, l

LEMMA SameSeq ==
  ASSUME NEW a \in Seq(Str), NEW b \in Seq(Str), Len(a) = Len(b),
         \A n \in 1 .. Len(a) : a[n] = b[n]
  PROVE  a = b
OBVIOUS

LEMMA ToldTyped == ASSUME NEW s \in StreamRecord, NEW k PROVE Told(s, k) \in Str
BY PartsTyped, FlatTyped DEF Told

(* Neither kinds nor bodies have changed.                                     *)
LEMMA ToldSame ==
  ASSUME NEW s \in StreamRecord, NEW r \in StreamRecord, Len(r.content) = Len(s.content),
         \A n \in 1 .. Len(s.content) :
           r.content[n].kind = s.content[n].kind /\ r.content[n].body = s.content[n].body,
         NEW k
  PROVE  Told(r, k) = Told(s, k)
<1> DEFINE a == Parts(s, k)
           b == Parts(r, k)
<1>1. /\ a \in Seq(Str) /\ Len(a) = Len(s.content)
      /\ \A n \in 1 .. Len(s.content) : a[n] = Part(s.content[n], k)
      /\ b \in Seq(Str) /\ Len(b) = Len(s.content)
      /\ \A n \in 1 .. Len(s.content) : b[n] = Part(r.content[n], k)
  BY PartsTyped
<1>2. \A n \in 1 .. Len(s.content) : Part(r.content[n], k) = Part(s.content[n], k)
  BY DEF Part
<1> HIDE DEF a, b
<1>3. b = a
  BY <1>1, <1>2, SameSeq
<1> QED BY <1>3 DEF Told, a, b

(* An empty block was put in between.                                         *)
LEMMA ToldPut ==
  ASSUME NEW s \in StreamRecord, NEW r \in StreamRecord, NEW p \in 1 .. Len(s.content) + 1,
         Len(r.content) = Len(s.content) + 1, r.content[p].body = <<>>,
         \A n \in 1 .. p - 1 : r.content[n] = s.content[n],
         \A n \in p + 1 .. Len(s.content) + 1 : r.content[n] = s.content[n - 1],
         NEW k
  PROVE  Told(r, k) = Told(s, k)
<1> DEFINE a == Parts(s, k)
           b == Parts(r, k)
           l == Len(s.content)
<1>1. /\ a \in Seq(Str) /\ Len(a) = l /\ l \in Nat
      /\ \A n \in 1 .. l : a[n] = Part(s.content[n], k)
      /\ b \in Seq(Str) /\ Len(b) = l + 1
      /\ \A n \in 1 .. l + 1 : b[n] = Part(r.content[n], k)
  BY PartsTyped
<1> HIDE DEF a, b
<1>2. b[p] = <<>>
  BY <1>1 DEF Part
<1>3. \A n \in 1 .. p - 1 : b[n] = a[n]
  <2> TAKE n \in 1 .. p - 1
  <2>1. n \in 1 .. l /\ n \in 1 .. l + 1
    BY <1>1
  <2> QED BY <1>1, <2>1
<1>4. \A n \in p + 1 .. l + 1 : b[n] = a[n - 1]
  <2> TAKE n \in p + 1 .. l + 1
  <2>1. n - 1 \in 1 .. l /\ n \in 1 .. l + 1
    BY <1>1
  <2>2. r.content[n] = s.content[n - 1]
    OBVIOUS
  <2>3. b[n] = Part(r.content[n], k) /\ a[n - 1] = Part(s.content[n - 1], k)
    BY <1>1, <2>1
  <2> QED BY <2>2, <2>3
<1>5. p \in 1 .. Len(a) + 1 /\ Len(b) = Len(a) + 1
  BY <1>1
<1>6. \A n \in p + 1 .. Len(a) + 1 : b[n] = a[n - 1]
  BY <1>1, <1>4
<1>7. Qoder!FlattenSeq(b) = Cat(Qoder!FlattenSeq(a), <<>>)
  BY <1>1, <1>2, <1>3, <1>5, <1>6, FlatPut, CatTyped
<1>8. Qoder!FlattenSeq(a) \in Str
  BY <1>1, FlatTyped
<1> QED BY <1>7, <1>8, CatTyped DEF Told, a, b

(* A block grew that is the last of its kind.                                 *)
LEMMA ToldGrown ==
  ASSUME NEW s \in StreamRecord, NEW place \in 1 .. Len(s.content), NEW t \in Str,
         NEW r, r = Qoder!Grown(s, place, t),
         \A n \in 1 .. Len(s.content) : n > place => s.content[n].kind # s.content[place].kind,
         NEW k
  PROVE  Told(r, k) = IF k = s.content[place].kind THEN Cat(Told(s, k), t) ELSE Told(s, k)
<1> DEFINE a == Parts(s, k)
           b == Parts(r, k)
           l == Len(s.content)
<1>1. /\ r \in StreamRecord /\ Len(r.content) = l
      /\ \A n \in 1 .. l : n # place => r.content[n] = s.content[n]
      /\ r.content[place].kind = s.content[place].kind
      /\ r.content[place].body = Cat(s.content[place].body, t)
  <2>1. t \in Seq(Char)
    BY DEF Str
  <2>2. /\ r \in StreamRecord /\ SameBut(r, s, place)
        /\ r.content[place].body = s.content[place].body \o t
    BY <2>1, GrownState
  <2>3. r.content[place].body = Cat(s.content[place].body, t)
    BY <2>2 DEF Cat
  <2> QED BY <2>2, <2>3 DEF SameBut
<1>2. /\ a \in Seq(Str) /\ Len(a) = l /\ l \in Nat
      /\ \A n \in 1 .. l : a[n] = Part(s.content[n], k)
      /\ b \in Seq(Str) /\ Len(b) = l
      /\ \A n \in 1 .. l : b[n] = Part(r.content[n], k)
  BY <1>1, PartsTyped
<1> HIDE DEF a, b
<1>3. \A n \in 1 .. l : n # place => b[n] = a[n]
  BY <1>1, <1>2
<1>4. CASE k = s.content[place].kind
  <2>1. b[place] = Cat(a[place], t)
    BY <1>1, <1>2, <1>4 DEF Part
  <2>2. \A n \in place + 1 .. l : a[n] = <<>>
    <3> TAKE n \in place + 1 .. l
    <3>1. n \in 1 .. l /\ n > place
      BY <1>2
    <3> QED BY <1>2, <1>4, <3>1 DEF Part
  <2>3. place \in 1 .. Len(a) /\ Len(b) = Len(a)
    BY <1>2
  <2>4. Qoder!FlattenSeq(b) = Cat(Qoder!FlattenSeq(a), t)
    <3>1. (\A n \in 1 .. Len(a) : n # place => b[n] = a[n]) /\ \A n \in place + 1 .. Len(a) : a[n] = <<>>
      BY <1>2, <1>3, <2>2
    <3> HIDE DEF l
    <3> QED BY <1>2, <2>1, <2>3, <3>1, FlatGrown
  <2> QED BY <1>4, <2>4 DEF Told, a, b
<1>5. CASE k # s.content[place].kind
  <2>1. b[place] = a[place]
    BY <1>1, <1>2, <1>5 DEF Part
  <2>2. \A n \in 1 .. l : b[n] = a[n]
    BY <1>3, <2>1
  <2>3. b = a
    BY <1>2, <2>2, SameSeq
  <2> QED BY <1>5, <2>3 DEF Told, a, b
<1> QED BY <1>4, <1>5

(* An open thought is the last one.                                           *)
OpenThoughtInv(s) ==
  s.think # Null => \A n \in 1 .. Len(s.content) : n > s.think => s.content[n].kind # "thinking"
Plainly(s) == Parsing(s) /\ OpenThoughtInv(s)

LEMMA EmitTextTold ==
  ASSUME NEW s, Plainly(s), NEW t \in Str, NEW r, r = Qoder!EmitText(s, t)
  PROVE  /\ Plainly(r) /\ SameSettings(r, s)
         /\ Told(r, "text") = Cat(Told(s, "text"), t) /\ Told(r, "thinking") = Told(s, "thinking")
<1>0. s \in StreamRecord /\ Kept(s) /\ s.parser /\ ~s.native /\ t \in Seq(Char) /\ Told(s, "text") \in Str
  BY ToldTyped DEF Plainly, Parsing, Kept, Str
<1>1. Kept(r) /\ Steady(r, s) /\ SameSettings(r, s) /\ r.think = s.think
  BY <1>0, EmitTextKept
<1>2. Parsing(r) /\ SameSettings(r, s)
  BY <1>0, <1>1 DEF Parsing, Steady
<1>3. CASE t = <<>>
  <2>1. r = s
    BY <1>3 DEF Qoder!EmitText
  <2> QED BY <1>0, <1>2, <1>3, <2>1, CatTyped DEF Plainly
<1>4. CASE t # <<>> /\ s.text # Null
  <2>1. r = Qoder!Grown(s, s.text, t)
    BY <1>4 DEF Qoder!EmitText, Null
  <2>2. s.text \in 1 .. Len(s.content) /\ s.content[s.text].kind = "text"
    BY <1>4 DEF Plainly, Parsing, Kept, MarksInv, Points
  <2>3. \A n \in 1 .. Len(s.content) : n > s.text => s.content[n].kind # "text"
    BY <1>0, <1>4 DEF Kept, OpenTextInv
  <2>4. \A k : Told(r, k) = IF k = "text" THEN Cat(Told(s, k), t) ELSE Told(s, k)
    BY <1>0, <2>1, <2>2, <2>3, ToldGrown
  <2>5. SameBut(r, s, s.text)
    BY <1>0, <2>1, <2>2, GrownState
  <2>6. OpenThoughtInv(r)
    BY <1>1, <2>2, <2>5 DEF SameBut, OpenThoughtInv, Plainly
  <2> QED BY <1>2, <2>4, <2>6 DEF Plainly
<1>5. CASE t # <<>> /\ s.text = Null
  <2> DEFINE h == Qoder!Here(s)
             q == NewText(s)
  <2>1. r = Qoder!Grown(q, h, t)
    BY <1>5 DEF Qoder!EmitText, NewText, Null
  <2>2. q = NewText(s)
    OBVIOUS
  <2> HIDE DEF q
  <2>3. Opened(q, s, "text")
    BY <1>0, <1>5, <2>2, TextOpened
  <2>4. /\ Appends(q, s, "text") /\ q \in StreamRecord /\ h = Len(s.content) + 1
        /\ Len(s.content) \in Nat /\ h \in 1 .. Len(q.content) /\ Len(q.content) = h
        /\ q.content[h].kind = "text" /\ q.content[h].body = <<>>
        /\ \A n \in 1 .. Len(s.content) : q.content[n] = s.content[n]
    BY <2>3 DEF Opened, Appends
  <2> HIDE DEF h
  <2>5. \A k : Told(q, k) = Told(s, k)
    <3>1. h \in 1 .. Len(s.content) + 1 /\ Len(q.content) = Len(s.content) + 1
      BY <2>4
    <3>2. \A n \in 1 .. h - 1 : q.content[n] = s.content[n]
      BY <2>4
    <3>3. \A n \in h + 1 .. Len(s.content) + 1 : q.content[n] = s.content[n - 1]
      BY <2>4
    <3> QED BY <1>0, <2>4, <3>1, <3>2, <3>3, ToldPut
  <2>6. \A n \in 1 .. Len(q.content) : ~(n > h)
    BY <2>4
  <2>7. \A k : Told(r, k) = IF k = "text" THEN Cat(Told(q, k), t) ELSE Told(q, k)
    BY <2>1, <2>4, <2>6, ToldGrown
  <2>8. SameBut(r, q, h)
    BY <1>0, <2>1, <2>4, GrownState
  <2>9. OpenThoughtInv(r)
    <3> SUFFICES ASSUME r.think # Null, NEW n \in 1 .. Len(r.content), n > r.think
                 PROVE  r.content[n].kind # "thinking"
      BY DEF OpenThoughtInv
    <3>1. CASE n = h
      BY <2>4, <2>8, <3>1 DEF SameBut
    <3>2. CASE n # h
      <4>1. n \in 1 .. Len(s.content) /\ r.content[n] = s.content[n]
        BY <2>4, <2>8, <3>2 DEF SameBut
      <4> QED BY <1>1, <4>1 DEF Plainly, OpenThoughtInv
    <3> QED BY <3>1, <3>2
  <2> QED BY <1>2, <2>5, <2>7, <2>9 DEF Plainly
<1> QED BY <1>3, <1>4, <1>5

LEMMA EmitThinkingTold ==
  ASSUME NEW s, Plainly(s), s.inside, NEW t \in Str, NEW r, r = Qoder!EmitThinking(s, t)
  PROVE  /\ Plainly(r) /\ SameSettings(r, s)
         /\ Told(r, "thinking") = Cat(Told(s, "thinking"), t) /\ Told(r, "text") = Told(s, "text")
<1>0. s \in StreamRecord /\ Kept(s) /\ s.parser /\ ~s.native /\ t \in Seq(Char)
      /\ Told(s, "thinking") \in Str
  BY ToldTyped DEF Plainly, Parsing, Kept, Str
<1>1. Kept(r) /\ Steady(r, s) /\ SameSettings(r, s)
  BY <1>0, EmitThinkingKept
<1>2. Parsing(r) /\ SameSettings(r, s)
  BY <1>0, <1>1 DEF Parsing, Steady
<1>3. CASE t = <<>>
  <2>1. r = s
    BY <1>3 DEF Qoder!EmitThinking
  <2> QED BY <1>0, <1>2, <1>3, <2>1, CatTyped DEF Plainly
<1>4. CASE t # <<>> /\ s.think # Null
  <2>1. r = Qoder!Grown(s, s.think, t)
    BY <1>4 DEF Qoder!EmitThinking, Null
  <2>2. s.think \in 1 .. Len(s.content) /\ s.content[s.think].kind = "thinking"
    BY <1>4 DEF Plainly, Parsing, Kept, MarksInv, Points
  <2>3. \A n \in 1 .. Len(s.content) : n > s.think => s.content[n].kind # "thinking"
    BY <1>4 DEF Plainly, OpenThoughtInv
  <2>4. \A k : Told(r, k) = IF k = "thinking" THEN Cat(Told(s, k), t) ELSE Told(s, k)
    BY <1>0, <2>1, <2>2, <2>3, ToldGrown
  <2>5. SameBut(r, s, s.think) /\ SameMarks(r, s)
    BY <1>0, <2>1, <2>2, GrownState
  <2>6. OpenThoughtInv(r)
    BY <1>1, <2>2, <2>3, <2>5 DEF SameBut, SameMarks, OpenThoughtInv, Plainly
  <2> QED BY <1>2, <2>4, <2>6 DEF Plainly
<1>5. CASE t # <<>> /\ s.think = Null /\ s.text = Null
  <2> DEFINE h == Qoder!Here(s)
             q == NewThought(s)
  <2>1. r = Qoder!Grown(q, h, t)
    BY <1>5 DEF Qoder!EmitThinking, NewThought, Null
  <2>2. q = NewThought(s)
    OBVIOUS
  <2> HIDE DEF q
  <2>3. Opened(q, s, "thinking") /\ q.think = h
    BY <1>0, <1>5, <2>2, ThoughtOpened
  <2>4. /\ Appends(q, s, "thinking") /\ q \in StreamRecord /\ h = Len(s.content) + 1
        /\ Len(s.content) \in Nat /\ h \in 1 .. Len(q.content) /\ Len(q.content) = h
        /\ q.content[h].kind = "thinking" /\ q.content[h].body = <<>>
        /\ \A n \in 1 .. Len(s.content) : q.content[n] = s.content[n]
    BY <2>3 DEF Opened, Appends
  <2> HIDE DEF h
  <2>5. \A k : Told(q, k) = Told(s, k)
    <3>1. h \in 1 .. Len(s.content) + 1 /\ Len(q.content) = Len(s.content) + 1
      BY <2>4
    <3>2. \A n \in 1 .. h - 1 : q.content[n] = s.content[n]
      BY <2>4
    <3>3. \A n \in h + 1 .. Len(s.content) + 1 : q.content[n] = s.content[n - 1]
      BY <2>4
    <3> QED BY <1>0, <2>4, <3>1, <3>2, <3>3, ToldPut
  <2>6. \A n \in 1 .. Len(q.content) : ~(n > h)
    BY <2>4
  <2>7. \A k : Told(r, k) = IF k = "thinking" THEN Cat(Told(q, k), t) ELSE Told(q, k)
    BY <2>1, <2>4, <2>6, ToldGrown
  <2>8. SameBut(r, q, h) /\ SameMarks(r, q)
    BY <1>0, <2>1, <2>4, GrownState
  <2>9. OpenThoughtInv(r)
    BY <2>3, <2>4, <2>6, <2>8 DEF SameBut, SameMarks, OpenThoughtInv
  <2> QED BY <1>2, <2>5, <2>7, <2>9 DEF Plainly
<1>6. CASE t # <<>> /\ s.think = Null /\ s.text # Null
  <2> DEFINE b == Qoder!Block("thinking", Null)
             p == s.text
             q == Placed(s, b)
  <2>1. r = Qoder!Grown(q, p, t)
    BY <1>6 DEF Qoder!EmitThinking, Placed, Null
  <2>2. p \in 1 .. Len(s.content) /\ s.content[p].kind = "text"
    BY <1>6 DEF Plainly, Parsing, Kept, MarksInv, Points
  <2>3. b \in BlockRecord /\ b.kind = "thinking" /\ b.body = <<>>
    BY DEF Qoder!Block, BlockRecord, Null
  <2>4. q = Placed(s, b)
    OBVIOUS
  <2> HIDE DEF b, q
  <2>5. /\ q \in StreamRecord /\ q.think = p
        /\ Len(q.content) = Len(s.content) + 1 /\ q.content[p] = b
        /\ \A n \in 1 .. p - 1 : q.content[n] = s.content[n]
        /\ \A n \in p + 1 .. Len(s.content) + 1 : q.content[n] = s.content[n - 1]
    BY <1>0, <2>2, <2>3, <2>4, PlacedState
  <2>6. p \in 1 .. Len(s.content) + 1 /\ p \in 1 .. Len(q.content) /\ Len(s.content) \in Nat
    BY <1>0, <2>2, <2>5, LenOfContent
  <2>7. \A n \in 1 .. Len(s.content) : n >= p => s.content[n].kind # "thinking"
    BY <1>0, <1>6, <2>2 DEF Kept, OpenTextInv
  <2> HIDE DEF p
  <2>8. \A k : Told(q, k) = Told(s, k)
    BY <1>0, <2>3, <2>5, <2>6, ToldPut
  <2>9. \A n \in 1 .. Len(q.content) : n > p => q.content[n].kind # "thinking"
    <3> SUFFICES ASSUME NEW n \in 1 .. Len(q.content), n > p PROVE q.content[n].kind # "thinking"
      OBVIOUS
    <3>1. n \in p + 1 .. Len(s.content) + 1 /\ n - 1 \in 1 .. Len(s.content) /\ n - 1 >= p
      BY <2>5, <2>6
    <3>2. q.content[n] = s.content[n - 1]
      BY <2>5, <3>1
    <3> QED BY <2>7, <3>1, <3>2
  <2>10. q.content[p].kind = "thinking"
    BY <2>3, <2>5
  <2>11. \A k : Told(r, k) = IF k = "thinking" THEN Cat(Told(q, k), t) ELSE Told(q, k)
    BY <2>1, <2>5, <2>6, <2>9, <2>10, ToldGrown
  <2>12. SameBut(r, q, p) /\ SameMarks(r, q)
    BY <1>0, <2>1, <2>5, <2>6, GrownState
  <2>13. OpenThoughtInv(r)
    BY <2>5, <2>6, <2>9, <2>10, <2>12 DEF SameBut, SameMarks, OpenThoughtInv
  <2> QED BY <1>2, <2>8, <2>11, <2>13 DEF Plainly
<1> QED BY <1>3, <1>4, <1>5, <1>6
----------------------------------------------------------------------------
(* The reading of a whole text, from outside a thought or from inside one:    *)
(* every part of its recursion is a shorter text, so that it exists.          *)
Letters == Seq(Qoder!Letter)
Modes == {<<>>} \cup {v.close : v \in Qoder!Variants}
Opening(t) == {v \in Qoder!Variants : Qoder!IsPrefix(v.open, t)}
Reading(f, t, tag) ==
  LET v0 == CHOOSE v \in Opening(t) : TRUE
      rest == f[Tail(t)][tag]
  IN CASE t = <<>> -> [text |-> <<>>, thinking |-> <<>>]
       [] t # <<>> /\ tag = <<>> /\ Opening(t) # {} -> f[Qoder!From(t, Len(v0.open) + 1)][v0.close]
       [] t # <<>> /\ tag # <<>> /\ Qoder!IsPrefix(tag, t) -> f[Qoder!From(t, Len(tag) + 1)][<<>>]
       [] t # <<>> /\ tag = <<>> /\ Opening(t) = {} -> [rest EXCEPT !.text = <<Head(t)>> \o @]
       [] OTHER -> [rest EXCEPT !.thinking = <<Head(t)>> \o @]

LEMMA ScanIs == Qoder!Scan = CHOOSE f : f = [t \in Letters |-> [tag \in Modes |-> Reading(f, t, tag)]]
BY DEF Qoder!Scan, Reading, Letters, Modes, Opening

LEMMA ModesAre ==
  /\ \A tag \in Modes : tag # <<>> => tag \in Str /\ Len(tag) = 3
  /\ <<>> \in Modes /\ \A v \in Qoder!Variants : v.close \in Modes /\ v.open # <<>> /\ v.close # <<>>
  /\ \A v \in Qoder!Variants : v.open \in Str /\ v.close \in Str /\ Len(v.open) = 3 /\ Len(v.close) = 3
<1>1. \A a, b, c \in Char : <<a, b, c>> \in Str /\ Len(<<a, b, c>>) = 3
  BY DEF Str
<1>2. "<" \in Char /\ "t" \in Char /\ "T" \in Char /\ "r" \in Char /\ "R" \in Char /\ ">" \in Char
  BY DEF Char
<1> DEFINE Open1 == <<"<", "t", ">">>
           Open2 == <<"<", "r", ">">>
           Close1 == <<"<", "T", ">">>
           Close2 == <<"<", "R", ">">>
<1>3. \A v \in Qoder!Variants : v.open \in {Open1, Open2} /\ v.close \in {Close1, Close2}
  BY DEF Qoder!Variants
<1>4. \A g \in {Open1, Open2, Close1, Close2} : g \in Str /\ Len(g) = 3
  BY <1>1, <1>2
<1> HIDE DEF Open1, Open2, Close1, Close2
<1>5. \A g \in Str : Len(g) = 3 => g # <<>>
  BY DEF Str
<1> QED BY <1>3, <1>4, <1>5 DEF Modes

LEMMA Shorter ==
  ASSUME NEW t \in Letters, t # <<>>
  PROVE  /\ Len(t) \in Nat \ {0}
         /\ Tail(t) \in Letters /\ Len(Tail(t)) < Len(t)
         /\ Qoder!From(t, 4) \in Letters /\ Len(Qoder!From(t, 4)) < Len(t)
<1>1. Len(t) \in Nat \ {0} /\ Tail(t) \in Letters /\ Len(Tail(t)) < Len(t)
  BY DEF Letters
<1>2. CASE Len(t) < 4
  <2>1. Qoder!From(t, 4) = <<>>
    <3>0. t \in Seq(Qoder!Letter)
      BY DEF Letters
    <3>1. \A k \in Nat : k < 4 => SubSeq(t, 4, k) = <<>>
      BY <3>0
    <3> QED BY <1>1, <1>2, <3>1 DEF Qoder!From
  <2> DEFINE e == <<>>
  <2>2. e \in Letters /\ Len(e) = 0
    BY DEF Letters
  <2>3. Qoder!From(t, 4) = e
    BY <2>1
  <2> HIDE DEF e
  <2>4. Len(e) < Len(t)
    BY <1>1, <2>2
  <2> QED BY <1>1, <2>2, <2>3, <2>4
<1>3. CASE Len(t) >= 4
  BY <1>1, <1>3 DEF Qoder!From, Letters
<1> QED BY <1>1, <1>2, <1>3

(* Two readings agree, or a reading is one, for the texts shorter than n.     *)
Agree(f, g, n) == \A t \in Letters : Len(t) < n => \A tag \in Modes : f[t][tag] = g[t][tag]
Good(f, n) == \A t \in Letters : Len(t) < n => \A tag \in Modes : f[t][tag] = Reading(f, t, tag)

LEMMA ReadingLocal ==
  ASSUME NEW t \in Letters, NEW tag \in Modes, NEW f, NEW g, Agree(f, g, Len(t))
  PROVE  Reading(f, t, tag) = Reading(g, t, tag)
<1>1. CASE t = <<>>
  BY <1>1 DEF Reading
<1>2. CASE t # <<>>
  <2> DEFINE v0 == CHOOSE v \in Opening(t) : TRUE
  <2>1. f[Tail(t)][tag] = g[Tail(t)][tag]
    BY <1>2, Shorter DEF Agree
  <2>2. Opening(t) # {} => f[Qoder!From(t, Len(v0.open) + 1)][v0.close] = g[Qoder!From(t, Len(v0.open) + 1)][v0.close]
    <3> SUFFICES ASSUME Opening(t) # {}
                 PROVE  f[Qoder!From(t, Len(v0.open) + 1)][v0.close] = g[Qoder!From(t, Len(v0.open) + 1)][v0.close]
      OBVIOUS
    <3>1. v0 \in Qoder!Variants
      BY DEF Opening
    <3> HIDE DEF v0
    <3>2. v0.close \in Modes /\ Len(v0.open) + 1 = 4
      <4>1. v0.close \in Modes /\ Len(v0.open) = 3
        BY <3>1, ModesAre
      <4> QED BY <4>1
    <3> QED BY <1>2, <3>2, Shorter DEF Agree
  <2>3. tag # <<>> => f[Qoder!From(t, Len(tag) + 1)][<<>>] = g[Qoder!From(t, Len(tag) + 1)][<<>>]
    <3> SUFFICES ASSUME tag # <<>>
                 PROVE  f[Qoder!From(t, Len(tag) + 1)][<<>>] = g[Qoder!From(t, Len(tag) + 1)][<<>>]
      OBVIOUS
    <3>1. Len(tag) + 1 = 4 /\ <<>> \in Modes
      <4>1. Len(tag) = 3 /\ <<>> \in Modes
        BY ModesAre
      <4> QED BY <4>1
    <3> QED BY <1>2, <3>1, Shorter DEF Agree
  <2> QED BY <1>2, <2>1, <2>2, <2>3 DEF Reading
<1> QED BY <1>1, <1>2

LEMMA LettersLen == \A t \in Letters : Len(t) \in Nat
BY DEF Letters

LEMMA GoodAgree ==
  ASSUME NEW n \in Nat, NEW f, NEW g, Good(f, n), Good(g, n)
  PROVE  Agree(f, g, n)
<1> DEFINE T == {m \in Nat : m <= n => Agree(f, g, m)}
<1>1. 0 \in T
  <2>1. \A t \in Letters : ~(Len(t) < 0)
    BY LettersLen
  <2> QED BY <2>1 DEF Agree
<1>2. ASSUME NEW m \in Nat, m \in T PROVE m + 1 \in T
  <2> SUFFICES ASSUME m + 1 <= n, NEW t \in Letters, Len(t) < m + 1, NEW tag \in Modes
               PROVE  f[t][tag] = g[t][tag]
    BY DEF Agree
  <2>1. Agree(f, g, m) /\ Len(t) \in Nat /\ Len(t) <= m /\ Len(t) < n
    BY <1>2, LettersLen
  <2>2. Agree(f, g, Len(t))
    <3>1. \A u \in Letters : Len(u) < Len(t) => Len(u) < m
      BY <2>1, LettersLen
    <3> QED BY <2>1, <3>1 DEF Agree
  <2>3. Reading(f, t, tag) = Reading(g, t, tag)
    BY <2>2, ReadingLocal
  <2> QED BY <2>1, <2>3 DEF Good
<1> HIDE DEF T
<1>3. n \in T
  BY <1>1, <1>2, CountUp
<1> QED BY <1>3 DEF T

LEMMA GoodExists == \A n \in Nat : \E f : Good(f, n)
<1> DEFINE T == {n \in Nat : \E f : Good(f, n)}
<1>1. 0 \in T
  <2>1. \A t \in Letters : ~(Len(t) < 0)
    BY LettersLen
  <2>2. Good(<<>>, 0)
    BY <2>1 DEF Good
  <2> QED BY <2>2
<1>2. ASSUME NEW n \in Nat, n \in T PROVE n + 1 \in T
  <2>1. PICK f : Good(f, n)
    BY <1>2
  <2> DEFINE v(t, tag) == IF Len(t) < n THEN f[t][tag] ELSE Reading(f, t, tag)
             g == [t \in Letters |-> [tag \in Modes |-> v(t, tag)]]
  <2>2. \A t \in Letters : \A tag \in Modes : g[t][tag] = v(t, tag)
    <3> HIDE DEF v
    <3> QED OBVIOUS
  <2> HIDE DEF g
  <2>3. Agree(f, g, n)
    BY <2>2 DEF Agree
  <2>4. Good(g, n + 1)
    <3> SUFFICES ASSUME NEW t \in Letters, Len(t) < n + 1, NEW tag \in Modes
                 PROVE  g[t][tag] = Reading(g, t, tag)
      BY DEF Good
    <3>1. Len(t) \in Nat /\ Len(t) <= n
      BY LettersLen
    <3>2. Agree(f, g, Len(t))
      <4>1. \A u \in Letters : Len(u) < Len(t) => Len(u) < n
        BY <3>1, LettersLen
      <4> QED BY <2>3, <4>1 DEF Agree
    <3>3. Reading(f, t, tag) = Reading(g, t, tag)
      BY <3>2, ReadingLocal
    <3>4. g[t][tag] = Reading(f, t, tag)
      BY <2>1, <2>2 DEF Good
    <3> QED BY <3>3, <3>4
  <2> QED BY <2>4
<1> HIDE DEF T
<1>3. Nat \subseteq T
  BY <1>1, <1>2, CountUp
<1> QED BY <1>3 DEF T

LEMMA ScanReads ==
  \A t \in Letters : \A tag \in Modes : Qoder!Scan[t][tag] = Reading(Qoder!Scan, t, tag)
<1> DEFINE F(n) == CHOOSE f : Good(f, n)
           v(t, tag) == F(Len(t) + 1)[t][tag]
           w == [t \in Letters |-> [tag \in Modes |-> v(t, tag)]]
           Def(f) == f = [t \in Letters |-> [tag \in Modes |-> Reading(f, t, tag)]]
<1>1. \A n \in Nat : Good(F(n), n)
  BY GoodExists
<1> HIDE DEF F
<1>2. \A t \in Letters : \A tag \in Modes : w[t][tag] = v(t, tag)
  <2> HIDE DEF v
  <2> QED OBVIOUS
<1>3. \A t \in Letters : \A tag \in Modes : v(t, tag) = Reading(w, t, tag)
  <2> TAKE t \in Letters
  <2> TAKE tag \in Modes
  <2> HIDE DEF w
  <2> DEFINE n == Len(t) + 1
  <2>1. n \in Nat /\ Len(t) < n /\ Len(t) \in Nat
    BY LettersLen
  <2> HIDE DEF n
  <2>2. Good(F(n), n)
    BY <1>1, <2>1
  <2>3. Agree(F(n), w, Len(t))
    <3> SUFFICES ASSUME NEW u \in Letters, Len(u) < Len(t), NEW g \in Modes PROVE F(n)[u][g] = w[u][g]
      BY DEF Agree
    <3> DEFINE m == Len(u) + 1
    <3>1. m \in Nat /\ Len(u) < m /\ m < n
      BY <2>1, LettersLen
    <3>2. w[u][g] = F(m)[u][g]
      BY <1>2
    <3> HIDE DEF m
    <3>3. Good(F(m), m)
      BY <1>1, <3>1
    <3>4. Good(F(n), m)
      <4>1. \A x \in Letters : Len(x) < m => Len(x) < n
        BY <2>1, <3>1, LettersLen
      <4> QED BY <2>2, <4>1 DEF Good
    <3>5. Agree(F(n), F(m), m)
      BY <3>1, <3>3, <3>4, GoodAgree
    <3> QED BY <3>1, <3>2, <3>5 DEF Agree
  <2>4. Reading(F(n), t, tag) = Reading(w, t, tag)
    BY <2>3, ReadingLocal
  <2>5. F(n)[t][tag] = Reading(F(n), t, tag)
    BY <2>1, <2>2 DEF Good
  <2> QED BY <2>4, <2>5 DEF n
<1>4. Def(w)
  <2> DEFINE c(t, tag) == Reading(w, t, tag)
  <2>1. w = [t \in Letters |-> [tag \in Modes |-> c(t, tag)]]
    <3>1. \A t \in Letters : \A tag \in Modes : v(t, tag) = c(t, tag)
      BY <1>3
    <3> HIDE DEF v, c
    <3> QED BY <3>1
  <2> QED BY <2>1
<1> DEFINE scan == CHOOSE f : Def(f)
<1>5. Def(scan)
  BY <1>4
<1>6. Qoder!Scan = scan
  BY ScanIs
<1> HIDE DEF scan
<1>7. \A t \in Letters : \A tag \in Modes : scan[t][tag] = Reading(scan, t, tag)
  <2> DEFINE c(t, tag) == Reading(scan, t, tag)
  <2>1. scan = [t \in Letters |-> [tag \in Modes |-> c(t, tag)]]
    BY <1>5
  <2> HIDE DEF c
  <2>2. \A t \in Letters : \A tag \in Modes : scan[t][tag] = c(t, tag)
    BY <2>1
  <2> QED BY <2>2 DEF c
<1> QED BY <1>6, <1>7
----------------------------------------------------------------------------
(* The tag g stands in t at i; the tags that a mode looks for; what a letter  *)
(* that begins no tag adds to the answer.                                     *)
Sits(t, g, i) == i + 2 <= Len(t) /\ t[i] = g[1] /\ t[i + 1] = g[2] /\ t[i + 2] = g[3]
Tags(m) == IF m = <<>> THEN {v.open : v \in Qoder!Variants} ELSE {m}
Answer == [text : Letters, thinking : Letters]
Put(m, x, r) == IF m = <<>> THEN [text |-> Cat(x, r.text), thinking |-> r.thinking]
                            ELSE [text |-> r.text, thinking |-> Cat(x, r.thinking)]

LEMMA LettersAre ==
  /\ Letters \subseteq Str /\ <<>> \in Letters /\ \A c \in Qoder!Letter : <<c>> \in Letters
  /\ \A x, y \in Letters : Cat(x, y) \in Letters
<1>1. Qoder!Letter \subseteq Char
  BY DEF Qoder!Letter, Char
<1> QED BY <1>1 DEF Letters, Str, Cat

LEMMA TagsAre ==
  \A m \in Modes : \A g \in Tags(m) : g \in Letters /\ Len(g) = 3 /\ g[1] = "<"
<1>1. \A a, b, c \in Qoder!Letter : <<a, b, c>> \in Letters /\ Len(<<a, b, c>>) = 3 /\ <<a, b, c>>[1] = a
  BY DEF Letters
<1>2. "<" \in Qoder!Letter /\ "t" \in Qoder!Letter /\ "T" \in Qoder!Letter /\ "r" \in Qoder!Letter
      /\ "R" \in Qoder!Letter /\ ">" \in Qoder!Letter
  BY DEF Qoder!Letter
<1> DEFINE Open1 == <<"<", "t", ">">>
           Open2 == <<"<", "r", ">">>
           Close1 == <<"<", "T", ">">>
           Close2 == <<"<", "R", ">">>
<1>3. \A v \in Qoder!Variants : v.open \in {Open1, Open2} /\ v.close \in {Close1, Close2}
  BY DEF Qoder!Variants
<1>4. \A g \in {Open1, Open2, Close1, Close2} : g \in Letters /\ Len(g) = 3 /\ g[1] = "<"
  BY <1>1, <1>2
<1> HIDE DEF Open1, Open2, Close1, Close2
<1> QED BY <1>3, <1>4 DEF Modes, Tags

LEMMA PrefixIs ==
  ASSUME NEW t \in Str, NEW g \in Str, Len(g) = 3
  PROVE  Qoder!IsPrefix(g, t) <=> Sits(t, g, 1)
<1>0. t \in Seq(Char) /\ g \in Seq(Char) /\ Len(t) \in Nat
  BY DEF Str
<1>1. CASE Len(t) < 3
  BY <1>0, <1>1 DEF Qoder!IsPrefix, Sits
<1>2. CASE Len(t) >= 3
  <2> DEFINE a == SubSeq(t, 1, 3)
             b == SubSeq(g, 1, 3)
  <2>0. \A x \in Seq(Char) : Len(x) >= 3 =>
          /\ SubSeq(x, 1, 3) \in Seq(Char) /\ Len(SubSeq(x, 1, 3)) = 3
          /\ \A i \in 1 .. 3 : SubSeq(x, 1, 3)[i] = x[i]
    OBVIOUS
  <2>1. a \in Seq(Char) /\ Len(a) = 3 /\ a[1] = t[1] /\ a[2] = t[2] /\ a[3] = t[3]
    BY <1>0, <1>2, <2>0
  <2>2. b \in Seq(Char) /\ Len(b) = 3 /\ b[1] = g[1] /\ b[2] = g[2] /\ b[3] = g[3]
    BY <1>0, <2>0
  <2>3. Qoder!IsPrefix(g, t) <=> b = a
    BY <1>0, <1>2 DEF Qoder!IsPrefix
  <2> HIDE DEF a, b
  <2>4. a[1] = b[1] /\ a[2] = b[2] /\ a[3] = b[3] => a = b
    BY <2>1, <2>2
  <2> QED BY <1>2, <2>1, <2>2, <2>3, <2>4 DEF Sits
<1> QED BY <1>0, <1>1, <1>2

LEMMA HeadAndTail ==
  ASSUME NEW c \in Qoder!Letter, NEW u \in Letters, NEW t, t = Cat(<<c>>, u)
  PROVE  /\ t \in Letters /\ t # <<>> /\ Head(t) = c /\ Tail(t) = u /\ Len(t) = Len(u) + 1
         /\ t[1] = c /\ \A i \in 1 .. Len(u) : t[i + 1] = u[i]
<1>1. u \in Seq(Qoder!Letter) /\ t = <<c>> \o u
  BY DEF Letters, Cat
<1>5. t \in Letters
  BY <1>1 DEF Letters
<1>6. Len(t) = Len(u) + 1 /\ t[1] = c
  BY <1>1
<1>2. t \in Letters /\ t # <<>> /\ Head(t) = c /\ Len(t) = Len(u) + 1 /\ t[1] = c
  BY <1>1, <1>5, <1>6 DEF Letters
<1>3. \A i \in 1 .. Len(u) : t[i + 1] = u[i]
  BY <1>1
<1>4. Tail(t) = u
  <2> DEFINE v == Tail(t)
  <2>1. v \in Seq(Qoder!Letter) /\ Len(v) = Len(u) /\ \A i \in 1 .. Len(u) : v[i] = t[i + 1]
    BY <1>2 DEF Letters
  <2> HIDE DEF v
  <2>2. \A i \in 1 .. Len(u) : v[i] = u[i]
    BY <1>3, <2>1
  <2>3. v = u
    BY <1>1, <2>1, <2>2
  <2> QED BY <2>3 DEF v
<1> QED BY <1>2, <1>3, <1>4

LEMMA Split ==
  ASSUME NEW t \in Letters, t # <<>>
  PROVE  \E c \in Qoder!Letter : \E u \in Letters : t = Cat(<<c>>, u) /\ Len(u) < Len(t)
<1>1. t \in Seq(Qoder!Letter) /\ Head(t) \in Qoder!Letter /\ Tail(t) \in Letters /\ Len(Tail(t)) < Len(t)
  BY Shorter DEF Letters
<1>2. t = <<Head(t)>> \o Tail(t)
  BY <1>1
<1> QED BY <1>1, <1>2 DEF Cat

LEMMA ScanEmpty ==
  ASSUME NEW m \in Modes PROVE Qoder!Scan[<<>>][m] = [text |-> <<>>, thinking |-> <<>>]
BY LettersAre, ScanReads DEF Reading

LEMMA OpeningIs ==
  ASSUME NEW t \in Letters PROVE Opening(t) = {v \in Qoder!Variants : Sits(t, v.open, 1)}
<1>1. t \in Str
  BY LettersAre
<1>2. \A v \in Qoder!Variants : v.open \in Str /\ Len(v.open) = 3
  BY ModesAre
<1> QED BY <1>1, <1>2, PrefixIs DEF Opening

LEMMA ScanTyped == \A t \in Letters : \A m \in Modes : Qoder!Scan[t][m] \in Answer
<1> DEFINE T == {n \in Nat : \A t \in Letters : Len(t) < n => \A m \in Modes : Qoder!Scan[t][m] \in Answer}
<1>1. 0 \in T
  BY LettersLen
<1>2. ASSUME NEW n \in Nat, n \in T PROVE n + 1 \in T
  <2> SUFFICES ASSUME NEW t \in Letters, Len(t) < n + 1, NEW m \in Modes
               PROVE  Qoder!Scan[t][m] \in Answer
    OBVIOUS
  <2> DEFINE S == Qoder!Scan
  <2>1. S[t][m] = Reading(S, t, m)
    BY ScanReads
  <2>2. \A u \in Letters : Len(u) < Len(t) => \A k \in Modes : S[u][k] \in Answer
    BY <1>2, LettersLen
  <2> SUFFICES S[t][m] \in Answer
    OBVIOUS
  <2> HIDE DEF S
  <2>3. CASE t = <<>>
    <3>1. S[t][m] = [text |-> <<>>, thinking |-> <<>>]
      BY <2>1, <2>3 DEF Reading
    <3>2. <<>> \in Letters
      BY LettersAre
    <3>3. \A x \in Letters : [text |-> x, thinking |-> x] \in Answer
      BY DEF Answer
    <3> QED BY <3>1, <3>2, <3>3
  <2>4. CASE t # <<>>
    <3> DEFINE v0 == CHOOSE v \in Opening(t) : TRUE
               rest == S[Tail(t)][m]
               r4 == Qoder!From(t, 4)
    <3>0. t \in Seq(Qoder!Letter) /\ Head(t) \in Qoder!Letter
      BY <2>4 DEF Letters
    <3>1. rest \in Answer /\ <<Head(t)>> \in Letters /\ \A k \in Modes : S[r4][k] \in Answer
      <4>1. /\ Tail(t) \in Letters /\ Len(Tail(t)) < Len(t) /\ r4 \in Letters /\ Len(r4) < Len(t)
        BY <2>4, Shorter
      <4> HIDE DEF r4
      <4> QED BY <2>2, <3>0, <4>1, LettersAre
    <3>2. Opening(t) # {} => v0 \in Qoder!Variants
      BY DEF Opening
    <3>3. Opening(t) # {} => v0.close \in Modes /\ Len(v0.open) + 1 = 4
      <4> SUFFICES ASSUME Opening(t) # {} PROVE v0.close \in Modes /\ Len(v0.open) + 1 = 4
        OBVIOUS
      <4> HIDE DEF v0
      <4>1. v0.close \in Modes /\ Len(v0.open) = 3
        BY <3>2, ModesAre
      <4> QED BY <4>1
    <3>4. m # <<>> => Len(m) + 1 = 4
      <4> SUFFICES ASSUME m # <<>> PROVE Len(m) + 1 = 4
        OBVIOUS
      <4>1. Len(m) = 3
        BY ModesAre
      <4> QED BY <4>1
    <3>5. /\ [rest EXCEPT !.text = <<Head(t)>> \o @] \in Answer
          /\ [rest EXCEPT !.thinking = <<Head(t)>> \o @] \in Answer
      <4> DEFINE h == <<Head(t)>>
      <4>1. h \in Letters /\ rest \in Answer
        BY <3>1
      <4> HIDE DEF h, rest
      <4>2. h \o rest.text \in Letters /\ h \o rest.thinking \in Letters
        BY <4>1, LettersAre DEF Answer, Cat
      <4>3. [rest EXCEPT !.text = h \o @] \in Answer /\ [rest EXCEPT !.thinking = h \o @] \in Answer
        BY <4>1, <4>2 DEF Answer
      <4> QED BY <4>3 DEF h
    <3>6. <<>> \in Modes
      BY ModesAre
    <3>7. Opening(t) # {} => S[Qoder!From(t, Len(v0.open) + 1)][v0.close] \in Answer
      <4> HIDE DEF v0
      <4> QED BY <3>1, <3>3
    <3>8. m # <<>> => S[Qoder!From(t, Len(m) + 1)][<<>>] \in Answer
      BY <3>1, <3>4, <3>6
    <3>9. \/ S[t][m] = S[Qoder!From(t, Len(v0.open) + 1)][v0.close] /\ Opening(t) # {}
          \/ S[t][m] = S[Qoder!From(t, Len(m) + 1)][<<>>] /\ m # <<>>
          \/ S[t][m] = [rest EXCEPT !.text = <<Head(t)>> \o @]
          \/ S[t][m] = [rest EXCEPT !.thinking = <<Head(t)>> \o @]
      BY <2>1, <2>4 DEF Reading
    <3> DEFINE e1 == [rest EXCEPT !.text = <<Head(t)>> \o @]
               e2 == [rest EXCEPT !.thinking = <<Head(t)>> \o @]
               e3 == S[Qoder!From(t, Len(v0.open) + 1)][v0.close]
               e4 == S[Qoder!From(t, Len(m) + 1)][<<>>]
    <3>10. e1 \in Answer /\ e2 \in Answer /\ (Opening(t) # {} => e3 \in Answer) /\ (m # <<>> => e4 \in Answer)
      <4>1. e1 \in Answer /\ e2 \in Answer
        BY <3>5, Zenon
      <4>2. Opening(t) # {} => e3 \in Answer
        BY <3>7, Zenon
      <4>3. m # <<>> => e4 \in Answer
        BY <3>8, Zenon
      <4> QED BY <4>1, <4>2, <4>3, Zenon
    <3>11. \/ S[t][m] = e3 /\ Opening(t) # {}
           \/ S[t][m] = e4 /\ m # <<>>
           \/ S[t][m] = e1
           \/ S[t][m] = e2
      BY <3>9, Zenon
    <3> HIDE DEF e1, e2, e3, e4
    <3> QED BY <3>10, <3>11
  <2> QED BY <2>3, <2>4
<1> HIDE DEF T
<1>3. Nat \subseteq T
  BY <1>1, <1>2, CountUp
<1> SUFFICES ASSUME NEW t \in Letters, NEW m \in Modes PROVE Qoder!Scan[t][m] \in Answer
  OBVIOUS
<1>4. Len(t) + 1 \in T /\ Len(t) < Len(t) + 1
  BY <1>3, LettersLen
<1> QED BY <1>4 DEF T

LEMMA ScanPut ==
  ASSUME NEW c \in Qoder!Letter, NEW u \in Letters, NEW m \in Modes, NEW t, t = Cat(<<c>>, u),
         \A g \in Tags(m) : ~Sits(t, g, 1)
  PROVE  Qoder!Scan[t][m] = Put(m, <<c>>, Qoder!Scan[u][m])
<1> DEFINE S == Qoder!Scan
           rest == S[u][m]
           h == <<c>>
<1>1. t \in Letters /\ t # <<>> /\ Head(t) = c /\ Tail(t) = u /\ t \in Str
  BY HeadAndTail, LettersAre
<1>2. S[t][m] = Reading(S, t, m) /\ rest \in Answer
  BY <1>1, ScanReads, ScanTyped
<1>3. m # <<>> => ~Qoder!IsPrefix(m, t)
  BY <1>1, ModesAre, PrefixIs DEF Tags
<1>4. m = <<>> => Opening(t) = {}
  BY <1>1, OpeningIs DEF Tags
<1>5. S[t][m] = IF m = <<>> THEN [rest EXCEPT !.text = h \o @] ELSE [rest EXCEPT !.thinking = h \o @]
  BY <1>1, <1>2, <1>3, <1>4 DEF Reading
<1> HIDE DEF rest, h, S
<1>6. /\ [rest EXCEPT !.text = h \o @] = [text |-> h \o rest.text, thinking |-> rest.thinking]
      /\ [rest EXCEPT !.thinking = h \o @] = [text |-> rest.text, thinking |-> h \o rest.thinking]
  <2>1. \A r \in Answer : \A x : /\ [r EXCEPT !.text = x] = [text |-> x, thinking |-> r.thinking]
                                 /\ [r EXCEPT !.thinking = x] = [text |-> r.text, thinking |-> x]
    BY DEF Answer
  <2> QED BY <1>2, <2>1
<1> QED BY <1>5, <1>6 DEF Put, Cat, S, rest, h

LEMMA VariantsApart ==
  \A v, w \in Qoder!Variants : v.open[2] = w.open[2] => v = w
<1>1. <<"<", "t", ">">>[2] = "t" /\ <<"<", "r", ">">>[2] = "r"
  OBVIOUS
<1> QED BY <1>1 DEF Qoder!Variants

LEMMA AfterTag ==
  ASSUME NEW g \in Letters, Len(g) = 3, NEW u \in Letters, NEW t, t = Cat(g, u)
  PROVE  /\ t \in Letters /\ t # <<>> /\ Len(t) = Len(u) + 3 /\ Sits(t, g, 1) /\ Qoder!From(t, 4) = u
         /\ \A i \in 1 .. Len(u) : t[i + 3] = u[i]
<1>1. u \in Seq(Qoder!Letter) /\ g \in Seq(Qoder!Letter) /\ t = g \o u
  BY DEF Letters, Cat
<1>2. /\ t \in Seq(Qoder!Letter) /\ Len(t) = Len(u) + 3 /\ Len(u) \in Nat
      /\ t[1] = g[1] /\ t[2] = g[2] /\ t[3] = g[3]
  <2>1. \A x, y \in Seq(Qoder!Letter) : /\ x \o y \in Seq(Qoder!Letter) /\ Len(x \o y) = Len(x) + Len(y)
                                       /\ \A i \in 1 .. Len(x) : (x \o y)[i] = x[i]
    OBVIOUS
  <2> DEFINE v == g \o u
  <2>2. v \in Seq(Qoder!Letter) /\ Len(v) = Len(g) + Len(u) /\ \A i \in 1 .. Len(g) : v[i] = g[i]
    <3>1. g \in Seq(Qoder!Letter) /\ u \in Seq(Qoder!Letter)
      BY <1>1
    <3> QED BY <2>1, <3>1, Zenon
  <2>4. t = v
    BY <1>1
  <2> HIDE DEF v
  <2>3. Len(u) \in Nat
    BY <1>1
  <2> QED BY <2>2, <2>3, <2>4
<1>3. \A i \in 1 .. Len(u) : t[3 + i] = u[i]
  <2>1. \A x, y \in Seq(Qoder!Letter) : \A i \in 1 .. Len(y) : (x \o y)[Len(x) + i] = y[i]
    OBVIOUS
  <2> QED BY <1>1, <2>1
<1>4. \A i \in 1 .. Len(u) : t[i + 3] = u[i]
  <2> TAKE i \in 1 .. Len(u)
  <2>1. i + 3 = 3 + i
    OBVIOUS
  <2> QED BY <1>3, <2>1
<1>5. t # <<>>
  BY <1>2
<1>6. Qoder!From(t, 4) = u
  <2>1. CASE Len(u) = 0
    <3>1. \A x \in Seq(Qoder!Letter) : SubSeq(x, 4, 3) = <<>>
      OBVIOUS
    <3>2. Len(t) = 3 /\ u = <<>>
      BY <1>1, <1>2, <2>1
    <3> QED BY <1>2, <3>1, <3>2 DEF Qoder!From
  <2>2. CASE Len(u) # 0
    <3>1. \A x \in Seq(Qoder!Letter) : Len(x) >= 4 =>
            /\ SubSeq(x, 4, Len(x)) \in Seq(Qoder!Letter) /\ Len(SubSeq(x, 4, Len(x))) = Len(x) - 3
            /\ \A i \in 1 .. Len(x) - 3 : SubSeq(x, 4, Len(x))[i] = x[i + 3]
      OBVIOUS
    <3> DEFINE v == Qoder!From(t, 4)
    <3>2. v \in Seq(Qoder!Letter) /\ Len(v) = Len(t) - 3 /\ \A i \in 1 .. Len(t) - 3 : v[i] = t[i + 3]
      <4>1. Len(t) >= 4
        BY <1>2, <2>2
      <4> QED BY <1>2, <3>1, <4>1 DEF Qoder!From
    <3> HIDE DEF v
    <3>3. Len(t) - 3 = Len(u)
      BY <1>2
    <3>4. \A i \in 1 .. Len(u) : v[i] = u[i]
      BY <1>4, <3>2, <3>3
    <3>5. \A x, y \in Seq(Qoder!Letter) : Len(x) = Len(y) /\ (\A i \in 1 .. Len(y) : x[i] = y[i]) => x = y
      OBVIOUS
    <3>6. v = u
      BY <1>1, <3>2, <3>3, <3>4, <3>5
    <3> QED BY <3>6 DEF v
  <2> QED BY <2>1, <2>2
<1> QED BY <1>2, <1>4, <1>5, <1>6 DEF Sits, Letters

LEMMA ScanOpens ==
  ASSUME NEW v \in Qoder!Variants, NEW u \in Letters, NEW t, t = Cat(v.open, u)
  PROVE  Qoder!Scan[t][<<>>] = Qoder!Scan[u][v.close]
<1>1. v.open \in Letters /\ Len(v.open) = 3 /\ <<>> \in Modes
  <2>1. <<>> \in Modes
    BY ModesAre
  <2> QED BY <2>1, TagsAre DEF Tags
<1>2. t \in Letters /\ t # <<>> /\ Sits(t, v.open, 1) /\ Qoder!From(t, 4) = u
  BY <1>1, AfterTag
<1> DEFINE v0 == CHOOSE w \in Opening(t) : TRUE
<1>3. v \in Opening(t)
  BY <1>2, OpeningIs
<1>4. v0 = v
  <2>1. v0 \in Opening(t)
    BY <1>3
  <2> HIDE DEF v0
  <2>2. v0 \in Qoder!Variants /\ Sits(t, v0.open, 1)
    BY <1>2, <2>1, OpeningIs
  <2> QED BY <1>2, <2>2, VariantsApart DEF Sits
<1>5. Qoder!Scan[t][<<>>] = Qoder!Scan[Qoder!From(t, Len(v0.open) + 1)][v0.close]
  BY <1>1, <1>2, <1>3, ScanReads DEF Reading
<1>6. Len(v.open) + 1 = 4
  BY <1>1
<1> HIDE DEF v0
<1> QED BY <1>2, <1>4, <1>5, <1>6

LEMMA ScanCloses ==
  ASSUME NEW m \in Modes, m # <<>>, NEW u \in Letters, NEW t, t = Cat(m, u)
  PROVE  Qoder!Scan[t][m] = Qoder!Scan[u][<<>>]
<1>1. m \in Letters /\ Len(m) = 3
  BY TagsAre DEF Tags
<1>2. t \in Letters /\ t # <<>> /\ Sits(t, m, 1) /\ Qoder!From(t, 4) = u
  BY <1>1, AfterTag
<1>3. Qoder!IsPrefix(m, t)
  BY <1>1, <1>2, LettersAre, PrefixIs
<1>4. Qoder!Scan[t][m] = Qoder!Scan[Qoder!From(t, Len(m) + 1)][<<>>]
  BY <1>2, <1>3, ScanReads DEF Reading
<1>5. Len(m) + 1 = 4
  BY <1>1
<1> QED BY <1>2, <1>4, <1>5

(* No tag begins in the first part.                                           *)
Clear(x, y, m) == \A g \in Tags(m) : \A i \in 1 .. Len(x) : ~Sits(Cat(x, y), g, i)

LEMMA SitsLater ==
  ASSUME NEW c \in Qoder!Letter, NEW u \in Letters, NEW t, t = Cat(<<c>>, u), NEW g,
         NEW i \in Nat, i >= 1, Sits(u, g, i)
  PROVE  Sits(t, g, i + 1)
<1>1. Len(t) = Len(u) + 1 /\ Len(u) \in Nat /\ \A j \in 1 .. Len(u) : t[j + 1] = u[j]
  BY HeadAndTail, LettersLen
<1>2. i \in 1 .. Len(u) /\ i + 1 \in 1 .. Len(u) /\ i + 2 \in 1 .. Len(u) /\ i + 1 + 2 <= Len(t)
      /\ i + 2 + 1 = i + 1 + 2
  BY <1>1 DEF Sits
<1>3. t[i + 1] = u[i] /\ t[i + 1 + 1] = u[i + 1] /\ t[i + 2 + 1] = u[i + 2]
  BY <1>1, <1>2
<1> QED BY <1>2, <1>3 DEF Sits

LEMMA PutPut ==
  ASSUME NEW m \in Modes, NEW x \in Letters, NEW y \in Letters, NEW r \in Answer
  PROVE  /\ Put(m, x, r) \in Answer /\ Put(m, Cat(x, y), r) = Put(m, x, Put(m, y, r))
         /\ Put(m, <<>>, r) = r
<1> DEFINE a == r.text
           b == r.thinking
<1>1. a \in Letters /\ b \in Letters /\ r = [text |-> a, thinking |-> b]
  BY DEF Answer
<1> HIDE DEF a, b
<1>2. /\ Cat(Cat(x, y), a) = Cat(x, Cat(y, a)) /\ Cat(Cat(x, y), b) = Cat(x, Cat(y, b))
      /\ Cat(<<>>, a) = a /\ Cat(<<>>, b) = b
  BY <1>1, CatTyped, LettersAre
<1>3. Cat(x, a) \in Letters /\ Cat(x, b) \in Letters
  BY <1>1, LettersAre
<1>4. /\ r.text = a /\ r.thinking = b
  BY DEF a, b
<1>5. \A k, l \in Letters : [text |-> k, thinking |-> l] \in Answer
  BY DEF Answer
<1>6. Put(m, x, r) \in Answer
  BY <1>1, <1>3, <1>4, <1>5 DEF Put
<1>7. Put(m, Cat(x, y), r) = Put(m, x, Put(m, y, r))
  BY <1>2, <1>4 DEF Put
<1>8. Put(m, <<>>, r) = r
  BY <1>1, <1>2, <1>4 DEF Put
<1> QED BY <1>6, <1>7, <1>8

LEMMA Skip ==
  ASSUME NEW m \in Modes, NEW y \in Letters
  PROVE  \A x \in Letters : Clear(x, y, m) => Qoder!Scan[Cat(x, y)][m] = Put(m, x, Qoder!Scan[y][m])
<1> DEFINE P(x) == Clear(x, y, m) => Qoder!Scan[Cat(x, y)][m] = Put(m, x, Qoder!Scan[y][m])
           T == {n \in Nat : \A x \in Letters : Len(x) < n => P(x)}
<1>0. Qoder!Scan[y][m] \in Answer
  BY ScanTyped
<1>1. 0 \in T
  BY LettersLen
<1>2. ASSUME NEW n \in Nat, n \in T PROVE n + 1 \in T
  <2> SUFFICES ASSUME NEW x \in Letters, Len(x) < n + 1, Clear(x, y, m)
               PROVE  Qoder!Scan[Cat(x, y)][m] = Put(m, x, Qoder!Scan[y][m])
    OBVIOUS
  <2>1. CASE x = <<>>
    <3>1. Cat(<<>>, y) = y
      BY CatTyped, LettersAre
    <3>2. <<>> \in Letters
      BY LettersAre
    <3> QED BY <1>0, <2>1, <3>1, <3>2, PutPut
  <2>2. CASE x # <<>>
    <3>1. PICK c \in Qoder!Letter, z \in Letters : x = Cat(<<c>>, z) /\ Len(z) < Len(x)
      BY <2>2, Split
    <3> DEFINE u == Cat(z, y)
               t == Cat(x, y)
               h == <<c>>
    <3>2. u \in Letters /\ h \in Letters /\ t = Cat(h, u)
      BY <3>1, CatTyped, LettersAre
    <3>3. Len(x) = Len(z) + 1 /\ Len(z) \in Nat
      BY <3>1, HeadAndTail, LettersLen
    <3>4. \A g \in Tags(m) : \A i \in 1 .. Len(x) : ~Sits(t, g, i)
      BY DEF Clear
    <3> HIDE DEF u, t
    <3>5. \A g \in Tags(m) : ~Sits(t, g, 1)
      BY <3>3, <3>4
    <3>6. Qoder!Scan[t][m] = Put(m, h, Qoder!Scan[u][m])
      BY <3>2, <3>5, ScanPut
    <3>7. Clear(z, y, m)
      <4> SUFFICES ASSUME NEW g \in Tags(m), NEW i \in 1 .. Len(z), Sits(u, g, i) PROVE FALSE
        BY DEF Clear, u
      <4>1. i \in Nat /\ i >= 1 /\ i + 1 \in 1 .. Len(x)
        BY <3>3
      <4>2. Sits(t, g, i + 1)
        BY <3>2, <4>1, SitsLater
      <4> QED BY <3>4, <4>1, <4>2
    <3>8. Qoder!Scan[u][m] = Put(m, z, Qoder!Scan[y][m])
      <4>1. Len(z) < n
        BY <3>1, <3>3
      <4> QED BY <1>2, <3>7, <4>1 DEF u
    <3> HIDE DEF h
    <3>9. Put(m, h, Put(m, z, Qoder!Scan[y][m])) = Put(m, Cat(h, z), Qoder!Scan[y][m])
      BY <1>0, <3>2, PutPut
    <3> QED BY <3>1, <3>6, <3>8, <3>9 DEF h, t
  <2> QED BY <2>1, <2>2
<1> HIDE DEF T, P
<1>3. Nat \subseteq T
  BY <1>1, <1>2, CountUp
<1>4. \A x \in Letters : P(x)
  <2> TAKE x \in Letters
  <2>1. Len(x) + 1 \in T /\ Len(x) < Len(x) + 1
    BY <1>3, LettersLen
  <2> QED BY <2>1 DEF T
<1> QED BY <1>4 DEF P
----------------------------------------------------------------------------
(* A text cut in two, and where tags stand in its parts.                      *)
LEMMA SameLetters ==
  ASSUME NEW x \in Letters, NEW y \in Letters, Len(x) = Len(y), \A i \in 1 .. Len(x) : x[i] = y[i]
  PROVE  x = y
BY DEF Letters

Begins(x, t) == \A i \in 1 .. Len(x) : t[i] = x[i]
Shift(y, t, n) == \A i \in 1 .. Len(y) : t[n + i] = y[i]

LEMMA CatLetters ==
  ASSUME NEW x \in Letters, NEW y \in Letters, NEW t, t = Cat(x, y)
  PROVE  /\ t \in Letters /\ Len(t) = Len(x) + Len(y) /\ Len(x) \in Nat /\ Len(y) \in Nat
         /\ Begins(x, t) /\ Shift(y, t, Len(x))
<1>1. \A a, b \in Seq(Qoder!Letter) : a \o b \in Seq(Qoder!Letter) /\ Len(a \o b) = Len(a) + Len(b)
  OBVIOUS
<1>2. \A a, b \in Seq(Qoder!Letter) : Begins(a, a \o b)
  BY DEF Begins
<1>3. \A a, b \in Seq(Qoder!Letter) : Shift(b, a \o b, Len(a))
  BY DEF Shift
<1>4. x \in Seq(Qoder!Letter) /\ y \in Seq(Qoder!Letter) /\ t = x \o y
  BY DEF Letters, Cat
<1> QED BY <1>1, <1>2, <1>3, <1>4, LettersLen DEF Letters

LEMMA CatIs ==
  ASSUME NEW t \in Letters, NEW x \in Letters, NEW y \in Letters, Len(t) = Len(x) + Len(y),
         Begins(x, t), Shift(y, t, Len(x))
  PROVE  t = Cat(x, y)
<1> DEFINE v == Cat(x, y)
           n == Len(x)
<1>1. v \in Letters /\ Len(v) = n + Len(y) /\ Begins(x, v) /\ Shift(y, v, n)
  BY CatLetters
<1> HIDE DEF v
<1>2. n \in Nat /\ Len(y) \in Nat /\ Len(t) = n + Len(y) /\ Shift(y, t, n)
  BY LettersLen
<1>3. \A i \in 1 .. n : t[i] = v[i]
  BY <1>1 DEF Begins
<1> HIDE DEF n
<1>4. ASSUME NEW i \in 1 .. Len(t) PROVE t[i] = v[i]
  <2>1. CASE i <= n
    <3>1. i \in 1 .. n
      BY <1>2, <2>1
    <3> QED BY <1>3, <3>1
  <2>2. CASE i > n
    <3> DEFINE j == i - n
    <3>1. j \in 1 .. Len(y) /\ n + j = i
      BY <1>2, <2>2
    <3> HIDE DEF j
    <3>2. t[n + j] = y[j] /\ v[n + j] = y[j]
      BY <1>1, <1>2, <3>1 DEF Shift
    <3> QED BY <3>1, <3>2
  <2> QED BY <1>2, <2>1, <2>2
<1>5. t = v
  BY <1>1, <1>2, <1>4, SameLetters
<1> QED BY <1>5 DEF v

LEMMA CutAt ==
  ASSUME NEW t \in Letters, NEW n \in 0 .. Len(t), NEW x, x = Qoder!Upto(t, n), NEW y, y = Qoder!From(t, n + 1)
  PROVE  /\ x \in Letters /\ y \in Letters /\ Len(x) = n /\ Len(y) = Len(t) - n /\ t = Cat(x, y)
         /\ Begins(x, t) /\ Shift(y, t, n)
<1>0. t \in Seq(Qoder!Letter) /\ Len(t) \in Nat /\ n \in Nat /\ n <= Len(t)
  BY DEF Letters
<1>1. x \in Letters /\ Len(x) = n /\ Begins(x, t)
  <2>1. CASE n = 0
    <3>1. \A z \in Seq(Qoder!Letter) : SubSeq(z, 1, 0) = <<>>
      OBVIOUS
    <3>2. x = <<>>
      BY <1>0, <2>1, <3>1 DEF Qoder!Upto
    <3> QED BY <2>1, <3>2, LettersAre DEF Begins
  <2>2. CASE n # 0
    <3>1. \A z \in Seq(Qoder!Letter) : \A k \in 1 .. Len(z) :
            /\ SubSeq(z, 1, k) \in Seq(Qoder!Letter) /\ Len(SubSeq(z, 1, k)) = k
            /\ Begins(SubSeq(z, 1, k), z)
      BY DEF Begins
    <3>2. n \in 1 .. Len(t)
      BY <1>0, <2>2
    <3> QED BY <1>0, <3>1, <3>2 DEF Qoder!Upto, Letters
  <2> QED BY <2>1, <2>2
<1>2. y \in Letters /\ Len(y) = Len(t) - n /\ Shift(y, t, n)
  <2>1. CASE n = Len(t)
    <3>1. \A z \in Seq(Qoder!Letter) : SubSeq(z, Len(z) + 1, Len(z)) = <<>>
      OBVIOUS
    <3>2. y = <<>>
      BY <1>0, <2>1, <3>1 DEF Qoder!From
    <3>4. Len(t) - n = 0
      BY <1>0, <2>1
    <3> QED BY <3>2, <3>4, LettersAre DEF Shift
  <2>2. CASE n # Len(t)
    <3>1. \A z \in Seq(Qoder!Letter) : \A k \in Nat : k < Len(z) =>
            /\ SubSeq(z, k + 1, Len(z)) \in Seq(Qoder!Letter) /\ Len(SubSeq(z, k + 1, Len(z))) = Len(z) - k
            /\ Shift(SubSeq(z, k + 1, Len(z)), z, k)
      BY DEF Shift
    <3>2. n < Len(t)
      BY <1>0, <2>2
    <3> QED BY <1>0, <3>1, <3>2 DEF Qoder!From, Letters
  <2> QED BY <2>1, <2>2
<1>3. Len(t) = Len(x) + Len(y)
  BY <1>0, <1>1, <1>2
<1>4. t = Cat(x, y)
  BY <1>1, <1>2, <1>3, CatIs
<1> QED BY <1>1, <1>2, <1>4

LEMMA PlacesAre ==
  ASSUME NEW t \in Letters, NEW g \in Letters, Len(g) = 3
  PROVE  \A i : i \in Qoder!Places(t, g) <=> i \in 1 .. Len(t) /\ Sits(t, g, i)
<1>0. t \in Seq(Qoder!Letter) /\ g \in Seq(Qoder!Letter) /\ Len(t) \in Nat
  BY DEF Letters
<1>1. ASSUME NEW i \in Nat, i >= 1, i + 2 <= Len(t)
      PROVE  Qoder!At(t, g, i) <=> Sits(t, g, i)
  <2>1. \A z \in Seq(Qoder!Letter) : \A k, l \in Nat : k >= 1 /\ k <= l /\ l <= Len(z) =>
          /\ SubSeq(z, k, l) \in Seq(Qoder!Letter) /\ Len(SubSeq(z, k, l)) = l - k + 1
          /\ \A j \in 1 .. l - k + 1 : SubSeq(z, k, l)[j] = z[k + j - 1]
    OBVIOUS
  <2> DEFINE l == i + 2
             a == SubSeq(t, i, i + 2)
  <2>5. l \in Nat /\ i <= l /\ l <= Len(t) /\ l - i + 1 = 3
    BY <1>1
  <2>6. a = SubSeq(t, i, l)
    OBVIOUS
  <2> HIDE DEF l, a
  <2>7. a \in Seq(Qoder!Letter) /\ Len(a) = 3 /\ \A j \in 1 .. l - i + 1 : a[j] = t[i + j - 1]
    BY <1>0, <1>1, <2>1, <2>5, <2>6
  <2>8. a[1] = t[i + 1 - 1] /\ a[2] = t[i + 2 - 1] /\ a[3] = t[i + 3 - 1]
    BY <2>5, <2>7
  <2>9. i + 1 - 1 = i /\ i + 2 - 1 = i + 1 /\ i + 3 - 1 = i + 2
    OBVIOUS
  <2>2. a \in Letters /\ Len(a) = 3 /\ a[1] = t[i] /\ a[2] = t[i + 1] /\ a[3] = t[i + 2]
    BY <2>7, <2>8, <2>9 DEF Letters
  <2>3. Qoder!At(t, g, i) <=> a = g
    <3>1. i + Len(g) - 1 = i + 2
      BY <1>1
    <3> QED BY <3>1 DEF Qoder!At, a
  <2>4. a[1] = g[1] /\ a[2] = g[2] /\ a[3] = g[3] => a = g
    <3>1. \A j \in 1 .. 3 : j = 1 \/ j = 2 \/ j = 3
      OBVIOUS
    <3> QED BY <2>2, <3>1, SameLetters
  <2> QED BY <1>1, <2>2, <2>3, <2>4 DEF Sits
<1> SUFFICES ASSUME NEW i PROVE i \in Qoder!Places(t, g) <=> i \in 1 .. Len(t) /\ Sits(t, g, i)
  OBVIOUS
<1>2. Len(t) - Len(g) + 1 = Len(t) - 2
  BY <1>0
<1>3. i \in Qoder!Places(t, g) <=> i \in 1 .. Len(t) - 2 /\ Qoder!At(t, g, i)
  BY <1>2 DEF Qoder!Places
<1>4. i \in 1 .. Len(t) - 2 => i \in Nat /\ i >= 1 /\ i + 2 <= Len(t) /\ i \in 1 .. Len(t)
  BY <1>0
<1>5. i \in 1 .. Len(t) /\ Sits(t, g, i) => i \in 1 .. Len(t) - 2
  BY <1>0 DEF Sits
<1> QED BY <1>1, <1>3, <1>4, <1>5

LEMMA SitsBefore ==
  ASSUME NEW t \in Letters, NEW w \in Letters, NEW g, NEW i \in Nat, i >= 1, i + 2 <= Len(t), Sits(Cat(t, w), g, i)
  PROVE  Sits(t, g, i)
<1> DEFINE v == Cat(t, w)
<1>4. Begins(t, v)
  BY CatLetters
<1>1. \A j \in 1 .. Len(t) : v[j] = t[j]
  BY <1>4 DEF Begins
<1> HIDE DEF v
<1>2. i \in 1 .. Len(t) /\ i + 1 \in 1 .. Len(t) /\ i + 2 \in 1 .. Len(t)
  BY LettersLen
<1>3. v[i] = t[i] /\ v[i + 1] = t[i + 1] /\ v[i + 2] = t[i + 2]
  BY <1>1, <1>2
<1> QED BY <1>3 DEF Sits, v

Cuts(t, g, p, x, z) ==
  x \in Letters /\ z \in Letters /\ Len(x) = p - 1 /\ Len(z) = Len(t) - p - 2 /\ t = Cat(x, Cat(g, z))
LEMMA TagCut ==
  ASSUME NEW t \in Letters, NEW g \in Letters, Len(g) = 3, NEW pos \in 1 .. Len(t), Sits(t, g, pos),
         NEW x, x = Qoder!Upto(t, pos - 1), NEW z, z = Qoder!From(t, pos + 3)
  PROVE  Cuts(t, g, pos, x, z)
<1>0. Len(t) \in Nat /\ pos + 2 <= Len(t) /\ pos - 1 \in 0 .. Len(t) /\ pos + 2 \in 0 .. Len(t)
  BY LettersLen DEF Sits
<1> DEFINE k == pos - 1
           n == pos + 2
           y == Qoder!From(t, k + 1)
<1>1. /\ k \in 0 .. Len(t) /\ n \in 0 .. Len(t) /\ x = Qoder!Upto(t, k) /\ z = Qoder!From(t, n + 1)
      /\ n = k + 3 /\ k + 1 = pos /\ k + 2 = pos + 1 /\ k \in Nat
  BY <1>0
<1>2. y = Qoder!From(t, k + 1)
  OBVIOUS
<1> HIDE DEF k, n, y
<1>3. x \in Letters /\ y \in Letters /\ Len(x) = k /\ Len(y) = Len(t) - k /\ t = Cat(x, y) /\ Shift(y, t, k)
  BY <1>1, <1>2, CutAt
<1>4. z \in Letters /\ Len(z) = Len(t) - n /\ Shift(z, t, n)
  BY <1>1, CutAt
<1>5. Len(y) = Len(g) + Len(z) /\ Len(y) \in Nat /\ Len(z) \in Nat
  BY <1>0, <1>1, <1>3, <1>4
<1>6. Begins(g, y)
  <2>1. t[k + 1] = y[1] /\ t[k + 2] = y[2] /\ t[k + 3] = y[3]
    <3>1. 1 \in 1 .. Len(y) /\ 2 \in 1 .. Len(y) /\ 3 \in 1 .. Len(y)
      BY <1>5
    <3> QED BY <1>3, <3>1 DEF Shift
  <2>2. t[k + 1] = g[1] /\ t[k + 2] = g[2] /\ t[k + 3] = g[3]
    <3>1. k + 3 = pos + 2
      BY <1>1
    <3> QED BY <1>1, <3>1 DEF Sits
  <2>3. \A i \in 1 .. 3 : i = 1 \/ i = 2 \/ i = 3
    OBVIOUS
  <2> QED BY <2>1, <2>2, <2>3 DEF Begins
<1>7. Shift(z, y, Len(g))
  <2> SUFFICES ASSUME NEW i \in 1 .. Len(z) PROVE y[3 + i] = z[i]
    BY DEF Shift
  <2> DEFINE j == 3 + i
  <2>1. j \in 1 .. Len(y) /\ k + j = n + i
    BY <1>1, <1>5
  <2>2. t[n + i] = z[i]
    BY <1>4 DEF Shift
  <2> HIDE DEF j
  <2>3. t[k + j] = y[j]
    BY <1>3, <2>1 DEF Shift
  <2> QED BY <2>1, <2>2, <2>3 DEF j
<1>8. y = Cat(g, z)
  BY <1>3, <1>4, <1>5, <1>6, <1>7, CatIs
<1>9. Len(x) = pos - 1 /\ Len(z) = Len(t) - pos - 2
  BY <1>0, <1>1, <1>3, <1>4
<1> QED BY <1>3, <1>4, <1>8, <1>9 DEF Cuts
----------------------------------------------------------------------------
(* What the parser looks for: the first place, and the longest end.           *)
LEMMA LeastIs ==
  ASSUME NEW S, S \subseteq Nat, NEW i \in S
  PROVE  Qoder!Min0(S) \in S /\ Qoder!Min0(S) <= i
<1>1. \E x \in S : \A y \in S : x <= y
  BY NatLeast
<1> QED BY <1>1 DEF Qoder!Min0

LEMMA MostIs ==
  ASSUME NEW k \in Nat, NEW S, S \subseteq 0 .. k, NEW i \in S
  PROVE  Qoder!Max0(S) \in S /\ Qoder!Max0(S) >= i
<1> DEFINE T == {n \in Nat : k - n \in S}
<1>1. T \subseteq Nat /\ T # {}
  <2>1. k - i \in T
    <3>1. i \in 0 .. k /\ k - i \in Nat /\ k - (k - i) = i
      OBVIOUS
    <3> QED BY <3>1
  <2> QED BY <2>1
<1>2. PICK y \in T : \A z \in T : y <= z
  BY <1>1, NatLeast
<1>3. k - y \in S /\ \A z \in S : k - y >= z
  <2>1. y \in Nat /\ k - y \in S
    BY <1>2
  <2> SUFFICES ASSUME NEW z \in S PROVE k - y >= z
    BY <2>1
  <2>2. z \in 0 .. k /\ k - z \in T
    <3>1. z \in 0 .. k /\ k - z \in Nat /\ k - (k - z) = z
      OBVIOUS
    <3> QED BY <3>1
  <2>3. y <= k - z
    BY <1>2, <2>2
  <2> QED BY <2>1, <2>2, <2>3
<1>4. \E x \in S : \A z \in S : x >= z
  BY <1>3
<1> QED BY <1>4 DEF Qoder!Max0

(* What is held back may be the beginning of a tag; before it is none.        *)
LEMMA SafeIsClear ==
  ASSUME NEW m \in Modes, NEW t \in Letters, \A g \in Tags(m) : Qoder!Places(t, g) = {},
         NEW n, n = Qoder!Safe(t, Tags(m)), NEW x, x = Qoder!Upto(t, n), NEW y, y = Qoder!From(t, n + 1),
         NEW w \in Letters
  PROVE  Clear(x, Cat(y, w), m)
<1> DEFINE S == {0} \cup {j \in 1 .. Len(t) :
                  \E g \in Tags(m) : j < Len(g) /\ Qoder!From(t, Len(t) - j + 1) = Qoder!Upto(g, j)}
           v == Cat(t, w)
<1>0. /\ n \in 0 .. Len(t) /\ Len(t) \in Nat /\ x \in Letters /\ y \in Letters /\ Len(x) = n /\ t = Cat(x, y)
  <2>1. n \in 0 .. Len(t)
    BY SafeIn, LettersAre DEF Str
  <2> QED BY <2>1, CutAt, LettersLen
<1>1. Cat(x, Cat(y, w)) = v
  BY <1>0, LettersAre, CatTyped
<1>2. Len(v) = Len(t) + Len(w) /\ Begins(t, v)
  BY CatLetters
<1> SUFFICES ASSUME NEW g \in Tags(m), NEW i \in 1 .. n, Sits(v, g, i) PROVE FALSE
  BY <1>0, <1>1 DEF Clear
<1>3. g \in Letters /\ Len(g) = 3
  BY TagsAre
<1>4. i \in Nat /\ i >= 1 /\ i <= Len(t) /\ i \in 1 .. Len(t)
  BY <1>0
<1>5. CASE i + 2 <= Len(t)
  <2>1. Sits(t, g, i)
    BY <1>4, <1>5, SitsBefore
  <2> QED BY <1>3, <1>4, <2>1, PlacesAre
<1>6. CASE ~(i + 2 <= Len(t))
  <2> DEFINE j == Len(t) - i + 1
             k == i - 1
             a == Qoder!From(t, k + 1)
             b == Qoder!Upto(g, j)
  <2>1. /\ j \in 1 .. 2 /\ j \in 1 .. Len(t) /\ j < Len(g) /\ Len(t) - j + 1 = k + 1 /\ k \in 0 .. Len(t)
        /\ j \in 0 .. Len(g) /\ Len(t) - k = j /\ k + 1 = i /\ k + 2 = i + 1
    BY <1>0, <1>3, <1>4, <1>6
  <2>2. a = Qoder!From(t, k + 1) /\ b = Qoder!Upto(g, j)
    OBVIOUS
  <2> HIDE DEF j, k, a, b
  <2>3. a \in Letters /\ Len(a) = j /\ Shift(a, t, k)
    BY <2>1, <2>2, CutAt
  <2>4. b \in Letters /\ Len(b) = j /\ Begins(b, g)
    BY <1>3, <2>1, <2>2, CutAt
  <2>5. ASSUME NEW l \in 1 .. j PROVE a[l] = b[l]
    <3>1. a[l] = t[k + l] /\ b[l] = g[l]
      BY <2>3, <2>4 DEF Shift, Begins
    <3>2. k + l \in 1 .. Len(t)
      BY <1>0, <2>1
    <3>3. v[k + l] = t[k + l]
      BY <1>2, <3>2 DEF Begins
    <3>4. l = 1 \/ l = 2
      BY <2>1
    <3>5. v[k + 1] = g[1] /\ v[k + 2] = g[2]
      BY <2>1 DEF Sits
    <3> QED BY <3>1, <3>3, <3>4, <3>5
  <2>6. a = b
    BY <2>3, <2>4, <2>5, SameLetters
  <2>7. j \in S
    BY <2>1, <2>2, <2>6
  <2>8. S \subseteq 0 .. Len(t)
    BY <1>0
  <2>9. n = Len(t) - Qoder!Max0(S)
    BY DEF Qoder!Safe, Qoder!Trailing
  <2> HIDE DEF S
  <2>10. Qoder!Max0(S) \in 0 .. Len(t) /\ Qoder!Max0(S) >= j
    BY <1>0, <2>7, <2>8, MostIs
  <2> QED BY <1>0, <2>1, <2>9, <2>10
<1> QED BY <1>5, <1>6

LEMMA SitsWithin ==
  ASSUME NEW x \in Letters, NEW y \in Letters, NEW t, t = Cat(x, y), NEW g, NEW i \in Nat, i >= 1, Sits(y, g, i)
  PROVE  Sits(t, g, Len(x) + i) /\ Len(x) + i \in 1 .. Len(t)
<1>1. Len(t) = Len(x) + Len(y) /\ Len(x) \in Nat /\ Len(y) \in Nat /\ Shift(y, t, Len(x))
  BY CatLetters
<1> DEFINE n == Len(x)
<1>2. i \in 1 .. Len(y) /\ i + 1 \in 1 .. Len(y) /\ i + 2 \in 1 .. Len(y)
      /\ n + i + 2 = n + (i + 2) /\ n + i + 1 = n + (i + 1) /\ n + i + 2 <= Len(t)
      /\ n + i \in 1 .. Len(t)
  BY <1>1 DEF Sits
<1>3. Shift(y, t, n)
  BY <1>1
<1> HIDE DEF n
<1>4. t[n + i] = y[i] /\ t[n + (i + 1)] = y[i + 1] /\ t[n + (i + 2)] = y[i + 2]
  BY <1>2, <1>3 DEF Shift
<1>5. Sits(t, g, n + i) /\ n + i \in 1 .. Len(t)
  BY <1>2, <1>4 DEF Sits
<1> QED BY <1>5 DEF n

LEMMA TagCutAt ==
  \A t, g \in Letters : \A p \in 1 .. Len(t) :
    Len(g) = 3 /\ Sits(t, g, p) => Cuts(t, g, p, Qoder!Upto(t, p - 1), Qoder!From(t, p + 3))
<1> SUFFICES ASSUME NEW t \in Letters, NEW g \in Letters, NEW p \in 1 .. Len(t), Len(g) = 3, Sits(t, g, p)
             PROVE  Cuts(t, g, p, Qoder!Upto(t, p - 1), Qoder!From(t, p + 3))
  OBVIOUS
<1> DEFINE x == Qoder!Upto(t, p - 1)
           z == Qoder!From(t, p + 3)
<1>1. x = Qoder!Upto(t, p - 1) /\ z = Qoder!From(t, p + 3)
  OBVIOUS
<1> HIDE DEF x, z
<1>2. Cuts(t, g, p, x, z)
  BY <1>1, TagCut
<1> QED BY <1>2 DEF x, z

(* The first tag of a text.                                                   *)
LEMMA FirstIsClear ==
  ASSUME NEW m \in Modes, NEW t \in Letters, NEW g \in Tags(m), NEW p \in 1 .. Len(t), Sits(t, g, p),
         \A h \in Tags(m) : \A i \in 1 .. p - 1 : ~Sits(t, h, i),
         NEW x, x = Qoder!Upto(t, p - 1), NEW z, z = Qoder!From(t, p + 3), NEW w \in Letters
  PROVE  /\ x \in Letters /\ z \in Letters /\ Len(z) < Len(t)
         /\ Cat(t, w) = Cat(x, Cat(g, Cat(z, w))) /\ Clear(x, Cat(g, Cat(z, w)), m)
<1>1. g \in Letters /\ Len(g) = 3
  BY TagsAre
<1>2. x \in Letters /\ z \in Letters /\ Len(x) = p - 1 /\ Len(z) = Len(t) - p - 2 /\ t = Cat(x, Cat(g, z))
  BY <1>1, TagCutAt DEF Cuts
<1>3. Cat(t, w) = Cat(x, Cat(g, Cat(z, w)))
  BY <1>1, <1>2, LettersAre, CatTyped
<1>4. Len(z) < Len(t) /\ p + 2 <= Len(t) /\ Len(t) \in Nat
  BY <1>2, LettersLen DEF Sits
<1>5. Clear(x, Cat(g, Cat(z, w)), m)
  <2> SUFFICES ASSUME NEW h \in Tags(m), NEW i \in 1 .. p - 1, Sits(Cat(t, w), h, i) PROVE FALSE
    BY <1>2, <1>3 DEF Clear
  <2>1. i \in Nat /\ i >= 1 /\ i + 2 <= Len(t)
    BY <1>4
  <2>2. Sits(t, h, i)
    BY <2>1, SitsBefore
  <2> QED BY <2>2
<1> QED BY <1>2, <1>3, <1>4, <1>5

(* Line breaks after a thought are no words.                                  *)
LEMMA BreakIsNoWord ==
  ASSUME NEW t \in Letters, NEW b, b = Qoder!WithoutBreak(t), NEW w \in Letters
  PROVE  /\ b \in Letters /\ Len(b) <= Len(t)
         /\ Qoder!Words(Qoder!Scan[Cat(b, w)][<<>>].text) = Qoder!Words(Qoder!Scan[Cat(t, w)][<<>>].text)
         /\ Qoder!Words(Qoder!Scan[Cat(b, w)][<<>>].thinking) = Qoder!Words(Qoder!Scan[Cat(t, w)][<<>>].thinking)
<1> DEFINE Breaks == Len(t) >= 2 /\ Qoder!At(t, <<"n", "n">>, 1)
<1>1. CASE ~Breaks
  <2>1. b = t
    BY <1>1 DEF Qoder!WithoutBreak
  <2> QED BY <2>1, LettersLen
<1>2. CASE Breaks
  <2> DEFINE Brk == <<"n">>
  <2>0. t \in Seq(Qoder!Letter) /\ Len(t) \in Nat /\ Len(t) >= 2
    BY <1>2 DEF Letters
  <2>1. t[1] = "n" /\ t[2] = "n"
    <3>1. SubSeq(t, 1, 2) = <<"n", "n">>
      <4>1. Len(<<"n", "n">>) = 2 /\ 1 + 2 - 1 = 2
        OBVIOUS
      <4> QED BY <1>2, <4>1 DEF Qoder!At
    <3>2. \A z \in Seq(Qoder!Letter) : Len(z) >= 2 => SubSeq(z, 1, 2)[1] = z[1] /\ SubSeq(z, 1, 2)[2] = z[2]
      OBVIOUS
    <3>3. SubSeq(t, 1, 2)[1] = t[1] /\ SubSeq(t, 1, 2)[2] = t[2]
      BY <2>0, <3>2
    <3>4. <<"n", "n">>[1] = "n" /\ <<"n", "n">>[2] = "n"
      OBVIOUS
    <3> QED BY <3>1, <3>3, <3>4
  <2> DEFINE x == Qoder!Upto(t, 2)
  <2>4. x \in Letters /\ b \in Letters /\ Len(x) = 2 /\ Len(b) = Len(t) - 2 /\ t = Cat(x, b) /\ Begins(x, t)
    <3> DEFINE n == 2
    <3>1. n \in 0 .. Len(t)
      BY <2>0
    <3>2. b = Qoder!From(t, n + 1)
      BY <1>2 DEF Qoder!WithoutBreak
    <3>3. x = Qoder!Upto(t, n)
      OBVIOUS
    <3> HIDE DEF n, x
    <3>4. x \in Letters /\ b \in Letters /\ Len(x) = n /\ Len(b) = Len(t) - n /\ t = Cat(x, b) /\ Begins(x, t)
      BY <3>1, <3>2, <3>3, CutAt
    <3> QED BY <3>4 DEF n
  <2> HIDE DEF x
  <2>5. "n" \in Qoder!Letter
    BY DEF Qoder!Letter
  <2>6. Brk \in Letters /\ Len(Brk) = 1 /\ Brk[1] = "n"
    BY <2>5 DEF Letters
  <2> HIDE DEF Brk
  <2>7. x = Cat(Brk, Brk)
    <3>1. x[1] = "n" /\ x[2] = "n"
      BY <2>1, <2>4 DEF Begins
    <3>2. \A i \in 1 .. 1 : i = 1 /\ 1 + i = 2
      OBVIOUS
    <3>3. Begins(Brk, x) /\ Shift(Brk, x, 1)
      BY <2>6, <3>1, <3>2 DEF Begins, Shift
    <3>4. Len(x) = Len(Brk) + Len(Brk)
      BY <2>4, <2>6
    <3> QED BY <2>4, <2>6, <3>3, <3>4, CatIs
  <2> DEFINE u == Cat(b, w)
             r == Qoder!Scan[u][<<>>]
  <2>8. u \in Letters /\ Cat(t, w) = Cat(x, u) /\ <<>> \in Modes
    <3>1. <<>> \in Modes
      BY ModesAre
    <3> QED BY <2>4, <3>1, LettersAre, CatTyped
  <2> HIDE DEF u
  <2>9. r \in Answer
    BY <2>8, ScanTyped
  <2> HIDE DEF r
  <2>10. Clear(x, u, <<>>)
    <3> SUFFICES ASSUME NEW g \in Tags(<<>>), NEW i \in 1 .. Len(x), Sits(Cat(x, u), g, i) PROVE FALSE
      BY DEF Clear
    <3>1. Begins(x, Cat(x, u)) /\ g[1] = "<"
      BY <2>4, <2>8, CatLetters, TagsAre
    <3>2. Cat(x, u)[i] = x[i] /\ Cat(x, u)[i] = "<"
      BY <3>1 DEF Begins, Sits
    <3>3. x[i] = "n"
      <4>1. i = 1 \/ i = 2
        BY <2>4
      <4>2. x[1] = t[1] /\ x[2] = t[2]
        BY <2>4 DEF Begins
      <4> QED BY <2>1, <4>1, <4>2
    <3> QED BY <3>2, <3>3
  <2>11. Qoder!Scan[Cat(t, w)][<<>>] = Put(<<>>, x, r)
    BY <2>4, <2>8, <2>10, Skip DEF r
  <2>12. r.text \in Str /\ r.thinking \in Str
    BY <2>9, LettersAre DEF Answer
  <2>13. Qoder!Words(x) = <<>>
    <3>1. Brk \in Str /\ Qoder!Words(Brk) = <<>>
      BY <2>6, LettersAre, WordsOfNone DEF Brk
    <3>2. <<>> \in Str /\ Cat(<<>>, <<>>) = <<>>
      BY CatTyped
    <3> QED BY <2>7, <3>1, <3>2, WordsJoined
  <2>14. Qoder!Words(Cat(x, r.text)) = Qoder!Words(r.text)
    <3>1. x \in Str /\ Qoder!Words(r.text) \in Str
      BY <2>4, <2>12, LettersAre, WordsTyped
    <3>2. Qoder!Words(Cat(x, r.text)) = Cat(Qoder!Words(x), Qoder!Words(r.text))
      BY <2>12, <3>1, WordsJoined
    <3>3. \A k \in Str : Cat(<<>>, k) = k
      BY CatTyped
    <3> QED BY <2>13, <3>1, <3>2, <3>3
  <2>15. Put(<<>>, x, r).text = Cat(x, r.text) /\ Put(<<>>, x, r).thinking = r.thinking
    BY DEF Put
  <2>16. b \in Letters /\ Len(b) <= Len(t)
    BY <2>0, <2>4
  <2> QED BY <2>11, <2>14, <2>15, <2>16 DEF r, u
<1> QED BY <1>1, <1>2
----------------------------------------------------------------------------
(* What was told of the text, what is held back, and what is still to come,   *)
(* read together, stays the same when the parser goes on.                     *)
Mode(s) == IF s.inside THEN s.tag ELSE <<>>
Ready(s) == Plainly(s) /\ s.buffer \in Letters /\ s.tag \in Modes /\ s.tag # <<>>
Ahead(s, w) == Qoder!Scan[Cat(s.buffer, w)][Mode(s)]
TextOf(s, w) == Cat(Qoder!Words(Told(s, "text")), Qoder!Words(Ahead(s, w).text))
ThoughtsOf(s, w) == Cat(Qoder!Words(Told(s, "thinking")), Qoder!Words(Ahead(s, w).thinking))
Even(r, s) == \A w \in Letters :
                TextOf(r, w) = TextOf(s, w) /\ ThoughtsOf(r, w) = ThoughtsOf(s, w)
(* No tag is held back.                                                       *)
Idle(s) == \A g \in Tags(Mode(s)) : \A i \in 1 .. Len(s.buffer) : ~Sits(s.buffer, g, i)

LEMMA EvenTwice == ASSUME NEW s, NEW q, NEW r, Even(q, s), Even(r, q) PROVE Even(r, s)
BY DEF Even

LEMMA ModeTyped == ASSUME NEW s, Ready(s) PROVE Mode(s) \in Modes
BY ModesAre DEF Ready, Mode

(* A piece was told, as text or as thinking by the mode that it was told in.  *)
ToldMore(r, s, x) ==
  IF s.inside THEN Told(r, "thinking") = Cat(Told(s, "thinking"), x) /\ Told(r, "text") = Told(s, "text")
              ELSE Told(r, "text") = Cat(Told(s, "text"), x) /\ Told(r, "thinking") = Told(s, "thinking")
SameWords(a, b) == /\ Qoder!Words(a.text) = Qoder!Words(b.text)
                   /\ Qoder!Words(a.thinking) = Qoder!Words(b.thinking)

LEMMA EvenBy ==
  ASSUME NEW s, Ready(s), NEW r, Ready(r), NEW x \in Letters, ToldMore(r, s, x),
         \A w \in Letters : \E q \in Answer : Ahead(s, w) = Put(Mode(s), x, q) /\ SameWords(Ahead(r, w), q)
  PROVE  Even(r, s)
<1> SUFFICES ASSUME NEW w \in Letters
             PROVE  TextOf(r, w) = TextOf(s, w) /\ ThoughtsOf(r, w) = ThoughtsOf(s, w)
  BY DEF Even
<1>1. PICK q \in Answer : Ahead(s, w) = Put(Mode(s), x, q) /\ SameWords(Ahead(r, w), q)
  OBVIOUS
<1>2. q.text \in Str /\ q.thinking \in Str /\ x \in Str
  BY LettersAre DEF Answer
<1>3. Told(s, "text") \in Str /\ Told(s, "thinking") \in Str
  BY ToldTyped DEF Ready, Plainly, Parsing, Kept
<1>4. s.inside <=> Mode(s) # <<>>
  BY DEF Mode, Ready
<1> DEFINE a == Told(s, "text")
           b == Told(s, "thinking")
           c == q.text
           d == q.thinking
           W(t) == Qoder!Words(t)
<1>5. a \in Str /\ b \in Str /\ c \in Str /\ d \in Str /\ x \in Str
  BY <1>2, <1>3
<1>6. TextOf(r, w) = Cat(W(Told(r, "text")), W(c)) /\ ThoughtsOf(r, w) = Cat(W(Told(r, "thinking")), W(d))
  BY <1>1 DEF TextOf, ThoughtsOf, SameWords
<1>7. TextOf(s, w) = Cat(W(a), W(Ahead(s, w).text)) /\ ThoughtsOf(s, w) = Cat(W(b), W(Ahead(s, w).thinking))
  BY DEF TextOf, ThoughtsOf
<1>8. \A k, l \in Str : W(Cat(k, l)) = Cat(W(k), W(l)) /\ W(k) \in Str
  BY WordsJoined, WordsTyped
<1>9. \A k, l, n \in Str : Cat(k, Cat(l, n)) = Cat(Cat(k, l), n)
  BY CatTyped
<1>10. CASE s.inside
  <2>1. Ahead(s, w).text = c /\ Ahead(s, w).thinking = Cat(x, d)
    BY <1>1, <1>4, <1>10 DEF Put
  <2>2. Told(r, "thinking") = Cat(b, x) /\ Told(r, "text") = a
    BY <1>10 DEF ToldMore
  <2> HIDE DEF a, b, c, d, W
  <2>3. Cat(W(Cat(b, x)), W(d)) = Cat(W(b), W(Cat(x, d)))
    BY <1>5, <1>8, <1>9
  <2> QED BY <1>6, <1>7, <2>1, <2>2, <2>3
<1>11. CASE ~s.inside
  <2>1. Ahead(s, w).text = Cat(x, c) /\ Ahead(s, w).thinking = d
    BY <1>1, <1>4, <1>11 DEF Put
  <2>2. Told(r, "text") = Cat(a, x) /\ Told(r, "thinking") = b
    BY <1>11 DEF ToldMore
  <2> HIDE DEF a, b, c, d, W
  <2>3. Cat(W(Cat(a, x)), W(c)) = Cat(W(a), W(Cat(x, c)))
    BY <1>5, <1>8, <1>9
  <2> QED BY <1>6, <1>7, <2>1, <2>2, <2>3
<1> QED BY <1>10, <1>11

(* Blocks that are only marked in another way.                                *)
LEMMA ToldAlike ==
  ASSUME NEW s \in StreamRecord, NEW r \in StreamRecord, r.content = s.content, NEW k
  PROVE  Told(r, k) = Told(s, k)
BY DEF Told, Parts

LEMMA BufferedTold ==
  ASSUME NEW s, Plainly(s), NEW b \in Letters, NEW r, r = Buffered(s, b)
  PROVE  /\ Plainly(r) /\ r.buffer = b /\ r.inside = s.inside /\ r.tag = s.tag
         /\ \A k : Told(r, k) = Told(s, k)
<1>1. Kept(s) /\ s \in StreamRecord /\ b \in Seq(Char)
  BY LettersAre DEF Plainly, Parsing, Kept, Str
<1>2. Kept(r) /\ Steady(r, s) /\ r.buffer = b /\ r.inside = s.inside /\ r.content = s.content /\ r.think = s.think
  BY <1>1, BufferedKept
<1>3. r.tag = s.tag
  BY <1>1 DEF Buffered, StreamRecord
<1>4. r \in StreamRecord
  BY <1>2 DEF Kept
<1>5. \A k : Told(r, k) = Told(s, k)
  BY <1>1, <1>2, <1>4, ToldAlike
<1>6. Plainly(r)
  BY <1>2 DEF Plainly, Parsing, Steady, OpenThoughtInv
<1> QED BY <1>2, <1>3, <1>5, <1>6

LEMMA EnteredTold ==
  ASSUME NEW s, Plainly(s), NEW b \in Letters, NEW g \in Letters, NEW r, r = Entered(s, b, g)
  PROVE  /\ Plainly(r) /\ r.buffer = b /\ r.inside /\ r.tag = g
         /\ \A k : Told(r, k) = Told(s, k)
<1>1. Kept(s) /\ s \in StreamRecord /\ b \in Seq(Char) /\ g \in Seq(Char)
  BY LettersAre DEF Plainly, Parsing, Kept, Str
<1>2. Kept(r) /\ Steady(r, s) /\ r.buffer = b /\ r.inside
  BY <1>1, EnteredKept
<1>3. r.tag = g /\ r.content = s.content /\ r.think = s.think
  BY <1>1 DEF Entered, StreamRecord
<1>4. r \in StreamRecord
  BY <1>2 DEF Kept
<1>5. \A k : Told(r, k) = Told(s, k)
  BY <1>1, <1>3, <1>4, ToldAlike
<1>6. Plainly(r)
  BY <1>2, <1>3 DEF Plainly, Parsing, Steady, OpenThoughtInv
<1> QED BY <1>2, <1>3, <1>5, <1>6

LEMMA LeftTold ==
  ASSUME NEW s, Plainly(s), NEW b \in Letters, NEW r, r = Left(ThinkEnded(s), b)
  PROVE  /\ Plainly(r) /\ r.buffer = b /\ ~r.inside /\ r.tag = s.tag
         /\ \A k : Told(r, k) = Told(s, k)
<1> DEFINE q == ThinkEnded(s)
<1>1. Kept(s) /\ s \in StreamRecord /\ b \in Seq(Char) /\ ~s.native
  BY LettersAre DEF Plainly, Parsing, Kept, Str
<1>2. Kept(r) /\ Steady(r, s) /\ r.buffer = b
  BY <1>1, LeftKept
<1>3. /\ q \in StreamRecord /\ q.tag = s.tag /\ Len(q.content) = Len(s.content)
      /\ \A n \in 1 .. Len(s.content) :
           q.content[n].kind = s.content[n].kind /\ q.content[n].body = s.content[n].body
  <2>1. CASE s.think = Null
    <3>1. q = s
      BY <2>1 DEF ThinkEnded
    <3> QED BY <1>1, <3>1
  <2>2. CASE s.think # Null
    <3>1. s.think \in 1 .. Len(s.content)
      BY <1>1, <2>2 DEF Kept, MarksInv, Points
    <3>2. q = Qoder!Ended(s, s.think)
      BY <2>2 DEF ThinkEnded
    <3> HIDE DEF q
    <3>3. q \in StreamRecord /\ SameMarks(q, s) /\ SameBut(q, s, s.think)
          /\ q.content[s.think].body = s.content[s.think].body
      BY <1>1, <3>1, <3>2, EndedState
    <3> QED BY <3>1, <3>3 DEF SameMarks, SameBut
  <2> QED BY <2>1, <2>2
<1>4. r = Left(q, b)
  OBVIOUS
<1> HIDE DEF q
<1>5. r.content = q.content /\ r.tag = q.tag /\ ~r.inside /\ r.think = Null
  BY <1>3, <1>4 DEF Left, StreamRecord
<1>6. r \in StreamRecord
  BY <1>2 DEF Kept
<1>7. \A k : Told(r, k) = Told(s, k)
  BY <1>1, <1>3, <1>5, <1>6, ToldSame
<1>8. Plainly(r)
  BY <1>1, <1>2, <1>5 DEF Plainly, Parsing, Steady, OpenThoughtInv
<1> QED BY <1>2, <1>3, <1>5, <1>7, <1>8

(* Nothing was found: what is safe went out.                                  *)
LEMMA HoldingBack ==
  ASSUME NEW s, Ready(s), NEW m, m = Mode(s), \A g \in Tags(m) : Qoder!Places(s.buffer, g) = {},
         NEW n, n = Qoder!Safe(s.buffer, Tags(m)), NEW x, x = Qoder!Upto(s.buffer, n),
         NEW y, y = Qoder!From(s.buffer, n + 1),
         NEW r, Ready(r), r.buffer = y, Mode(r) = m, ToldMore(r, s, x)
  PROVE  Even(r, s) /\ Idle(r) /\ Len(r.buffer) <= Len(s.buffer)
<1> DEFINE t == s.buffer
<1>0. t \in Letters /\ m \in Modes
  BY ModeTyped DEF Ready
<1>1. /\ n \in 0 .. Len(t) /\ x \in Letters /\ y \in Letters /\ Len(x) = n /\ Len(y) = Len(t) - n
      /\ t = Cat(x, y)
  <2>1. n \in 0 .. Len(t)
    BY <1>0, SafeIn, LettersAre DEF Str
  <2>2. x = Qoder!Upto(t, n) /\ y = Qoder!From(t, n + 1)
    OBVIOUS
  <2> HIDE DEF t
  <2> QED BY <1>0, <2>1, <2>2, CutAt
<1>2. \A w \in Letters : \E q \in Answer : Ahead(s, w) = Put(Mode(s), x, q) /\ SameWords(Ahead(r, w), q)
  <2> TAKE w \in Letters
  <2> DEFINE u == Cat(y, w)
  <2>1. Clear(x, u, m)
    BY <1>0, SafeIsClear
  <2>2. u \in Letters /\ Cat(x, u) = Cat(t, w)
    BY <1>1, LettersAre, CatTyped
  <2> HIDE DEF u
  <2>3. Qoder!Scan[Cat(t, w)][m] = Put(m, x, Qoder!Scan[u][m]) /\ Qoder!Scan[u][m] \in Answer
    BY <1>0, <1>1, <2>1, <2>2, Skip, ScanTyped
  <2> QED BY <2>3 DEF Ahead, SameWords, u
<1>3. Even(r, s)
  BY <1>1, <1>2, EvenBy
<1>4. Idle(r)
  <2> SUFFICES ASSUME NEW g \in Tags(m), NEW i \in 1 .. Len(y), Sits(y, g, i) PROVE FALSE
    BY DEF Idle
  <2>1. i \in Nat /\ i >= 1
    OBVIOUS
  <2>2. Sits(t, g, Len(x) + i) /\ Len(x) + i \in 1 .. Len(t)
    BY <1>1, <2>1, SitsWithin
  <2>3. g \in Letters /\ Len(g) = 3
    BY <1>0, TagsAre
  <2> QED BY <1>0, <2>2, <2>3, PlacesAre
<1>5. Len(y) <= Len(t)
  BY <1>0, <1>1, LettersLen
<1> QED BY <1>3, <1>4, <1>5
----------------------------------------------------------------------------
(* The parser goes on, and if it leaves a tag then it has taken one.          *)
Went(r, s) ==
  /\ Ready(r) /\ Even(r, s) /\ Len(r.buffer) <= Len(s.buffer) /\ (Idle(s) => Idle(r))
  /\ Idle(r) \/ Len(r.buffer) < Len(s.buffer)

LEMMA ReadyLen == ASSUME NEW s, Ready(s) PROVE Len(s.buffer) \in Nat
BY LettersLen DEF Ready

LEMMA WentTwice ==
  ASSUME NEW s, Ready(s), NEW q, Went(q, s), NEW r, Went(r, q)
  PROVE  Went(r, s)
<1>1. Ready(q) /\ Ready(r)
  BY DEF Went
<1>2. Len(s.buffer) \in Nat /\ Len(q.buffer) \in Nat /\ Len(r.buffer) \in Nat
  BY <1>1, ReadyLen
<1>3. Even(r, s)
  BY EvenTwice DEF Went
<1> QED BY <1>1, <1>2, <1>3 DEF Went

(* The tag of a mode is found.                                                *)
LEMMA TakingTag ==
  ASSUME NEW s, Ready(s), NEW m, m = Mode(s), NEW g \in Tags(m), NEW p \in 1 .. Len(s.buffer),
         Sits(s.buffer, g, p), \A h \in Tags(m) : \A i \in 1 .. p - 1 : ~Sits(s.buffer, h, i),
         NEW x, x = Qoder!Upto(s.buffer, p - 1), NEW z, z = Qoder!From(s.buffer, p + 3),
         NEW r, Ready(r), Len(r.buffer) <= Len(z), ToldMore(r, s, x),
         \A w \in Letters : SameWords(Ahead(r, w), Qoder!Scan[Cat(g, Cat(z, w))][m])
  PROVE  Went(r, s)
<1> DEFINE t == s.buffer
<1>0. t \in Letters /\ m \in Modes /\ Len(t) \in Nat
  BY ModeTyped, LettersLen DEF Ready
<1>1. g \in Letters /\ Len(g) = 3
  BY <1>0, TagsAre
<1>2. ASSUME NEW w \in Letters
      PROVE  /\ x \in Letters /\ z \in Letters /\ Len(z) < Len(t)
             /\ Cat(t, w) = Cat(x, Cat(g, Cat(z, w))) /\ Clear(x, Cat(g, Cat(z, w)), m)
  BY <1>0, FirstIsClear
<1>3. x \in Letters /\ z \in Letters /\ Len(z) < Len(t)
  BY <1>2, LettersAre
<1>4. \A w \in Letters : \E q \in Answer : Ahead(s, w) = Put(Mode(s), x, q) /\ SameWords(Ahead(r, w), q)
  <2> TAKE w \in Letters
  <2> DEFINE u == Cat(g, Cat(z, w))
  <2>1. u \in Letters
    BY <1>1, <1>3, LettersAre
  <2>2. Cat(t, w) = Cat(x, u) /\ Clear(x, u, m)
    BY <1>2
  <2>3. SameWords(Ahead(r, w), Qoder!Scan[u][m])
    OBVIOUS
  <2> HIDE DEF u
  <2>4. Qoder!Scan[Cat(t, w)][m] = Put(m, x, Qoder!Scan[u][m]) /\ Qoder!Scan[u][m] \in Answer
    BY <1>0, <1>3, <2>1, <2>2, Skip, ScanTyped
  <2> QED BY <2>3, <2>4 DEF Ahead
<1>5. Even(r, s)
  BY <1>3, <1>4, EvenBy
<1>6. ~Idle(s)
  BY DEF Idle
<1>7. Len(r.buffer) < Len(t)
  BY <1>0, <1>3, LettersLen, ReadyLen
<1> QED BY <1>0, <1>5, <1>6, <1>7, ReadyLen DEF Went

LEMMA BeforeWent ==
  ASSUME NEW s, Ready(s), ~s.inside, NEW r, r = Qoder!BeforeThinking(s)
  PROVE  Went(r, s)
<1> DEFINE t == s.buffer
           found == {v \in Qoder!Variants : Qoder!Places(t, v.open) # {}}
           first == CHOOSE v \in found : \A w \in found :
                      Qoder!Min0(Qoder!Places(t, v.open)) <= Qoder!Min0(Qoder!Places(t, w.open))
           pos == Qoder!Min0(Qoder!Places(t, first.open))
           n == Qoder!Safe(t, {v.open : v \in Qoder!Variants})
           m == <<>>
<1>0. t \in Letters /\ m \in Modes /\ m = Mode(s) /\ Tags(m) = {v.open : v \in Qoder!Variants} /\ Plainly(s)
  BY ModesAre DEF Ready, Mode, Tags
<1>1. \A v \in Qoder!Variants : /\ v.open \in Letters /\ Len(v.open) = 3 /\ v.close \in Modes /\ v.close # <<>>
                               /\ v.close \in Letters
  <2>1. \A v \in Qoder!Variants : v.open \in Tags(m) /\ v.close \in Modes /\ v.close # <<>>
    BY <1>0, ModesAre
  <2>2. \A v \in Qoder!Variants : v.close \in Tags(v.close)
    BY <2>1 DEF Tags
  <2> HIDE DEF m
  <2> QED BY <1>0, <2>1, <2>2, TagsAre
<1>2. \A v \in Qoder!Variants : \A i : i \in Qoder!Places(t, v.open) <=> i \in 1 .. Len(t) /\ Sits(t, v.open, i)
  BY <1>0, <1>1, PlacesAre
<1>3. \A v \in Qoder!Variants : Qoder!Places(t, v.open) \subseteq Nat
  <2>1. \A i \in 1 .. Len(t) : i \in Nat
    OBVIOUS
  <2> QED BY <1>2, <2>1
<1>4. CASE found # {}
  <2> DEFINE T == {k \in Nat : \E v \in found : k = Qoder!Min0(Qoder!Places(t, v.open))}
             a == Qoder!EmitText(s, Qoder!Upto(t, pos - 1))
             z == Qoder!From(t, pos + Len(first.open))
  <2>1. \A v \in found : Qoder!Min0(Qoder!Places(t, v.open)) \in Nat
    BY <1>3, Leasts
  <2>2. PICK k \in T : \A l \in T : k <= l
    <3>1. T \subseteq Nat /\ T # {}
      BY <1>4, <2>1
    <3> HIDE DEF T
    <3> QED BY <3>1, NatLeast
  <2>3. \E v \in found : \A w \in found :
          Qoder!Min0(Qoder!Places(t, v.open)) <= Qoder!Min0(Qoder!Places(t, w.open))
    BY <2>1, <2>2
  <2>4. first \in found /\ \A w \in found : pos <= Qoder!Min0(Qoder!Places(t, w.open))
    BY <2>3
  <2>18. r = Entered(a, z, first.close)
    BY <1>4 DEF Qoder!BeforeThinking, Entered
  <2> HIDE DEF first, T
  <2> DEFINE g == first.open
             h == first.close
  <2>5. first \in Qoder!Variants /\ Qoder!Places(t, g) # {}
    BY <2>4
  <2>6. g \in Tags(m) /\ g \in Letters /\ Len(g) = 3 /\ h \in Modes /\ h # <<>> /\ h \in Letters
    BY <1>0, <1>1, <2>5
  <2>7. pos \in 1 .. Len(t) /\ Sits(t, g, pos)
    <3>1. pos \in Qoder!Places(t, g)
      BY <1>3, <2>5, Leasts
    <3> QED BY <1>2, <2>5, <3>1
  <2>8. \A e \in Tags(m) : \A i \in 1 .. pos - 1 : ~Sits(t, e, i)
    <3> SUFFICES ASSUME NEW e \in Tags(m), NEW i \in 1 .. pos - 1, Sits(t, e, i) PROVE FALSE
      OBVIOUS
    <3>1. PICK v \in Qoder!Variants : e = v.open
      BY <1>0
    <3>2. i \in 1 .. Len(t) /\ i < pos
      BY <1>0, <2>7, LettersLen
    <3>3. i \in Qoder!Places(t, v.open)
      BY <1>2, <3>1, <3>2
    <3>4. v \in found
      BY <3>3
    <3>5. Qoder!Min0(Qoder!Places(t, v.open)) <= i /\ Qoder!Min0(Qoder!Places(t, v.open)) \in Nat
      BY <1>3, <2>1, <3>3, <3>4, LeastIs
    <3>6. pos <= Qoder!Min0(Qoder!Places(t, v.open))
      BY <2>4, <3>4
    <3> HIDE DEF pos
    <3> QED BY <2>7, <3>2, <3>5, <3>6
  <2> HIDE DEF pos, found
  <2>9. z = Qoder!From(t, pos + 3)
    BY <2>6
  <2> DEFINE x == Qoder!Upto(t, pos - 1)
  <2>10. x \in Letters /\ z \in Letters
    <3>1. Cuts(t, g, pos, x, z)
      BY <1>0, <2>6, <2>7, <2>9, TagCutAt
    <3> QED BY <3>1 DEF Cuts
  <2>11. a = Qoder!EmitText(s, x) /\ x = Qoder!Upto(t, pos - 1) /\ r = Entered(a, z, h)
    BY <2>18
  <2> HIDE DEF a, z, x, g, h
  <2>12. /\ Plainly(a) /\ SameSettings(a, s)
         /\ Told(a, "text") = Cat(Told(s, "text"), x) /\ Told(a, "thinking") = Told(s, "thinking")
    BY <1>0, <2>10, <2>11, LettersAre, EmitTextTold
  <2>13. Plainly(r) /\ r.buffer = z /\ r.inside /\ r.tag = h /\ \A k2 : Told(r, k2) = Told(a, k2)
    BY <2>6, <2>10, <2>11, <2>12, EnteredTold
  <2>14. Ready(r) /\ ToldMore(r, s, x) /\ Mode(r) = h
    BY <2>6, <2>10, <2>12, <2>13 DEF Ready, ToldMore, Mode
  <2>15. \A w \in Letters : SameWords(Ahead(r, w), Qoder!Scan[Cat(g, Cat(z, w))][m])
    <3> TAKE w \in Letters
    <3> DEFINE u == Cat(z, w)
    <3>1. u \in Letters
      BY <2>10, LettersAre
    <3> HIDE DEF u
    <3>2. Qoder!Scan[Cat(g, u)][<<>>] = Qoder!Scan[u][h]
      BY <2>5, <3>1, ScanOpens DEF g, h
    <3> QED BY <2>13, <2>14, <3>2 DEF Ahead, SameWords, u
  <2>16. Len(r.buffer) <= Len(z)
    BY <2>10, <2>13, LettersLen
  <2> HIDE DEF m
  <2> QED BY <1>0, <2>6, <2>7, <2>8, <2>9, <2>11, <2>14, <2>15, <2>16, TakingTag
<1>5. CASE found = {}
  <2> DEFINE x == Qoder!Upto(t, n)
             y == Qoder!From(t, n + 1)
             a == Qoder!EmitText(s, x)
  <2>1. r = Buffered(a, y)
    BY <1>5 DEF Qoder!BeforeThinking, Buffered
  <2>2. \A g \in Tags(m) : Qoder!Places(t, g) = {}
    BY <1>0, <1>5
  <2>3. n = Qoder!Safe(t, Tags(m))
    BY <1>0
  <2> HIDE DEF n, m, found
  <2>4. x \in Letters /\ y \in Letters
    <3>1. n \in 0 .. Len(t)
      BY <1>0, <2>3, SafeIn, LettersAre DEF Str
    <3>2. x = Qoder!Upto(t, n) /\ y = Qoder!From(t, n + 1)
      OBVIOUS
    <3> HIDE DEF t, x, y
    <3> QED BY <1>0, <3>1, <3>2, CutAt
  <2>5. x = Qoder!Upto(t, n) /\ y = Qoder!From(t, n + 1) /\ a = Qoder!EmitText(s, x)
    OBVIOUS
  <2> HIDE DEF x, y, a
  <2>6. /\ Plainly(a) /\ SameSettings(a, s)
        /\ Told(a, "text") = Cat(Told(s, "text"), x) /\ Told(a, "thinking") = Told(s, "thinking")
    BY <1>0, <2>4, <2>5, LettersAre, EmitTextTold
  <2>7. /\ Plainly(r) /\ r.buffer = y /\ r.inside = a.inside /\ r.tag = a.tag
        /\ \A k : Told(r, k) = Told(a, k)
    BY <2>1, <2>4, <2>6, BufferedTold
  <2>8. Ready(r) /\ ToldMore(r, s, x) /\ Mode(r) = m
    BY <1>0, <2>4, <2>6, <2>7 DEF Ready, ToldMore, Mode, SameSettings
  <2>9. Even(r, s) /\ Idle(r) /\ Len(r.buffer) <= Len(t)
    BY <1>0, <2>2, <2>3, <2>5, <2>7, <2>8, HoldingBack
  <2> QED BY <2>8, <2>9 DEF Went
<1> QED BY <1>4, <1>5

LEMMA InsideWent ==
  ASSUME NEW s, Ready(s), s.inside, NEW r, r = Qoder!InsideThinking(s)
  PROVE  Went(r, s)
<1> DEFINE t == s.buffer
           m == s.tag
           ends == Qoder!Places(t, m)
           pos == Qoder!Min0(ends)
           n == Qoder!Safe(t, {m})
<1>0. t \in Letters /\ m \in Modes /\ m # <<>> /\ m = Mode(s) /\ Tags(m) = {m} /\ Plainly(s)
  BY DEF Ready, Mode, Tags
<1>1. m \in Letters /\ Len(m) = 3 /\ m \in Tags(m)
  BY <1>0, TagsAre
<1>2. \A i : i \in ends <=> i \in 1 .. Len(t) /\ Sits(t, m, i)
  BY <1>0, <1>1, PlacesAre
<1>3. ends \subseteq Nat
  <2>1. \A i \in 1 .. Len(t) : i \in Nat
    OBVIOUS
  <2> QED BY <1>2, <2>1
<1>4. CASE ends # {}
  <2> DEFINE x == Qoder!Upto(t, pos - 1)
             z == Qoder!From(t, pos + Len(m))
             a == Qoder!EmitThinking(s, x)
             b == Qoder!WithoutBreak(z)
  <2>18. r = Left(ThinkEnded(a), b)
    BY <1>4 DEF Qoder!InsideThinking, Left, ThinkEnded, Null
  <2>7. pos \in 1 .. Len(t) /\ Sits(t, m, pos)
    <3>1. pos \in ends
      BY <1>3, <1>4, Leasts
    <3> QED BY <1>2, <3>1
  <2>8. \A e \in Tags(m) : \A i \in 1 .. pos - 1 : ~Sits(t, e, i)
    <3> SUFFICES ASSUME NEW i \in 1 .. pos - 1, Sits(t, m, i) PROVE FALSE
      BY <1>0
    <3>2. i \in 1 .. Len(t) /\ i < pos
      BY <1>0, <2>7, LettersLen
    <3>3. i \in ends
      BY <1>2, <3>2
    <3>5. pos <= i
      BY <1>3, <3>3, LeastIs
    <3> HIDE DEF pos
    <3> QED BY <2>7, <3>2, <3>5
  <2> HIDE DEF pos, ends
  <2>9. z = Qoder!From(t, pos + 3)
    BY <1>1
  <2>10. x \in Letters /\ z \in Letters
    <3>1. Cuts(t, m, pos, x, z)
      BY <1>0, <1>1, <2>7, <2>9, TagCutAt
    <3> QED BY <3>1 DEF Cuts
  <2>11. a = Qoder!EmitThinking(s, x) /\ x = Qoder!Upto(t, pos - 1) /\ r = Left(ThinkEnded(a), b)
         /\ b = Qoder!WithoutBreak(z)
    BY <2>18
  <2> HIDE DEF a, z, x, b
  <2>12. /\ Plainly(a) /\ SameSettings(a, s)
         /\ Told(a, "thinking") = Cat(Told(s, "thinking"), x) /\ Told(a, "text") = Told(s, "text")
    BY <1>0, <2>10, <2>11, LettersAre, EmitThinkingTold
  <2>17. b \in Letters /\ Len(b) <= Len(z)
    BY <2>10, <2>11, BreakIsNoWord, LettersAre
  <2>13. Plainly(r) /\ r.buffer = b /\ ~r.inside /\ r.tag = a.tag /\ \A k : Told(r, k) = Told(a, k)
    BY <2>11, <2>12, <2>17, LeftTold
  <2>14. Ready(r) /\ ToldMore(r, s, x) /\ Mode(r) = <<>>
    BY <1>0, <2>12, <2>13, <2>17 DEF Ready, ToldMore, Mode, SameSettings
  <2>15. \A w \in Letters : SameWords(Ahead(r, w), Qoder!Scan[Cat(m, Cat(z, w))][m])
    <3> TAKE w \in Letters
    <3> DEFINE u == Cat(z, w)
    <3>1. u \in Letters
      BY <2>10, LettersAre
    <3>2. /\ Qoder!Words(Qoder!Scan[Cat(b, w)][<<>>].text) = Qoder!Words(Qoder!Scan[u][<<>>].text)
          /\ Qoder!Words(Qoder!Scan[Cat(b, w)][<<>>].thinking) = Qoder!Words(Qoder!Scan[u][<<>>].thinking)
      BY <2>10, <2>11, BreakIsNoWord
    <3> HIDE DEF u
    <3>3. Qoder!Scan[Cat(m, u)][m] = Qoder!Scan[u][<<>>]
      BY <1>0, <3>1, ScanCloses
    <3>4. SameWords(Ahead(r, w), Qoder!Scan[Cat(m, u)][m])
      BY <2>13, <2>14, <3>2, <3>3 DEF Ahead, SameWords
    <3> QED BY <3>4 DEF u
  <2>16. Len(r.buffer) <= Len(z)
    BY <2>13, <2>17
  <2> HIDE DEF m
  <2> QED BY <1>0, <1>1, <2>7, <2>8, <2>9, <2>11, <2>14, <2>15, <2>16, TakingTag
<1>5. CASE ends = {}
  <2> DEFINE x == Qoder!Upto(t, n)
             y == Qoder!From(t, n + 1)
             a == Qoder!EmitThinking(s, x)
  <2>1. r = Buffered(a, y)
    BY <1>5 DEF Qoder!InsideThinking, Buffered
  <2>2. \A g \in Tags(m) : Qoder!Places(t, g) = {}
    BY <1>0, <1>5
  <2>3. n = Qoder!Safe(t, Tags(m))
    BY <1>0
  <2> HIDE DEF n, ends
  <2>4. x \in Letters /\ y \in Letters
    <3>1. n \in 0 .. Len(t)
      BY <1>0, <2>3, SafeIn, LettersAre DEF Str
    <3>2. x = Qoder!Upto(t, n) /\ y = Qoder!From(t, n + 1)
      OBVIOUS
    <3> HIDE DEF t, x, y
    <3> QED BY <1>0, <3>1, <3>2, CutAt
  <2>5. x = Qoder!Upto(t, n) /\ y = Qoder!From(t, n + 1) /\ a = Qoder!EmitThinking(s, x)
    OBVIOUS
  <2> HIDE DEF x, y, a
  <2>6. /\ Plainly(a) /\ SameSettings(a, s)
        /\ Told(a, "thinking") = Cat(Told(s, "thinking"), x) /\ Told(a, "text") = Told(s, "text")
    BY <1>0, <2>4, <2>5, LettersAre, EmitThinkingTold
  <2>7. /\ Plainly(r) /\ r.buffer = y /\ r.inside = a.inside /\ r.tag = a.tag
        /\ \A k : Told(r, k) = Told(a, k)
    BY <2>1, <2>4, <2>6, BufferedTold
  <2>8. Ready(r) /\ ToldMore(r, s, x) /\ Mode(r) = m
    BY <1>0, <2>4, <2>6, <2>7 DEF Ready, ToldMore, Mode, SameSettings
  <2> HIDE DEF m
  <2>9. Even(r, s) /\ Idle(r) /\ Len(r.buffer) <= Len(t)
    BY <1>0, <2>2, <2>3, <2>5, <2>7, <2>8, HoldingBack
  <2> QED BY <2>8, <2>9 DEF Went
<1> QED BY <1>4, <1>5

LEMMA RoundWent ==
  ASSUME NEW s, Ready(s), NEW r, r = Qoder!Round(s)
  PROVE  Went(r, s)
<1>1. \A q : Ready(q) /\ q.buffer = <<>> => Went(q, q)
  <2> SUFFICES ASSUME NEW q, Ready(q), q.buffer = <<>> PROVE Went(q, q)
    OBVIOUS
  <2>1. Len(q.buffer) = 0 /\ Len(q.buffer) <= Len(q.buffer)
    OBVIOUS
  <2>2. Idle(q)
    BY <2>1 DEF Idle
  <2> QED BY <2>1, <2>2 DEF Went, Even
<1> DEFINE b == IF s.inside THEN s ELSE Qoder!BeforeThinking(s)
<1>2. r = IF b.inside /\ b.buffer # <<>> THEN Qoder!InsideThinking(b) ELSE b
  BY DEF Qoder!Round
<1>3. CASE s.inside
  <2>1. b = s
    BY <1>3
  <2> HIDE DEF b
  <2>2. CASE s.buffer = <<>>
    BY <1>1, <1>2, <2>1, <2>2
  <2>3. CASE s.buffer # <<>>
    BY <1>2, <1>3, <2>1, <2>3, InsideWent
  <2> QED BY <2>2, <2>3
<1>4. CASE ~s.inside
  <2>1. Went(b, s)
    BY <1>4, BeforeWent
  <2> HIDE DEF b
  <2>2. CASE b.inside /\ b.buffer # <<>>
    <3>1. Ready(b)
      BY <2>1 DEF Went
    <3>2. Went(r, b)
      BY <1>2, <2>2, <3>1, InsideWent
    <3> QED BY <2>1, <3>2, WentTwice
  <2>3. CASE ~(b.inside /\ b.buffer # <<>>)
    <3>1. r = b
      BY <1>2, <2>3
    <3> QED BY <2>1, <3>1
  <2> QED BY <2>2, <2>3
<1> QED BY <1>3, <1>4
----------------------------------------------------------------------------
(* The rounds of a chunk: each one takes a tag, or nothing is left to take.   *)
LEMMA LoopedWent ==
  ASSUME NEW s, Ready(s), NEW r, r = Looped(s, 1 .. Len(s.buffer))
  PROVE  Ready(r) /\ Even(r, s) /\ Idle(r)
<1> DEFINE k == Len(s.buffer)
<1>1. k \in Nat
  BY ReadyLen
<1>2. r = Looped(s, 1 .. k)
  OBVIOUS
<1> HIDE DEF k
<1>3. PICK h : Runs(h, s, k) /\ r = h[k]
  BY <1>1, <1>2, LoopedRuns
<1> DEFINE Sofar(q, n) == Ready(q) /\ Even(q, s) /\ (Idle(q) \/ Len(q.buffer) + n <= k)
           T == {n \in Nat : n <= k => Sofar(h[n], n)}
<1>4. 0 \in T
  <2>1. h[0] = s
    BY <1>3 DEF Runs
  <2>2. Len(s.buffer) + 0 <= k
    BY <1>1 DEF k
  <2>3. Sofar(s, 0)
    BY <2>2 DEF Even
  <2> HIDE DEF Sofar
  <2>4. Sofar(h[0], 0)
    BY <2>1, <2>3
  <2> QED BY <2>4
<1>5. ASSUME NEW n \in Nat, n \in T PROVE n + 1 \in T
  <2> HIDE DEF Sofar
  <2> SUFFICES ASSUME n + 1 <= k PROVE Sofar(h[n + 1], n + 1)
    OBVIOUS
  <2>0. Sofar(h[n], n)
    BY <1>1, <1>5
  <2> USE DEF Sofar
  <2>1. n + 1 \in 1 .. k /\ (n + 1) - 1 = n /\ n <= k
    BY <1>1
  <2>2. h[n + 1] = Qoder!Round(h[n])
    BY <1>3, <2>1 DEF Runs
  <2>3. Sofar(h[n], n)
    BY <1>5, <2>1
  <2>4. Went(h[n + 1], h[n])
    BY <2>2, <2>3, RoundWent
  <2>5. Ready(h[n + 1]) /\ Even(h[n + 1], s)
    BY <2>3, <2>4, EvenTwice DEF Went
  <2>6. Len(h[n].buffer) \in Nat /\ Len(h[n + 1].buffer) \in Nat
    BY <2>3, <2>5, ReadyLen
  <2>7. Idle(h[n + 1]) \/ Len(h[n + 1].buffer) + (n + 1) <= k
    <3> SUFFICES ASSUME ~Idle(h[n + 1]) PROVE Len(h[n + 1].buffer) + (n + 1) <= k
      OBVIOUS
    <3>1. Len(h[n + 1].buffer) < Len(h[n].buffer) /\ ~Idle(h[n])
      BY <2>4 DEF Went
    <3>2. Len(h[n].buffer) + n <= k
      BY <2>3, <3>1
    <3>3. \A a, b \in Nat : a < b /\ b + n <= k => a + (n + 1) <= k
      BY <1>1
    <3> QED BY <2>6, <3>1, <3>2, <3>3
  <2> QED BY <2>5, <2>7
<1> HIDE DEF T, Sofar
<1>6. Sofar(r, k)
  <2>1. k \in T
    BY <1>1, <1>4, <1>5, CountUp
  <2> QED BY <1>1, <1>3, <2>1 DEF T
<1>7. Ready(r) /\ Even(r, s) /\ (Idle(r) \/ Len(r.buffer) + k <= k)
  BY <1>6 DEF Sofar
<1>8. Idle(r)
  <2> SUFFICES ASSUME Len(r.buffer) + k <= k PROVE Idle(r)
    BY <1>7
  <2>1. Len(r.buffer) \in Nat
    BY <1>7, ReadyLen
  <2>2. Len(r.buffer) = 0
    BY <1>1, <2>1
  <2> QED BY <2>2 DEF Idle
<1> QED BY <1>7, <1>8

LEMMA ChunkTold ==
  ASSUME NEW s, Ready(s), NEW t \in Letters, NEW r, r = Qoder!ProcessChunk(s, t)
  PROVE  /\ Ready(r) /\ Idle(r)
         /\ \A w \in Letters : /\ TextOf(r, w) = TextOf(s, Cat(t, w))
                              /\ ThoughtsOf(r, w) = ThoughtsOf(s, Cat(t, w))
<1> DEFINE b == Cat(s.buffer, t)
           q == Buffered(s, b)
<1>1. r = Qoder!Rounds(q)
  BY DEF Qoder!ProcessChunk, Buffered, Cat
<1>2. b \in Letters /\ q = Buffered(s, b) /\ Plainly(s)
  BY LettersAre DEF Ready
<1>3. \A w \in Letters : Cat(b, w) = Cat(s.buffer, Cat(t, w))
  <2> TAKE w \in Letters
  <2>1. s.buffer \in Str /\ t \in Str /\ w \in Str
    BY LettersAre DEF Ready
  <2> QED BY <2>1, CatTyped
<1> HIDE DEF b, q
<1>4. /\ Plainly(q) /\ q.buffer = b /\ q.inside = s.inside /\ q.tag = s.tag
      /\ \A k : Told(q, k) = Told(s, k)
  BY <1>2, BufferedTold
<1>5. Ready(q) /\ Mode(q) = Mode(s)
  BY <1>2, <1>4 DEF Ready, Mode
<1>6. \A w \in Letters : /\ TextOf(q, w) = TextOf(s, Cat(t, w))
                         /\ ThoughtsOf(q, w) = ThoughtsOf(s, Cat(t, w))
  BY <1>3, <1>4, <1>5 DEF TextOf, ThoughtsOf, Ahead
<1>7. r = Looped(q, 1 .. Len(q.buffer))
  <2>1. DOMAIN q.buffer = 1 .. Len(q.buffer)
    BY <1>5 DEF Ready, Letters
  <2> QED BY <1>1, <2>1, RoundsAreLooped
<1>8. Ready(r) /\ Even(r, q) /\ Idle(r)
  BY <1>5, <1>7, LoopedWent
<1> QED BY <1>6, <1>8 DEF Even

(* While no tag is held back, what is held back is read as it is.             *)
Shown(s, k) == IF s.inside <=> k = "thinking" THEN Cat(Told(s, k), s.buffer) ELSE Told(s, k)
LEMMA IdleTells ==
  ASSUME NEW s, Ready(s), Idle(s)
  PROVE  /\ Qoder!Words(Shown(s, "text")) = TextOf(s, <<>>)
         /\ Qoder!Words(Shown(s, "thinking")) = ThoughtsOf(s, <<>>)
<1> DEFINE m == Mode(s)
           b == s.buffer
           e == <<>>
           none == [text |-> e, thinking |-> e]
           x == Told(s, "text")
           y == Told(s, "thinking")
<1>1. m \in Modes /\ b \in Letters /\ e \in Letters
  BY ModeTyped, LettersAre DEF Ready
<1>2. x \in Str /\ y \in Str /\ b \in Str /\ e \in Str
  BY <1>1, ToldTyped, LettersAre DEF Ready, Plainly, Parsing, Kept
<1>3. Cat(b, e) = b
  BY <1>2, CatTyped
<1>4. Clear(b, e, m)
  BY <1>3 DEF Idle, Clear
<1>5. Qoder!Scan[b][m] = Put(m, b, none)
  <2>1. Qoder!Scan[e][m] = none
    BY <1>1, ScanEmpty
  <2>2. Qoder!Scan[Cat(b, e)][m] = Put(m, b, Qoder!Scan[e][m])
    BY <1>1, <1>4, Skip
  <2> QED BY <1>3, <2>1, <2>2
<1>6. Ahead(s, <<>>) = Put(m, b, none)
  BY <1>3, <1>5 DEF Ahead
<1>7. s.inside <=> m # <<>>
  BY DEF Mode, Ready
<1>8. Qoder!Words(e) = e
  BY WordsOfNone
<1>9. \A k, l \in Str : Qoder!Words(Cat(k, l)) = Cat(Qoder!Words(k), Qoder!Words(l)) /\ Qoder!Words(k) \in Str
  BY WordsJoined, WordsTyped
<1>10. \A k \in Str : Cat(k, e) = k /\ Cat(e, k) = k
  BY CatTyped
<1>11. CASE s.inside
  <2>1. Ahead(s, <<>>).text = e /\ Ahead(s, <<>>).thinking = b
    BY <1>3, <1>6, <1>7, <1>11 DEF Put
  <2>2. Shown(s, "text") = x /\ Shown(s, "thinking") = Cat(y, b)
    BY <1>11 DEF Shown
  <2> HIDE DEF x, y, b, e
  <2>3. TextOf(s, <<>>) = Cat(Qoder!Words(x), e) /\ ThoughtsOf(s, <<>>) = Cat(Qoder!Words(y), Qoder!Words(b))
    BY <1>8, <2>1 DEF TextOf, ThoughtsOf, x, y
  <2> QED BY <1>2, <1>9, <1>10, <2>2, <2>3
<1>12. CASE ~s.inside
  <2>1. Ahead(s, <<>>).text = b /\ Ahead(s, <<>>).thinking = e
    BY <1>3, <1>6, <1>7, <1>12 DEF Put
  <2>2. Shown(s, "text") = Cat(x, b) /\ Shown(s, "thinking") = y
    BY <1>12 DEF Shown
  <2> HIDE DEF x, y, b, e
  <2>3. TextOf(s, <<>>) = Cat(Qoder!Words(x), Qoder!Words(b)) /\ ThoughtsOf(s, <<>>) = Cat(Qoder!Words(y), e)
    BY <1>8, <2>1 DEF TextOf, ThoughtsOf, x, y
  <2> QED BY <1>2, <1>9, <1>10, <2>2, <2>3
<1> QED BY <1>11, <1>12
----------------------------------------------------------------------------
(* Nothing was told, and the parser holds what it held.                       *)
Alike(r, s) == Kept(r) /\ SameParse(r, s) /\ (OpenThoughtInv(s) => OpenThoughtInv(r))
               /\ \A k : Told(r, k) = Told(s, k)

LEMMA AlikeTwice == ASSUME NEW s, NEW q, NEW r, Alike(q, s), Alike(r, q) PROVE Alike(r, s)
<1>1. \A k : Told(r, k) = Told(s, k)
  BY DEF Alike
<1>2. SameParse(r, s)
  BY DEF Alike, SameParse
<1> QED BY <1>1, <1>2 DEF Alike

LEMMA CalledAlike ==
  ASSUME NEW s, Kept(s), NEW i \in Tool, NEW some, NEW r, r = Qoder!Called(s, i, some)
  PROVE  Alike(r, s)
<1> DEFINE k == Named(s, i)
           b == IF s.calls[i].at = Null THEN Begun(k, i) ELSE k
<1>1. /\ Kept(k) /\ k.content = s.content /\ SameParse(k, s)
      /\ \A j \in Tool : k.calls[j].at = s.calls[j].at
  BY NamedKept
<1>2. r = IF ~some THEN k ELSE Piece(b, i, b.calls[i].at)
  <2>1. Qoder!Here(s) = Qoder!Here(k)
    BY <1>1 DEF Qoder!Here
  <2> QED BY <2>1 DEF Qoder!Called, Qoder!Opens, Named, Begun, Piece, Null
<1>3. b = IF s.calls[i].at = Null THEN Begun(k, i) ELSE k
  OBVIOUS
<1> HIDE DEF k, b
<1>4. s \in StreamRecord /\ k \in StreamRecord
  BY <1>1 DEF Kept
<1>5. Alike(k, s)
  <2>1. \A l : Told(k, l) = Told(s, l)
    BY <1>1, <1>4, ToldAlike
  <2>2. OpenThoughtInv(s) => OpenThoughtInv(k)
    BY <1>1 DEF OpenThoughtInv, SameParse
  <2> QED BY <1>1, <2>1, <2>2 DEF Alike
<1>6. Alike(b, k) /\ b.calls[i].at # Null
  <2>1. CASE s.calls[i].at = Null
    <3>1. b = Begun(k, i) /\ k.calls[i].at = Null
      BY <1>1, <1>3, <2>1
    <3>2. Kept(b) /\ b.calls[i].at = Qoder!Here(k) /\ SameParse(b, k) /\ Appends(b, k, "toolCall")
      BY <1>1, <3>1, BegunKept
    <3>3. Qoder!Here(k) # Null
      BY <1>1, LenOfContent, NullIs DEF Kept, Qoder!Here
    <3>4. b \in StreamRecord
      BY <3>2 DEF Kept
    <3>5. ASSUME NEW l PROVE Told(b, l) = Told(k, l)
      <4> DEFINE p == Len(k.content) + 1
      <4>1. /\ p \in 1 .. Len(k.content) + 1 /\ Len(b.content) = Len(k.content) + 1
            /\ b.content[p].body = <<>>
            /\ \A n \in 1 .. p - 1 : b.content[n] = k.content[n]
            /\ \A n \in p + 1 .. Len(k.content) + 1 : b.content[n] = k.content[n - 1]
        BY <3>2 DEF Appends
      <4> HIDE DEF p
      <4> QED BY <1>4, <3>4, <4>1, ToldPut
    <3>6. OpenThoughtInv(k) => OpenThoughtInv(b)
      BY <3>2 DEF OpenThoughtInv, SameParse, Appends
    <3> QED BY <3>2, <3>3, <3>5, <3>6 DEF Alike
  <2>2. CASE s.calls[i].at # Null
    BY <1>1, <1>3, <2>2 DEF Alike, SameParse
  <2> QED BY <2>1, <2>2
<1>7. Alike(b, s)
  BY <1>5, <1>6, AlikeTwice
<1>8. CASE ~some
  BY <1>2, <1>5, <1>8
<1>9. CASE some
  <2> DEFINE p == b.calls[i].at
  <2>1. p = b.calls[i].at /\ p # Null /\ r = Piece(b, i, p) /\ Kept(b)
    BY <1>2, <1>6, <1>9 DEF Alike
  <2> HIDE DEF p
  <2>2. Kept(r) /\ SameParse(r, b) /\ SameBodies(r, b)
    BY <2>1, PieceKept
  <2>3. \A l : Told(r, l) = Told(b, l)
    BY <2>1, <2>2, ToldSame DEF Kept, SameBodies
  <2>4. OpenThoughtInv(b) => OpenThoughtInv(r)
    BY <2>2 DEF OpenThoughtInv, SameParse, SameBodies
  <2>5. Alike(r, b)
    BY <2>2, <2>3, <2>4 DEF Alike
  <2> QED BY <1>7, <2>5, AlikeTwice
<1> QED BY <1>8, <1>9

----------------------------------------------------------------------------
(* What was told so far, and what is to come after it, is the reading of the  *)
(* whole text.                                                                *)
Whole(t) == Qoder!Scan[t][<<>>]
Read(s, t) ==
  /\ Ready(s) /\ Idle(s)
  /\ \A w \in Letters : /\ TextOf(s, w) = Qoder!Words(Whole(Cat(t, w)).text)
                        /\ ThoughtsOf(s, w) = Qoder!Words(Whole(Cat(t, w)).thinking)

LEMMA FreshRead ==
  ASSUME NEW thinking \in BOOLEAN, NEW r, r = Qoder!Fresh(thinking), r.parser
  PROVE  Read(r, <<>>)
<1> DEFINE e == <<>>
<1>1. Kept(r)
  BY FreshKept
<1>2. r.content = e /\ r.buffer = e /\ ~r.inside /\ ~r.native /\ r.think = Null
      /\ r.tag = (CHOOSE v \in Qoder!Variants : v.open[2] = "t").close
  BY DEF Qoder!Fresh, Null
<1>3. r.tag \in Modes /\ r.tag # <<>>
  <2>1. \E v \in Qoder!Variants : v.open[2] = "t"
    BY DEF Qoder!Variants
  <2>2. (CHOOSE v \in Qoder!Variants : v.open[2] = "t") \in Qoder!Variants
    BY <2>1
  <2> QED BY <1>2, <2>2, ModesAre
<1>4. Ready(r)
  <2>1. OpenThoughtInv(r)
    BY <1>2 DEF OpenThoughtInv
  <2> QED BY <1>1, <1>2, <1>3, <2>1, LettersAre DEF Ready, Plainly, Parsing
<1>5. Idle(r)
  BY <1>2 DEF Idle
<1>6. Mode(r) = e
  BY <1>2 DEF Mode
<1>7. ASSUME NEW k PROVE Told(r, k) = e
  <2>1. Len(Parts(r, k)) = 0
    BY <1>1, <1>2, PartsTyped DEF Kept
  <2>2. Parts(r, k) \in Seq(Str)
    BY <1>1, PartsTyped DEF Kept
  <2>3. Parts(r, k) = e
    BY <2>1, <2>2
  <2> QED BY <2>1, <2>3, FlatEmpty DEF Told
<1>8. ASSUME NEW w \in Letters
      PROVE  /\ TextOf(r, w) = Qoder!Words(Whole(Cat(e, w)).text)
             /\ ThoughtsOf(r, w) = Qoder!Words(Whole(Cat(e, w)).thinking)
  <2>1. Ahead(r, w) = Whole(Cat(e, w))
    BY <1>2, <1>6 DEF Ahead, Whole
  <2>2. Whole(Cat(e, w)).text \in Str /\ Whole(Cat(e, w)).thinking \in Str
    <3>1. Cat(e, w) \in Letters /\ e \in Modes
      BY LettersAre, ModesAre
    <3>2. Whole(Cat(e, w)) \in Answer
      BY <3>1, ScanTyped DEF Whole
    <3> HIDE DEF e
    <3> QED BY <3>2, LettersAre DEF Answer
  <2>3. Qoder!Words(e) = e
    BY WordsOfNone
  <2>4. \A x \in Str : Qoder!Words(x) \in Str /\ Cat(e, Qoder!Words(x)) = Qoder!Words(x)
    BY WordsTyped, CatTyped
  <2> HIDE DEF e
  <2> QED BY <1>7, <2>1, <2>2, <2>3, <2>4 DEF TextOf, ThoughtsOf
<1> QED BY <1>4, <1>5, <1>8 DEF Read

LEMMA ChunkRead ==
  ASSUME NEW s, NEW t \in Letters, Read(s, t), NEW u \in Letters, NEW r, r = Qoder!ProcessChunk(s, u)
  PROVE  Read(r, Cat(t, u))
<1>1. /\ Ready(r) /\ Idle(r)
      /\ \A w \in Letters : /\ TextOf(r, w) = TextOf(s, Cat(u, w))
                            /\ ThoughtsOf(r, w) = ThoughtsOf(s, Cat(u, w))
  BY ChunkTold DEF Read
<1>2. ASSUME NEW w \in Letters
      PROVE  /\ TextOf(r, w) = Qoder!Words(Whole(Cat(Cat(t, u), w)).text)
             /\ ThoughtsOf(r, w) = Qoder!Words(Whole(Cat(Cat(t, u), w)).thinking)
  <2>1. Cat(t, Cat(u, w)) = Cat(Cat(t, u), w) /\ Cat(u, w) \in Letters
    <3>1. t \in Str /\ u \in Str /\ w \in Str
      BY LettersAre
    <3> QED BY <3>1, CatTyped, LettersAre
  <2> QED BY <1>1, <2>1 DEF Read
<1> QED BY <1>1, <1>2 DEF Read

LEMMA AlikeRead ==
  ASSUME NEW s, NEW t, Read(s, t), NEW r, Alike(r, s)
  PROVE  Read(r, t)
<1>1. Mode(r) = Mode(s) /\ r.buffer = s.buffer
  BY DEF Mode, Alike, SameParse
<1>2. Ready(r)
  BY DEF Read, Ready, Plainly, Parsing, Alike, SameParse
<1>3. \A w \in Letters : TextOf(r, w) = TextOf(s, w) /\ ThoughtsOf(r, w) = ThoughtsOf(s, w)
  BY <1>1 DEF TextOf, ThoughtsOf, Ahead, Alike
<1>4. Idle(r)
  BY <1>1 DEF Idle, Read
<1> QED BY <1>2, <1>3, <1>4 DEF Read
----------------------------------------------------------------------------
(* The invariant: as long as the tags are parsed, all of the answer that came *)
(* was read as the reference reads the whole of it.                           *)
CutInv ==
  /\ wire \in Letters /\ seen \in Letters
  /\ step # "over" /\ st.parser /\ ~st.native => Read(st, seen)

LEMMA TextsAreLetters == Texts \subseteq Letters
<1> DEFINE Bit == Seq(Qoder!Letter)
           L == Qoder!Letter
<1>1. "a" \in L /\ "n" \in L /\ "<" \in L /\ ">" \in L /\ "t" \in L /\ "T" \in L /\ "r" \in L
  BY DEF Qoder!Letter
<1> HIDE DEF L
<1>2. \A a \in L : <<a>> \in Seq(L)
  OBVIOUS
<1>3. \A a, b, c \in L : <<a, b, c>> \in Seq(L)
  OBVIOUS
<1>4. \A a, b, c, d, e, f \in L : <<a, b, c, d, e, f>> \in Seq(L)
  OBVIOUS
<1>5. \A u, v \in Bit : u \o v \in Bit
  OBVIOUS
<1>6. <<"a">> \in Bit /\ <<"<">> \in Bit /\ Thought("t") \in Bit /\ Thought("r") \in Bit
      /\ <<"<", "T", ">">> \in Bit
  BY <1>1, <1>2, <1>3 DEF Thought, L
<1>7. <<"<", "T", ">", "n", "n", "a">> \in Bit
  BY <1>1, <1>4 DEF L
<1>8. <<>> \in Bit
  OBVIOUS
<1> HIDE DEF Bit
<1> DEFINE Insides == {<<"a">>, <<"<">>}
           Endings == {<<>>, <<"<", "T", ">", "n", "n", "a">>, <<"<", "T", ">">> \o Thought("r") \o <<"a">>}
<1>9. \A u \in Insides : u \in Bit
  BY <1>6
<1>10. \A u \in Endings : u \in Bit
  <2>1. <<"<", "T", ">">> \o Thought("r") \o <<"a">> \in Bit
    BY <1>5, <1>6
  <2> QED BY <1>7, <1>8, <2>1
<1>11. <<"a">> \o Thought("t") \in Bit
  BY <1>5, <1>6
<1>12. Texts = {<<"a">> \o Thought("t") \o inside \o ending : inside \in Insides, ending \in Endings}
  BY DEF Texts
<1> HIDE DEF Insides, Endings
<1>13. \A u \in Insides, v \in Endings : <<"a">> \o Thought("t") \o u \o v \in Bit
  BY <1>5, <1>9, <1>10, <1>11
<1> SUFFICES ASSUME NEW u \in Texts PROVE u \in Bit
  BY DEF Bit, Letters
<1>14. PICK x \in Insides, y \in Endings : u = <<"a">> \o Thought("t") \o x \o y
  BY <1>12
<1> QED BY <1>13, <1>14

LEMMA CutStarts == Qoder!Init => CutInv
<1> SUFFICES ASSUME Qoder!Init PROVE CutInv
  OBVIOUS
<1>1. PICK thinking \in BOOLEAN : st = Qoder!Fresh(thinking)
  BY DEF Qoder!Init
<1>2. wire \in Letters /\ seen = <<>> /\ seen \in Letters
  BY TextsAreLetters, LettersAre DEF Qoder!Init
<1> QED BY <1>1, <1>2, FreshRead DEF CutInv

LEMMA CutText == ASSUME QoderInv, CutInv, Qoder!Text PROVE CutInv'
<1>1. last = "none" /\ step # "over" /\ step' = step /\ Kept(st)
  BY DEF QoderInv, Qoder!Text
<1>2. PICK n \in 1 .. MaxPiece :
        /\ n <= Len(wire) /\ seen' = seen \o Qoder!Upto(wire, n) /\ wire' = Qoder!From(wire, n + 1)
        /\ st' = Qoder!Said(st, Qoder!Upto(wire, n))
  BY DEF Qoder!Text
<1> DEFINE u == Qoder!Upto(wire, n)
<1>3. u \in Letters /\ wire' \in Letters /\ n \in Nat
  <2>1. n \in 0 .. Len(wire)
    <3>1. Len(wire) \in Nat
      BY LettersLen DEF CutInv
    <3> QED BY <1>2, <3>1
  <2> DEFINE y == wire'
  <2>2. u = Qoder!Upto(wire, n) /\ y = Qoder!From(wire, n + 1) /\ wire \in Letters
    BY <1>2 DEF CutInv
  <2> HIDE DEF u, y
  <2>3. u \in Letters /\ y \in Letters
    BY <2>1, <2>2, CutAt
  <2> QED BY <2>1, <2>3 DEF y
<1>4. seen' = Cat(seen, u) /\ st' = Qoder!Said(st, u)
  BY <1>2 DEF Cat
<1> HIDE DEF u
<1>5. seen' \in Letters
  BY <1>3, <1>4, LettersAre DEF CutInv
<1>6. st'.parser = st.parser /\ st'.native = st.native
  <2>1. u \in Seq(Char)
    BY <1>3, LettersAre DEF Str
  <2> QED BY <1>1, <1>4, <2>1, SaidKept
<1>7. ASSUME st.parser, ~st.native PROVE Read(st', seen')
  <2>1. st.reasoning = Null
    BY <1>1, <1>7 DEF Kept, MarksInv
  <2>2. Qoder!ReasoningClosed(st) = st
    BY <2>1 DEF Qoder!ReasoningClosed, Null
  <2>3. st' = Qoder!ProcessChunk(st, u)
    BY <1>4, <1>7, <2>2 DEF Qoder!Said
  <2>4. Read(st, seen) /\ seen \in Letters
    BY <1>1, <1>7 DEF CutInv
  <2> QED BY <1>3, <1>4, <2>3, <2>4, ChunkRead
<1> QED BY <1>3, <1>5, <1>6, <1>7 DEF CutInv

LEMMA CutOther == ASSUME QoderInv, CutInv, Qoder!Other PROVE CutInv'
<1>1. last = "none" /\ step # "over" /\ Kept(st) /\ wire' = wire /\ seen' = seen
  BY DEF QoderInv, Qoder!Other
<1>2. CASE st' = Qoder!Reasoned(st, <<"x">>)
  <2> DEFINE t == <<"x">>
  <2>1. t \in Seq(Char) /\ st' = Qoder!Reasoned(st, t)
    BY <1>2 DEF Char
  <2> HIDE DEF t
  <2>2. st'.native
    BY <1>1, <2>1, ReasonedKept
  <2> QED BY <1>1, <2>2 DEF CutInv
<1>3. CASE \E i \in Tool, some \in BOOLEAN : st' = Qoder!Called(st, i, some)
  <2>1. Alike(st', st)
    BY <1>1, <1>3, CalledAlike
  <2>2. st'.parser = st.parser /\ st'.native = st.native
    BY <2>1 DEF Alike, SameParse
  <2> QED BY <1>1, <2>1, <2>2, AlikeRead DEF CutInv
<1> QED BY <1>2, <1>3 DEF Qoder!Other

LEMMA CutStep == QoderInv /\ CutInv /\ (Qoder!Next \/ UNCHANGED streamVars) => CutInv'
<1> SUFFICES ASSUME QoderInv, CutInv, Qoder!Next \/ UNCHANGED streamVars PROVE CutInv'
  OBVIOUS
<1>1. CASE step # "over" /\ Qoder!Breaks
  BY <1>1 DEF CutInv, Qoder!Breaks
<1>2. CASE step # "over" /\ UNCHANGED <<wire, seen, st, others, reason, last, mixed>>
  BY <1>2 DEF CutInv
<1>3. CASE Qoder!Finish
  BY <1>3 DEF CutInv, Qoder!Finish
<1>4. CASE UNCHANGED streamVars
  BY <1>4 DEF CutInv, streamVars
<1>5. CASE Qoder!Done
  BY <1>5 DEF CutInv, Qoder!Done
<1> QED BY <1>1, <1>2, <1>3, <1>4, <1>5, CutText, CutOther
        DEF Qoder!Next, Qoder!Setup, Qoder!Fetch, Qoder!BreaksOff

LEMMA ReadTells == QoderInv /\ CutInv => Qoder!CutDoesNotMatter
<1> SUFFICES ASSUME QoderInv, CutInv, step = "read", st.parser, ~st.native
             PROVE  LET ref == Qoder!Scan[seen][<<>>]
                    IN /\ Qoder!Words(Qoder!Bodies("text") \o (IF st.inside THEN <<>> ELSE st.buffer))
                            = Qoder!Words(ref.text)
                       /\ Qoder!Words(Qoder!Bodies("thinking") \o (IF st.inside THEN st.buffer ELSE <<>>))
                            = Qoder!Words(ref.thinking)
  BY DEF Qoder!CutDoesNotMatter
<1>1. Read(st, seen) /\ seen \in Letters /\ <<>> \in Letters
  BY LettersAre DEF CutInv
<1>2. Ready(st) /\ Idle(st) /\ Kept(st)
  BY <1>1 DEF Read, Ready, Plainly, Parsing
<1>3. DOMAIN st.content = 1 .. Len(st.content)
  BY <1>2, KeptKinds
<1>4. \A k : Qoder!Bodies(k) = Told(st, k) /\ Told(st, k) \in Str
  BY <1>2, <1>3, ToldTyped DEF Qoder!Bodies, Told, Parts, Part, Kept
<1>5. /\ Qoder!Words(Shown(st, "text")) = TextOf(st, <<>>)
      /\ Qoder!Words(Shown(st, "thinking")) = ThoughtsOf(st, <<>>)
  BY <1>2, IdleTells
<1>6. /\ TextOf(st, <<>>) = Qoder!Words(Whole(Cat(seen, <<>>)).text)
      /\ ThoughtsOf(st, <<>>) = Qoder!Words(Whole(Cat(seen, <<>>)).thinking)
  BY <1>1 DEF Read
<1>7. Cat(seen, <<>>) = seen
  BY <1>1, LettersAre, CatTyped
<1>8. /\ Qoder!Bodies("text") \o (IF st.inside THEN <<>> ELSE st.buffer) = Shown(st, "text")
      /\ Qoder!Bodies("thinking") \o (IF st.inside THEN st.buffer ELSE <<>>) = Shown(st, "thinking")
  <2> DEFINE x == Told(st, "text")
             y == Told(st, "thinking")
  <2>1. Cat(x, <<>>) = x /\ Cat(y, <<>>) = y /\ Qoder!Bodies("text") = x /\ Qoder!Bodies("thinking") = y
    BY <1>4, CatTyped
  <2>2. Shown(st, "text") = (IF st.inside THEN x ELSE Cat(x, st.buffer))
        /\ Shown(st, "thinking") = (IF st.inside THEN Cat(y, st.buffer) ELSE y)
    BY <1>2 DEF Shown
  <2> HIDE DEF x, y
  <2>3. CASE st.inside
    BY <2>1, <2>2, <2>3 DEF Cat
  <2>4. CASE ~st.inside
    BY <2>1, <2>2, <2>4 DEF Cat
  <2> QED BY <2>3, <2>4
<1> QED BY <1>5, <1>6, <1>7, <1>8 DEF Whole

----------------------------------------------------------------------------
(* Kilo: what a text says is read in one pass, token by token.                *)
Token == {"tool", "/tool", "name", "/name", "p", "/p", "q", "/q", "w", "call"}
Tokens == Seq(Token)

Folding(t, D) ==
  LET iter[S \in SUBSET D] ==
        IF S = {} THEN Kilo!Nothing ELSE LET x == Kilo!Max(S) IN Kilo!Take(iter[S \ {x}], t[x])
  IN iter[D]
LEMMA BlocksAreFolded == ASSUME NEW t PROVE Kilo!Blocks(t) = Folding(t, DOMAIN t)
BY DEF Kilo!Blocks, Kilo!FoldLeft, Kilo!MapThenFoldSet, Folding

Passes(h, t, k) == h[0] = Kilo!Nothing /\ \A n \in 1 .. k : h[n] = Kilo!Take(h[n - 1], t[n])
Folds(g, t, D, c) ==
  \A S \in SUBSET D : Cardinality(S) <= c =>
    g[S] = IF S = {} THEN Kilo!Nothing ELSE Kilo!Take(g[S \ {Kilo!Max(S)}], t[Kilo!Max(S)])

LEMMA FoldsExist ==
  ASSUME NEW t, NEW k \in Nat, NEW c \in Nat
  PROVE  \E g : Folds(g, t, 1 .. k, c) /\ DOMAIN g = SUBSET (1 .. k)
<1> DEFINE D == 1 .. k
           Step(g) == [S \in SUBSET D |-> IF S = {} THEN Kilo!Nothing
                                          ELSE Kilo!Take(g[S \ {Kilo!Max(S)}], t[Kilo!Max(S)])]
           T == {n \in Nat : \E g : Folds(g, t, D, n) /\ DOMAIN g = SUBSET D}
<1>1. \A S \in SUBSET D : IsFiniteSet(S) /\ Cardinality(S) \in Nat
  <2>1. IsFiniteSet(D)
    BY FS_Interval
  <2> HIDE DEF D
  <2> QED BY <2>1, FS_Subset, FS_CardinalityType
<1>2. \A S \in SUBSET D : S # {} =>
        /\ S \ {Kilo!Max(S)} \in SUBSET D /\ Cardinality(S \ {Kilo!Max(S)}) = Cardinality(S) - 1
  <2> SUFFICES ASSUME NEW S \in SUBSET D, S # {}
               PROVE  Cardinality(S \ {Kilo!Max(S)}) = Cardinality(S) - 1
    OBVIOUS
  <2>1. Qoder!Max0(S) \in S
    <3>1. S \subseteq 0 .. k
      OBVIOUS
    <3> QED BY <3>1, Mosts
  <2>2. Kilo!Max(S) \in S
    BY <2>1 DEF Kilo!Max, Qoder!Max0
  <2> QED BY <1>1, <2>2, FS_RemoveElement
<1>3. 0 \in T
  <2> DEFINE g == [S \in SUBSET D |-> Kilo!Nothing]
  <2>1. \A S \in SUBSET D : Cardinality(S) <= 0 => S = {}
    BY <1>1, FS_EmptySet
  <2>2. g[{}] = Kilo!Nothing
    OBVIOUS
  <2> HIDE DEF g, D
  <2>3. Folds(g, t, D, 0)
    BY <2>1, <2>2 DEF Folds
  <2>4. DOMAIN g = SUBSET D
    BY DEF g
  <2> QED BY <2>3, <2>4
<1>4. ASSUME NEW n \in Nat, n \in T PROVE n + 1 \in T
  <2>1. PICK g : Folds(g, t, D, n) /\ DOMAIN g = SUBSET D
    BY <1>4
  <2> DEFINE f == Step(g)
  <2>2. \A S \in SUBSET D : f[S] = IF S = {} THEN Kilo!Nothing
                                   ELSE Kilo!Take(g[S \ {Kilo!Max(S)}], t[Kilo!Max(S)])
    OBVIOUS
  <2>3. DOMAIN f = SUBSET D
    OBVIOUS
  <2> HIDE DEF f, D
  <2>4. \A S \in SUBSET D : Cardinality(S) <= n => f[S] = g[S]
    BY <2>1, <2>2 DEF Folds
  <2>5. Folds(f, t, D, n + 1)
    <3> SUFFICES ASSUME NEW S \in SUBSET D, Cardinality(S) <= n + 1
                 PROVE  f[S] = IF S = {} THEN Kilo!Nothing
                               ELSE Kilo!Take(f[S \ {Kilo!Max(S)}], t[Kilo!Max(S)])
      BY DEF Folds
    <3>1. CASE S = {}
      BY <2>2, <3>1
    <3>2. CASE S # {}
      <4> DEFINE R == S \ {Kilo!Max(S)}
      <4>1. R \in SUBSET D /\ Cardinality(R) = Cardinality(S) - 1 /\ Cardinality(S) \in Nat
        BY <1>1, <1>2, <3>2
      <4>2. Cardinality(R) <= n
        BY <4>1
      <4>3. f[R] = g[R]
        BY <2>4, <4>1, <4>2
      <4> QED BY <2>2, <3>2, <4>3
    <3> QED BY <3>1, <3>2
  <2> QED BY <2>3, <2>5
<1> HIDE DEF T
<1>5. c \in T
  BY <1>3, <1>4, CountUp
<1> QED BY <1>5 DEF T

LEMMA BlocksPass ==
  ASSUME NEW t \in Tokens
  PROVE  \E h : Passes(h, t, Len(t)) /\ Kilo!Blocks(t) = h[Len(t)]
<1> DEFINE k == Len(t)
           D == 1 .. k
           Def(g) == g = [S \in SUBSET D |->
                            IF S = {} THEN Kilo!Nothing
                            ELSE LET x == Kilo!Max(S) IN Kilo!Take(g[S \ {x}], t[x])]
           iter == CHOOSE g : Def(g)
<1>1. k \in Nat /\ DOMAIN t = D
  BY DEF Tokens
<1>2. Kilo!Blocks(t) = iter[D]
  <2>1. Kilo!Blocks(t) = Folding(t, D)
    <3> HIDE DEF D
    <3> QED BY <1>1, BlocksAreFolded
  <2>2. iter = CHOOSE g : Def(g)
    OBVIOUS
  <2> HIDE DEF D, iter
  <2>3. Folding(t, D) = iter[D]
    BY <2>2 DEF Folding
  <2> QED BY <2>1, <2>3
<1>3. \E g : Def(g)
  <2>1. IsFiniteSet(D) /\ Cardinality(D) = k
    <3>1. \A n \in Nat : IsFiniteSet(1 .. n) /\ Cardinality(1 .. n) = n
      BY FS_Interval
    <3> HIDE DEF k
    <3> QED BY <1>1, <3>1
  <2>2. \A S \in SUBSET D : Cardinality(S) <= k
    <3> HIDE DEF D
    <3> QED BY <2>1, FS_Subset
  <2>3. PICK g : Folds(g, t, D, k) /\ DOMAIN g = SUBSET D
    <3> HIDE DEF k
    <3> QED BY <1>1, FoldsExist
  <2> DEFINE f == [S \in SUBSET D |->
                     IF S = {} THEN Kilo!Nothing
                     ELSE LET x == Kilo!Max(S) IN Kilo!Take(g[S \ {x}], t[x])]
  <2>4. \A S \in SUBSET D : f[S] = g[S]
    BY <2>2, <2>3 DEF Folds
  <2>5. \A S \in SUBSET D : f[S] = IF S = {} THEN Kilo!Nothing
                                   ELSE LET x == Kilo!Max(S) IN Kilo!Take(f[S \ {x}], t[x])
    <3> SUFFICES ASSUME NEW S \in SUBSET D, S # {}
                 PROVE  f[S] = LET x == Kilo!Max(S) IN Kilo!Take(f[S \ {x}], t[x])
      OBVIOUS
    <3>1. f[S \ {Kilo!Max(S)}] = g[S \ {Kilo!Max(S)}]
      <4>1. S \ {Kilo!Max(S)} \in SUBSET D
        OBVIOUS
      <4> HIDE DEF f, D
      <4> QED BY <2>4, <4>1
    <3> QED BY <3>1
  <2>6. f = [S \in SUBSET D |-> f[S]]
    OBVIOUS
  <2> HIDE DEF f, D
  <2>7. Def(f)
    BY <2>5, <2>6
  <2> QED BY <2>7
<1>4. Def(iter)
  BY <1>3
<1> HIDE DEF iter
<1>5. \A S \in SUBSET D : iter[S] = IF S = {} THEN Kilo!Nothing
                                    ELSE Kilo!Take(iter[S \ {Kilo!Max(S)}], t[Kilo!Max(S)])
  BY <1>4
<1> HIDE DEF Def
<1> DEFINE h == [n \in 0 .. k |-> iter[1 .. n]]
<1>6. h[0] = Kilo!Nothing
  <2>1. 1 .. 0 = {} /\ {} \in SUBSET D /\ 0 \in 0 .. k
    BY <1>1
  <2> QED BY <1>5, <2>1
<1>7. ASSUME NEW n \in 1 .. k PROVE h[n] = Kilo!Take(h[n - 1], t[n])
  <2>1. 1 .. n \in SUBSET D /\ 1 .. n # {} /\ (1 .. n) \ {n} = 1 .. n - 1 /\ n \in 0 .. k /\ n - 1 \in 0 .. k
    <3>1. n \in Nat /\ n >= 1 /\ n <= k
      BY <1>1
    <3>2. (1 .. n) \ {n} = 1 .. n - 1
      <4>1. \A x \in Int : x >= 1 /\ x <= n /\ x # n <=> x >= 1 /\ x <= n - 1
        BY <3>1
      <4> QED BY <3>1, <4>1
    <3>3. n \in 1 .. n /\ \A x \in 1 .. n : x \in 1 .. k
      BY <1>1, <3>1
    <3> HIDE DEF k
    <3> QED BY <1>1, <3>1, <3>2, <3>3
  <2>2. Kilo!Max(1 .. n) = n
    <3>1. n \in 1 .. n /\ \A x \in 1 .. n : n >= x /\ (x >= n => x = n)
      BY <1>1
    <3> QED BY <3>1 DEF Kilo!Max
  <2>3. iter[1 .. n] = Kilo!Take(iter[(1 .. n) \ {n}], t[n])
    BY <1>5, <2>1, <2>2
  <2> QED BY <2>1, <2>3
<1>8. h[k] = iter[D]
  BY <1>1
<1> HIDE DEF h
<1>9. Passes(h, t, Len(t))
  BY <1>6, <1>7 DEF Passes
<1> QED BY <1>2, <1>8, <1>9

----------------------------------------------------------------------------
(* a block of t from place i on is opened at s and closed at c                *)
Within(t, i, s, c) ==
  /\ s \in i .. Len(t) /\ c \in s + 1 .. Len(t)
  /\ t[s] = "tool" /\ t[c] = "/tool"
  /\ \A j \in i .. s - 1 : t[j] # "tool"
  /\ \A j \in s + 1 .. c - 1 : t[j] # "/tool"
(* there is none: no tag opens one, or none closes it                         *)
Without(t, i) ==
  \E m \in i .. Len(t) + 1 :
    /\ \A j \in i .. m - 1 : t[j] # "tool"
    /\ m <= Len(t) => t[m] = "tool" /\ \A j \in m + 1 .. Len(t) : t[j] # "/tool"
(* between the places s and c of t stands v, after one tag and before another *)
Stands(t, v, s, c) ==
  /\ s \in 1 .. Len(t) /\ c \in s + 1 .. Len(t) /\ v = SubSeq(t, s + 1, c - 1)

LEMMA FirstIs ==
  ASSUME NEW t \in Tokens, NEW S, NEW i \in Nat \ {0}
  PROVE  \/ Kilo!FirstOf(t, S, i) = 0 /\ \A j \in i .. Len(t) : t[j] \notin S
         \/ /\ Kilo!FirstOf(t, S, i) \in i .. Len(t) /\ t[Kilo!FirstOf(t, S, i)] \in S
            /\ \A j \in i .. Kilo!FirstOf(t, S, i) - 1 : t[j] \notin S
<1>1. CASE ~\E j \in i .. Len(t) : t[j] \in S
  BY <1>1 DEF Kilo!FirstOf
<1>2. CASE \E j \in i .. Len(t) : t[j] \in S
  <2> DEFINE T == {j \in i .. Len(t) : t[j] \in S}
             P(x) == x \in i .. Len(t) /\ t[x] \in S /\ \A j \in i .. x - 1 : t[j] \notin S
  <2>1. T \subseteq Nat /\ T # {} /\ Len(t) \in Nat
    BY <1>2 DEF Tokens
  <2>2. PICK x \in T : \A y \in T : x <= y
    BY <2>1, NatLeast
  <2>3. P(x)
    <3>1. \A j \in i .. x - 1 : j \in i .. Len(t) /\ ~(x <= j)
      BY <2>1, <2>2
    <3> QED BY <2>2, <3>1
  <2> DEFINE f == CHOOSE j \in i .. Len(t) : t[j] \in S /\ \A k \in i .. j - 1 : t[k] \notin S
  <2>4. P(f)
    BY <2>3
  <2>5. Kilo!FirstOf(t, S, i) = f
    BY <1>2 DEF Kilo!FirstOf
  <2> HIDE DEF f
  <2> QED BY <2>4, <2>5
<1> QED BY <1>1, <1>2

LEMMA TagIs ==
  ASSUME NEW t \in Tokens, NEW tag \in {"tool", "name"}, NEW i \in 1 .. Len(t) + 1
  PROVE  LET b == Kilo!FindTag(t, tag, i)
         IN \/ /\ ~b.found
               /\ \E m \in i .. Len(t) + 1 :
                    /\ \A j \in i .. m - 1 : t[j] # tag
                    /\ m <= Len(t) => t[m] = tag /\ \A j \in m + 1 .. Len(t) : t[j] # Kilo!CloseOf[tag]
            \/ /\ b.found
               /\ Stands(t, b.content, b.start, b.next - 1)
               /\ b.start \in i .. Len(t) /\ b.next \in b.start + 2 .. Len(t) + 1
               /\ t[b.start] = tag /\ t[b.next - 1] = Kilo!CloseOf[tag]
               /\ \A j \in i .. b.start - 1 : t[j] # tag
               /\ \A j \in b.start + 1 .. b.next - 2 : t[j] # Kilo!CloseOf[tag]
<1> DEFINE open == Kilo!FirstOf(t, {tag}, i)
           shut == Kilo!FirstOf(t, {Kilo!CloseOf[tag]}, open + 1)
           b == Kilo!FindTag(t, tag, i)
<1>0. Len(t) \in Nat /\ i \in Nat \ {0}
  BY DEF Tokens
<1>1. \/ open = 0 /\ \A j \in i .. Len(t) : t[j] # tag
      \/ /\ open \in i .. Len(t) /\ t[open] = tag
         /\ \A j \in i .. open - 1 : t[j] # tag
  BY <1>0, FirstIs
<1>2. b = LET close == IF open = 0 THEN 0 ELSE shut
          IN [found |-> close # 0, start |-> open, next |-> close + 1,
              content |-> SubSeq(t, open + 1, close - 1)]
  BY DEF Kilo!FindTag
<1>3. open \in Nat
  BY <1>0, <1>1
<1>4. \/ shut = 0 /\ \A j \in open + 1 .. Len(t) : t[j] # Kilo!CloseOf[tag]
      \/ /\ shut \in open + 1 .. Len(t) /\ t[shut] = Kilo!CloseOf[tag]
         /\ \A j \in open + 1 .. shut - 1 : t[j] # Kilo!CloseOf[tag]
  <2>1. open + 1 \in Nat \ {0}
    BY <1>3
  <2> HIDE DEF open
  <2> QED BY <2>1, FirstIs
<1> HIDE DEF open, shut, b
<1> DEFINE close == IF open = 0 THEN 0 ELSE shut
<1>5. (b.found <=> close # 0) /\ b.start = open /\ b.next = close + 1
      /\ b.content = SubSeq(t, open + 1, close - 1)
  BY <1>2
<1>9. (open = 0 => close = 0) /\ (open # 0 => close = shut)
  OBVIOUS
<1> HIDE DEF close
<1>6. CASE open = 0
  <2>3. ~(open \in i .. Len(t))
    BY <1>0, <1>6
  <2>1. ~b.found /\ \A j \in i .. Len(t) : t[j] # tag
    BY <1>1, <1>5, <1>6, <1>9, <2>3
  <2>2. Len(t) + 1 \in i .. Len(t) + 1 /\ (Len(t) + 1) - 1 = Len(t) /\ ~(Len(t) + 1 <= Len(t))
    BY <1>0
  <2> QED BY <2>1, <2>2 DEF b
<1>7. CASE open # 0 /\ shut = 0
  <2>4. ~(shut \in open + 1 .. Len(t))
    BY <1>0, <1>3, <1>7
  <2>5. open \in i .. Len(t)
    BY <1>1, <1>7
  <2>1. ~b.found /\ open \in i .. Len(t) + 1
    <3>1. ~b.found
      BY <1>5, <1>7, <1>9
    <3> QED BY <1>0, <2>5, <3>1
  <2>2. t[open] = tag /\ \A j \in i .. open - 1 : t[j] # tag
    BY <1>1, <1>7
  <2>3. \A j \in open + 1 .. Len(t) : t[j] # Kilo!CloseOf[tag]
    BY <1>4, <2>4
  <2> QED BY <2>1, <2>2, <2>3 DEF b
<1>8. CASE open # 0 /\ shut # 0
  <2>1. /\ open \in i .. Len(t) /\ t[open] = tag
        /\ \A j \in i .. open - 1 : t[j] # tag
    BY <1>1, <1>8
  <2>2. /\ shut \in open + 1 .. Len(t) /\ t[shut] = Kilo!CloseOf[tag]
        /\ \A j \in open + 1 .. shut - 1 : t[j] # Kilo!CloseOf[tag]
    BY <1>4, <1>8
  <2>3. b.found = TRUE /\ b.start = open /\ b.next = shut + 1 /\ b.content = SubSeq(t, open + 1, shut - 1)
    BY <1>5, <1>8, <1>9
  <2>4. (shut + 1) - 1 = shut /\ (shut + 1) - 2 = shut - 1 /\ open \in 1 .. Len(t)
        /\ shut + 1 \in open + 2 .. Len(t) + 1
    BY <1>0, <2>1, <2>2
  <2>5. Stands(t, b.content, b.start, b.next - 1)
    BY <2>1, <2>2, <2>3, <2>4 DEF Stands
  <2> QED BY <2>1, <2>2, <2>3, <2>4, <2>5 DEF b
<1> QED BY <1>6, <1>7, <1>8

LEMMA BlockIs ==
  ASSUME NEW t \in Tokens, NEW i \in 1 .. Len(t) + 1
  PROVE  LET b == Kilo!FindTag(t, "tool", i)
         IN \/ ~b.found /\ Without(t, i)
            \/ /\ b.found /\ Within(t, i, b.start, b.next - 1)
               /\ b.content = SubSeq(t, b.start + 1, b.next - 2) /\ b.content \in Tokens
               /\ b.start \in i .. Len(t) /\ b.next \in i + 1 .. Len(t) + 1
<1> DEFINE b == Kilo!FindTag(t, "tool", i)
<1>0. Len(t) \in Nat /\ Kilo!CloseOf["tool"] = "/tool"
  BY DEF Tokens, Kilo!CloseOf
<1>1. \/ ~b.found /\ Without(t, i)
      \/ /\ b.found
         /\ Stands(t, b.content, b.start, b.next - 1)
         /\ b.start \in i .. Len(t) /\ b.next \in b.start + 2 .. Len(t) + 1
         /\ t[b.start] = "tool" /\ t[b.next - 1] = "/tool"
         /\ \A j \in i .. b.start - 1 : t[j] # "tool"
         /\ \A j \in b.start + 1 .. b.next - 2 : t[j] # "/tool"
  <2>1. "tool" \in {"tool", "name"}
    OBVIOUS
  <2>2. Kilo!CloseOf["tool"] = "/tool"
    BY <1>0
  <2> DEFINE F == Kilo!CloseOf["tool"]
  <2>3. \/ ~b.found /\ \E m \in i .. Len(t) + 1 :
                        /\ \A j \in i .. m - 1 : t[j] # "tool"
                        /\ m <= Len(t) => t[m] = "tool" /\ \A j \in m + 1 .. Len(t) : t[j] # F
        \/ /\ b.found
           /\ Stands(t, b.content, b.start, b.next - 1)
           /\ b.start \in i .. Len(t) /\ b.next \in b.start + 2 .. Len(t) + 1
           /\ t[b.start] = "tool" /\ t[b.next - 1] = F
           /\ \A j \in i .. b.start - 1 : t[j] # "tool"
           /\ \A j \in b.start + 1 .. b.next - 2 : t[j] # F
    BY <2>1, TagIs
  <2> HIDE DEF F, b
  <2> QED BY <2>2, <2>3 DEF Without, F
<1> HIDE DEF b
<1>2. CASE b.found /\ b.start \in i .. Len(t) /\ b.next \in b.start + 2 .. Len(t) + 1
           /\ Stands(t, b.content, b.start, b.next - 1)
           /\ t[b.start] = "tool" /\ t[b.next - 1] = "/tool"
           /\ (\A j \in i .. b.start - 1 : t[j] # "tool")
           /\ \A j \in b.start + 1 .. b.next - 2 : t[j] # "/tool"
  <2>1. b.next - 1 \in b.start + 1 .. Len(t) /\ (b.next - 1) - 1 = b.next - 2
        /\ b.next \in i + 1 .. Len(t) + 1
    BY <1>0, <1>2
  <2>2. Within(t, i, b.start, b.next - 1)
    BY <1>2, <2>1 DEF Within
  <2>3. b.content = SubSeq(t, b.start + 1, b.next - 2)
    BY <1>2, <2>1 DEF Stands
  <2>4. b.start + 1 \in Nat /\ b.start + 1 >= 1 /\ b.next - 2 \in Nat /\ b.next - 2 <= Len(t)
    BY <1>0, <1>2
  <2>5. \A x, y \in Nat : x >= 1 /\ y <= Len(t) => SubSeq(t, x, y) \in Tokens
    BY DEF Tokens
  <2>6. b.content \in Tokens
    BY <2>3, <2>4, <2>5
  <2> QED BY <1>2, <2>1, <2>2, <2>3, <2>6 DEF b
<1> QED BY <1>1, <1>2 DEF b

----------------------------------------------------------------------------
(* The pass: outside a block nothing happens but at its opening, inside one   *)
(* what stands there is collected.                                            *)
Pass == [in : BOOLEAN, body : Tokens, all : Seq(Tokens), named : Seq(Tokens)]

LEMMA TakesIn ==
  ASSUME NEW s \in Pass, NEW x \in Token, NEW r, r = Kilo!Take(s, x)
  PROVE  /\ r \in Pass
         /\ ~s.in /\ x # "tool" => r = s
         /\ ~s.in /\ x = "tool" => r.in /\ r.body = <<>> /\ r.all = s.all /\ r.named = s.named
         /\ s.in /\ x # "/tool" => /\ r.in /\ r.body = Append(s.body, x)
                                   /\ r.all = s.all /\ r.named = s.named
         /\ s.in /\ x = "/tool" =>
              /\ ~r.in /\ r.all = Append(s.all, s.body)
              /\ r.named = IF Kilo!Named(s.body) THEN Append(s.named, s.body) ELSE s.named
<1>0. /\ s.in \in BOOLEAN /\ s.body \in Tokens /\ s.all \in Seq(Tokens) /\ s.named \in Seq(Tokens)
      /\ s = [in |-> s.in, body |-> s.body, all |-> s.all, named |-> s.named]
  BY DEF Pass
<1>1. /\ <<>> \in Tokens /\ Append(s.body, x) \in Tokens /\ Append(s.all, s.body) \in Seq(Tokens)
      /\ Append(s.named, s.body) \in Seq(Tokens)
  BY <1>0 DEF Tokens
<1>2. CASE ~s.in /\ x # "tool"
  <2>1. r = s
    BY <1>2 DEF Kilo!Take
  <2> QED BY <1>2, <2>1
<1>3. CASE ~s.in /\ x = "tool"
  <2>1. r = [s EXCEPT !.in = TRUE, !.body = <<>>]
    BY <1>3 DEF Kilo!Take
  <2>2. r = [in |-> TRUE, body |-> <<>>, all |-> s.all, named |-> s.named]
    BY <1>0, <2>1
  <2>3. r \in Pass
    BY <1>0, <1>1, <2>2 DEF Pass
  <2> QED BY <1>3, <2>2, <2>3
<1>4. CASE s.in /\ x # "/tool"
  <2>1. r = [s EXCEPT !.body = Append(@, x)]
    BY <1>4 DEF Kilo!Take
  <2> DEFINE b == Append(s.body, x)
  <2>2. b \in Tokens
    BY <1>1
  <2>3. r = [s EXCEPT !.body = b]
    BY <2>1
  <2> HIDE DEF b
  <2>4. r = [in |-> s.in, body |-> b, all |-> s.all, named |-> s.named]
    BY <1>0, <2>3
  <2>5. r \in Pass
    BY <1>0, <2>2, <2>4 DEF Pass
  <2>6. r.body = b /\ r.all = s.all /\ r.named = s.named /\ r.in
    BY <1>4, <2>4
  <2> QED BY <1>4, <2>5, <2>6 DEF b
<1>5. CASE s.in /\ x = "/tool"
  <2> DEFINE a == Append(s.all, s.body)
             n == IF Kilo!Named(s.body) THEN Append(s.named, s.body) ELSE s.named
  <2>1. r = [s EXCEPT !.in = FALSE, !.all = a, !.named = n]
    BY <1>5 DEF Kilo!Take
  <2>2. a \in Seq(Tokens) /\ n \in Seq(Tokens)
    BY <1>0, <1>1
  <2> HIDE DEF a, n
  <2>4. r = [in |-> FALSE, body |-> s.body, all |-> a, named |-> n]
    BY <1>0, <2>1
  <2>5. r \in Pass
    BY <1>0, <2>2, <2>4 DEF Pass
  <2>6. r.all = a /\ r.named = n /\ ~r.in
    BY <2>4
  <2> QED BY <1>5, <2>5, <2>6 DEF a, n
<1> QED BY <1>0, <1>2, <1>3, <1>4, <1>5

LEMMA StartTyped == Kilo!Nothing \in Pass /\ ~Kilo!Nothing.in /\ Kilo!Nothing.all = <<>>
                    /\ Kilo!Nothing.named = <<>>
<1>1. <<>> \in Tokens /\ <<>> \in Seq(Tokens)
  BY DEF Tokens
<1> QED BY <1>1 DEF Kilo!Nothing, Pass

LEMMA PassTyped ==
  ASSUME NEW t \in Tokens, NEW h, Passes(h, t, Len(t))
  PROVE  /\ \A n \in 0 .. Len(t) : h[n] \in Pass
         /\ \A n \in 1 .. Len(t) : h[n] = Kilo!Take(h[n - 1], t[n])
<1> DEFINE T == {n \in Nat : n <= Len(t) => h[n] \in Pass}
<1>0. Len(t) \in Nat /\ \A n \in 1 .. Len(t) : t[n] \in Token
  BY DEF Tokens
<1>1. h[0] = Kilo!Nothing /\ \A n \in 1 .. Len(t) : h[n] = Kilo!Take(h[n - 1], t[n])
  BY DEF Passes
<1>2. 0 \in T
  BY <1>0, <1>1, StartTyped
<1>3. ASSUME NEW n \in Nat, n \in T PROVE n + 1 \in T
  <2> SUFFICES ASSUME n + 1 <= Len(t) PROVE h[n + 1] \in Pass
    OBVIOUS
  <2>1. n + 1 \in 1 .. Len(t) /\ (n + 1) - 1 = n /\ n <= Len(t)
    BY <1>0
  <2>2. h[n] \in Pass
    BY <1>3, <2>1
  <2>3. h[n + 1] = Kilo!Take(h[n], t[n + 1]) /\ t[n + 1] \in Token
    BY <1>0, <1>1, <2>1
  <2> QED BY <2>2, <2>3, TakesIn
<1>4. Nat \subseteq T
  <2> HIDE DEF T
  <2> QED BY <1>2, <1>3, CountUp
<1>5. \A n \in 0 .. Len(t) : n \in Nat /\ n <= Len(t)
  BY <1>0
<1> QED BY <1>1, <1>4, <1>5

(* from i on no block is opened                                               *)
LEMMA PassesOutside ==
  ASSUME NEW t \in Tokens, NEW h, Passes(h, t, Len(t)), NEW i \in 1 .. Len(t) + 1,
         NEW m \in i .. Len(t) + 1, ~h[i - 1].in, \A j \in i .. m - 1 : t[j] # "tool"
  PROVE  h[m - 1] = h[i - 1]
<1> DEFINE T == {n \in Nat : i + n <= m => h[i + n - 1] = h[i - 1]}
<1>0. Len(t) \in Nat /\ i \in Nat /\ i >= 1 /\ m \in Nat /\ m >= i /\ m <= Len(t) + 1
      /\ \A n \in 1 .. Len(t) : t[n] \in Token
  BY DEF Tokens
<1>1. 0 \in T
  BY <1>0
<1>2. ASSUME NEW n \in Nat, n \in T PROVE n + 1 \in T
  <2> SUFFICES ASSUME i + (n + 1) <= m PROVE h[i + (n + 1) - 1] = h[i - 1]
    OBVIOUS
  <2>1. i + n \in 1 .. Len(t) /\ i + n \in i .. m - 1 /\ i + (n + 1) - 1 = i + n /\ i + n <= m
        /\ i + n - 1 \in 0 .. Len(t)
    BY <1>0
  <2>2. h[i + n - 1] = h[i - 1]
    BY <1>2, <2>1
  <2>3. h[i + n] = Kilo!Take(h[i + n - 1], t[i + n]) /\ h[i + n - 1] \in Pass
    BY <2>1, PassTyped
  <2>4. t[i + n] # "tool" /\ t[i + n] \in Token
    BY <1>0, <2>1
  <2>5. h[i + n] = h[i + n - 1]
    BY <2>2, <2>3, <2>4, TakesIn
  <2> QED BY <2>1, <2>2, <2>5
<1>3. Nat \subseteq T
  <2> HIDE DEF T
  <2> QED BY <1>1, <1>2, CountUp
<1> DEFINE d == m - i
<1>4. d \in Nat /\ i + d = m /\ i + d <= m
  BY <1>0
<1> HIDE DEF d
<1>5. h[i + d - 1] = h[i - 1]
  BY <1>3, <1>4
<1> QED BY <1>4, <1>5

(* a block opened at s is not closed before m                                 *)
LEMMA PassesInside ==
  ASSUME NEW t \in Tokens, NEW h, Passes(h, t, Len(t)), NEW s \in 1 .. Len(t),
         NEW m \in s .. Len(t), ~h[s - 1].in, t[s] = "tool", \A j \in s + 1 .. m : t[j] # "/tool"
  PROVE  /\ h[m].in /\ h[m].body = SubSeq(t, s + 1, m)
         /\ h[m].all = h[s - 1].all /\ h[m].named = h[s - 1].named
<1> DEFINE In(n) == /\ h[n].in /\ h[n].body = SubSeq(t, s + 1, n)
                    /\ h[n].all = h[s - 1].all /\ h[n].named = h[s - 1].named
           T == {n \in Nat : s + n <= m => In(s + n)}
<1>0. Len(t) \in Nat /\ s \in Nat /\ s >= 1 /\ m \in Nat /\ m >= s /\ m <= Len(t)
      /\ \A n \in 1 .. Len(t) : t[n] \in Token
  BY DEF Tokens
<1>1. 0 \in T
  <2>1. h[s] = Kilo!Take(h[s - 1], t[s]) /\ h[s - 1] \in Pass /\ t[s] \in Token
    <3>1. s \in 1 .. Len(t) /\ s - 1 \in 0 .. Len(t)
      BY <1>0
    <3> QED BY <1>0, <3>1, PassTyped
  <2>2. h[s].in /\ h[s].body = <<>> /\ h[s].all = h[s - 1].all /\ h[s].named = h[s - 1].named
    BY <2>1, TakesIn
  <2>3. SubSeq(t, s + 1, s) = <<>> /\ s + 0 = s
    BY <1>0 DEF Tokens
  <2> QED BY <2>2, <2>3
<1>2. ASSUME NEW n \in Nat, n \in T PROVE n + 1 \in T
  <2> SUFFICES ASSUME s + (n + 1) <= m PROVE In(s + (n + 1))
    OBVIOUS
  <2> DEFINE x == s + n
  <2>1. /\ x \in Nat /\ s + (n + 1) = x + 1 /\ x + 1 \in 1 .. Len(t) /\ x \in 0 .. Len(t) /\ x <= m
        /\ x + 1 \in s + 1 .. m /\ (x + 1) - 1 = x /\ s + 1 <= x + 1 /\ s + 1 >= 1 /\ x + 1 <= Len(t)
    BY <1>0
  <2>2. In(x)
    BY <1>2, <2>1
  <2> HIDE DEF x
  <2>3. h[x + 1] = Kilo!Take(h[x], t[x + 1]) /\ h[x] \in Pass
    BY <2>1, PassTyped
  <2>4. t[x + 1] # "/tool" /\ t[x + 1] \in Token
    BY <1>0, <2>1
  <2>5. /\ h[x + 1].in /\ h[x + 1].body = Append(h[x].body, t[x + 1])
        /\ h[x + 1].all = h[x].all /\ h[x + 1].named = h[x].named
    <3>1. h[x].in
      BY <2>2
    <3> HIDE DEF T, In
    <3> QED BY <2>3, <2>4, <3>1, TakesIn
  <2>6. Append(SubSeq(t, s + 1, x), t[x + 1]) = SubSeq(t, s + 1, x + 1)
    <3>1. t \in Seq(Token)
      BY DEF Tokens
    <3>2. \A p, q \in Nat : p >= 1 /\ p <= q + 1 /\ q + 1 <= Len(t) =>
            Append(SubSeq(t, p, q), t[q + 1]) = SubSeq(t, p, q + 1)
      BY <3>1
    <3> QED BY <1>0, <2>1, <3>2
  <2> QED BY <2>1, <2>2, <2>5, <2>6
<1>3. Nat \subseteq T
  <2> HIDE DEF T
  <2> QED BY <1>1, <1>2, CountUp
<1> DEFINE d == m - s
<1>4. d \in Nat /\ s + d = m /\ s + d <= m
  BY <1>0
<1> HIDE DEF d, In
<1>5. In(s + d)
  BY <1>3, <1>4
<1>6. In(m)
  BY <1>4, <1>5
<1> QED BY <1>6 DEF In

Collects(s, block, r) ==
  /\ ~r.in /\ r.all = Append(s.all, block)
  /\ Kilo!Named(block) => r.named = Append(s.named, block)
  /\ ~Kilo!Named(block) => r.named = s.named
LEMMA BlockTaken ==
  ASSUME NEW t \in Tokens, NEW h, Passes(h, t, Len(t)), NEW i \in 1 .. Len(t) + 1,
         ~h[i - 1].in, NEW s, NEW c, Within(t, i, s, c),
         NEW block, block = SubSeq(t, s + 1, c - 1)
  PROVE  Collects(h[i - 1], block, h[c])
<1>0. Len(t) \in Nat /\ i \in Nat /\ i >= 1 /\ \A n \in 1 .. Len(t) : t[n] \in Token
  BY DEF Tokens
<1>1. /\ s \in i .. Len(t) /\ c \in s + 1 .. Len(t)
      /\ t[s] = "tool" /\ t[c] = "/tool"
      /\ \A j \in i .. s - 1 : t[j] # "tool"
      /\ \A j \in s + 1 .. c - 1 : t[j] # "/tool"
  BY DEF Within
<1>2. s \in 1 .. Len(t) /\ s \in i .. Len(t) + 1 /\ c - 1 \in s .. Len(t) /\ c \in 1 .. Len(t)
      /\ c - 1 \in 0 .. Len(t)
  BY <1>0, <1>1
<1>3. h[s - 1] = h[i - 1]
  BY <1>1, <1>2, PassesOutside
<1>4. /\ h[c - 1].in /\ h[c - 1].body = block
      /\ h[c - 1].all = h[i - 1].all /\ h[c - 1].named = h[i - 1].named
  <2> DEFINE d == c - 1
  <2>1. d \in s .. Len(t) /\ \A j \in s + 1 .. d : t[j] # "/tool"
    BY <1>1, <1>2
  <2>2. ~h[s - 1].in /\ s \in 1 .. Len(t) /\ t[s] = "tool"
    BY <1>1, <1>2, <1>3
  <2>3. block = SubSeq(t, s + 1, d)
    OBVIOUS
  <2> HIDE DEF d
  <2>4. /\ h[d].in /\ h[d].body = SubSeq(t, s + 1, d)
        /\ h[d].all = h[s - 1].all /\ h[d].named = h[s - 1].named
    BY <2>1, <2>2, PassesInside
  <2>5. /\ h[d].in /\ h[d].body = block
        /\ h[d].all = h[i - 1].all /\ h[d].named = h[i - 1].named
    BY <1>3, <2>3, <2>4
  <2> QED BY <2>5 DEF d
<1>5. h[c] = Kilo!Take(h[c - 1], t[c]) /\ h[c - 1] \in Pass /\ t[c] \in Token
  BY <1>0, <1>2, PassTyped
<1>6. t[c] = "/tool"
  BY <1>1
<1> DEFINE p == h[c - 1]
           q == h[c]
           x == t[c]
<1>7. /\ p.in /\ p.body = block /\ p.all = h[i - 1].all /\ p.named = h[i - 1].named
      /\ q = Kilo!Take(p, x) /\ p \in Pass /\ x \in Token /\ x = "/tool"
  BY <1>4, <1>5, <1>6
<1> HIDE DEF p, q, x
<1>8. /\ ~q.in /\ q.all = Append(p.all, p.body)
      /\ q.named = IF Kilo!Named(p.body) THEN Append(p.named, p.body) ELSE p.named
  <2>1. p \in Pass /\ x \in Token /\ q = Kilo!Take(p, x)
    BY <1>7
  <2>2. p.in /\ x = "/tool" =>
          /\ ~q.in /\ q.all = Append(p.all, p.body)
          /\ q.named = IF Kilo!Named(p.body) THEN Append(p.named, p.body) ELSE p.named
    BY <2>1, TakesIn
  <2> QED BY <1>7, <2>2
<1>9. /\ ~q.in /\ q.all = Append(h[i - 1].all, block)
      /\ q.named = IF Kilo!Named(block) THEN Append(h[i - 1].named, block) ELSE h[i - 1].named
  BY <1>7, <1>8
<1> QED BY <1>9 DEF q, Collects

LEMMA NoneTaken ==
  ASSUME NEW t \in Tokens, NEW h, Passes(h, t, Len(t)), NEW i \in 1 .. Len(t) + 1,
         ~h[i - 1].in, Without(t, i)
  PROVE  h[Len(t)].all = h[i - 1].all /\ h[Len(t)].named = h[i - 1].named
<1>0. Len(t) \in Nat /\ i \in Nat /\ i >= 1
  BY DEF Tokens
<1>1. PICK m \in i .. Len(t) + 1 :
        /\ \A j \in i .. m - 1 : t[j] # "tool"
        /\ m <= Len(t) => t[m] = "tool" /\ \A j \in m + 1 .. Len(t) : t[j] # "/tool"
  BY DEF Without
<1>2. h[m - 1] = h[i - 1]
  BY <1>1, PassesOutside
<1>3. CASE m = Len(t) + 1
  <2>1. m - 1 = Len(t)
    BY <1>0, <1>3
  <2> QED BY <1>2, <2>1
<1>4. CASE m # Len(t) + 1
  <2>1. m \in 1 .. Len(t) /\ m <= Len(t) /\ Len(t) \in m .. Len(t)
    BY <1>0, <1>4
  <2> QED BY <1>1, <1>2, <2>1, PassesInside
<1> QED BY <1>3, <1>4

(* in a text that opens no block before the end of one, none is found         *)
LEMMA NoBlocks ==
  ASSUME NEW u \in Tokens,
         \A i, j \in 1 .. Len(u) : i < j /\ u[i] = "tool" => u[j] # "/tool"
  PROVE  Kilo!Blocks(u).all = <<>>
<1>1. PICK h : Passes(h, u, Len(u)) /\ Kilo!Blocks(u) = h[Len(u)]
  BY BlocksPass
<1>0. Len(u) \in Nat /\ h[0] = Kilo!Nothing
  BY <1>1 DEF Tokens, Passes
<1>2. Without(u, 1)
  <2>1. CASE \A j \in 1 .. Len(u) : u[j] # "tool"
    <3>1. Len(u) + 1 \in 1 .. Len(u) + 1 /\ (Len(u) + 1) - 1 = Len(u) /\ ~(Len(u) + 1 <= Len(u))
      BY <1>0
    <3> QED BY <2>1, <3>1 DEF Without
  <2>2. CASE \E j \in 1 .. Len(u) : u[j] = "tool"
    <3> DEFINE T == {j \in 1 .. Len(u) : u[j] = "tool"}
    <3>1. T \subseteq Nat /\ T # {}
      BY <2>2
    <3>2. PICK m \in T : \A y \in T : m <= y
      BY <3>1, NatLeast
    <3>3. \A j \in 1 .. m - 1 : j \in 1 .. Len(u) /\ ~(m <= j)
      BY <1>0, <3>2
    <3>4. \A j \in 1 .. m - 1 : u[j] # "tool"
      BY <3>2, <3>3
    <3>5. m \in 1 .. Len(u) /\ m \in 1 .. Len(u) + 1 /\ u[m] = "tool"
      BY <1>0, <3>2
    <3>6. \A j \in m + 1 .. Len(u) : j \in 1 .. Len(u) /\ m < j
      BY <1>0, <3>5
    <3>7. \A j \in m + 1 .. Len(u) : u[j] # "/tool"
      BY <3>5, <3>6
    <3> QED BY <3>4, <3>5, <3>7 DEF Without
  <2> QED BY <2>1, <2>2
<1>3. 1 \in 1 .. Len(u) + 1 /\ 1 - 1 = 0 /\ ~h[0].in /\ h[0].all = <<>>
  BY <1>0, StartTyped
<1>4. h[Len(u)].all = h[0].all
  BY <1>1, <1>2, <1>3, NoneTaken
<1> QED BY <1>1, <1>3, <1>4

----------------------------------------------------------------------------
(* What the model's recursive functions over a text have in common: at each   *)
(* place they end, go on at a later one, or join something with what they     *)
(* make of the rest.                                                          *)
Over(a, later) ==
  [tag \in DOMAIN later \cup {a.tag} |-> IF tag \in DOMAIN later THEN later[tag] ELSE a.body]
Joined(k, a, b) ==
  IF k = "base" THEN a ELSE IF k = "skip" THEN b ELSE IF k = "join" THEN a \o b ELSE Over(a, b)

Leads(N, how, onto) == \A i \in 1 .. N : how[i] = "base" \/ onto[i] \in i + 1 .. N
Solves(N, how, piece, onto, f) ==
  /\ f = [i \in 1 .. N |-> f[i]]
  /\ \A i \in 1 .. N : f[i] = Joined(how[i], piece[i], f[onto[i]])

LEMMA Follows ==
  ASSUME NEW N \in Nat, NEW how, NEW piece, NEW onto, Leads(N, how, onto)
  PROVE  \E f : Solves(N, how, piece, onto, f)
<1> DEFINE D == 1 .. N
           E(g, i) == Joined(how[i], piece[i], g[onto[i]])
           Fine(g, n) == \A i \in D : N - i < n => g[i] = E(g, i)
           T == {n \in Nat : \E g : Fine(g, n)}
<1>0. \A i \in D : how[i] = "base" \/ onto[i] \in i + 1 .. N
  BY DEF Leads
<1>1. 0 \in T
  <2>1. \A i \in D : ~(N - i < 0)
    OBVIOUS
  <2> QED BY <2>1
<1>2. ASSUME NEW n \in Nat, n \in T PROVE n + 1 \in T
  <2>1. PICK g : Fine(g, n)
    BY <1>2
  <2> DEFINE f == [i \in D |-> E(g, i)]
  <2>2. \A i \in D : f[i] = E(g, i)
    OBVIOUS
  <2> HIDE DEF f
  <2>3. ASSUME NEW i \in D, N - i < n + 1 PROVE f[i] = E(f, i)
    <3>1. CASE how[i] = "base"
      BY <2>2, <3>1 DEF Joined
    <3>2. CASE how[i] # "base"
      <4>1. onto[i] \in i + 1 .. N
        BY <1>0, <3>2
      <4>2. onto[i] \in D /\ N - onto[i] < n
        BY <2>3, <4>1
      <4>3. g[onto[i]] = E(g, onto[i])
        BY <2>1, <4>2
      <4>4. f[onto[i]] = g[onto[i]]
        BY <2>2, <4>2, <4>3
      <4> HIDE DEF D
      <4> QED BY <2>2, <4>4
    <3> QED BY <3>1, <3>2
  <2>4. Fine(f, n + 1)
    BY <2>3
  <2> QED BY <2>4
<1>3. N \in T
  <2> HIDE DEF T
  <2> QED BY <1>1, <1>2, CountUp
<1>4. PICK g : Fine(g, N)
  BY <1>3
<1> DEFINE f == [i \in D |-> E(g, i)]
<1>5. \A i \in D : N - i < N
  OBVIOUS
<1>6. \A i \in D : g[i] = E(g, i)
  BY <1>4, <1>5
<1>7. \A i \in D : f[i] = g[i]
  BY <1>6
<1>8. \A i \in D : E(f, i) = E(g, i)
  <2> SUFFICES ASSUME NEW i \in D PROVE E(f, i) = E(g, i)
    OBVIOUS
  <2>1. CASE how[i] = "base"
    BY <2>1 DEF Joined
  <2>2. CASE how[i] # "base"
    <3>1. onto[i] \in i + 1 .. N
      BY <1>0, <2>2
    <3>2. onto[i] \in D
      BY <3>1
    <3> HIDE DEF f
    <3> QED BY <1>7, <3>2
  <2> QED BY <2>1, <2>2
<1>9. f = [i \in D |-> f[i]]
  OBVIOUS
<1>10. \A i \in D : f[i] = E(f, i)
  BY <1>8
<1> HIDE DEF f
<1> QED BY <1>9, <1>10 DEF Solves

----------------------------------------------------------------------------
(* The parameters of a call: After, place by place.                           *)
OpenAt(t, i) == Kilo!FirstOf(t, Kilo!Tag, i)
CloseAt(t, i) ==
  IF OpenAt(t, i) = 0 \/ t[OpenAt(t, i)] \in Kilo!Close THEN 0
  ELSE Kilo!FirstOf(t, {Kilo!CloseOf[t[OpenAt(t, i)]]}, OpenAt(t, i) + 1)
ParamAt(t, i) == [tag |-> t[OpenAt(t, i)], body |-> SubSeq(t, OpenAt(t, i) + 1, CloseAt(t, i) - 1)]
AfterAt(t, f, i) ==
  CASE OpenAt(t, i) # 0 /\ t[OpenAt(t, i)] \in Kilo!Close -> f[OpenAt(t, i) + 1]
    [] CloseAt(t, i) # 0 -> Over(ParamAt(t, i), f[CloseAt(t, i) + 1])
    [] OTHER -> <<>>

LEMMA TagsDiffer == /\ DOMAIN Kilo!CloseOf \subseteq Token
                    /\ Kilo!Tag = DOMAIN Kilo!CloseOf \cup Kilo!Close
BY DEF Kilo!CloseOf, Kilo!Tag, Token

LEMMA FirstIn ==
  ASSUME NEW t \in Tokens, NEW S, NEW i \in Nat \ {0}, NEW f, f = Kilo!FirstOf(t, S, i)
  PROVE  f = 0 \/ (f \in i .. Len(t) /\ t[f] \in S)
<1> DEFINE g == Kilo!FirstOf(t, S, i)
<1>1. \/ g = 0 /\ \A j \in i .. Len(t) : t[j] \notin S
      \/ /\ g \in i .. Len(t) /\ t[g] \in S
         /\ \A j \in i .. g - 1 : t[j] \notin S
  BY FirstIs
<1>2. f = g
  OBVIOUS
<1> HIDE DEF g
<1> QED BY <1>1, <1>2

LEMMA CloseIs ==
  ASSUME NEW t \in Tokens, NEW i \in 1 .. Len(t) + 1
  PROVE  /\ OpenAt(t, i) = 0 \/ (OpenAt(t, i) \in i .. Len(t) /\ t[OpenAt(t, i)] \in Kilo!Tag)
         /\ \/ CloseAt(t, i) = 0
            \/ /\ OpenAt(t, i) # 0 /\ t[OpenAt(t, i)] \notin Kilo!Close
               /\ CloseAt(t, i) \in OpenAt(t, i) + 1 .. Len(t)
               /\ t[CloseAt(t, i)] = Kilo!CloseOf[t[OpenAt(t, i)]]
<1> DEFINE o == OpenAt(t, i)
           c == CloseAt(t, i)
<1>0. Len(t) \in Nat /\ i \in Nat \ {0}
  BY DEF Tokens
<1>1. o = 0 \/ (o \in i .. Len(t) /\ t[o] \in Kilo!Tag)
  <2>1. o = Kilo!FirstOf(t, Kilo!Tag, i)
    BY DEF OpenAt
  <2> HIDE DEF o
  <2> QED BY <1>0, <2>1, FirstIn
<1>2. CASE o = 0 \/ t[o] \in Kilo!Close
  <2>1. c = 0
    BY <1>2 DEF CloseAt
  <2> QED BY <1>1, <2>1
<1>3. CASE ~(o = 0 \/ t[o] \in Kilo!Close)
  <2> DEFINE x == Kilo!CloseOf[t[o]]
  <2>1. c = Kilo!FirstOf(t, {x}, o + 1)
    BY <1>3 DEF CloseAt
  <2>2. o + 1 \in Nat \ {0}
    BY <1>0, <1>1
  <2> HIDE DEF o, c, x
  <2>3. c = 0 \/ (c \in o + 1 .. Len(t) /\ t[c] \in {x})
    BY <2>1, <2>2, FirstIn
  <2> QED BY <1>1, <1>3, <2>3 DEF o, c, x
<1> QED BY <1>2, <1>3

LEMMA ParamsAre ==
  ASSUME NEW t \in Tokens
  PROVE  \E f : /\ \A i \in 1 .. Len(t) + 1 : f[i] = AfterAt(t, f, i)
                /\ \A i : Kilo!Params(t, i) = f[i]
<1> DEFINE N == Len(t) + 1
           Def(f) == f = [i \in 1 .. N |->
             LET open == Kilo!FirstOf(t, Kilo!Tag, i)
                 close == IF open = 0 \/ t[open] \in Kilo!Close THEN 0
                          ELSE Kilo!FirstOf(t, {Kilo!CloseOf[t[open]]}, open + 1)
             IN CASE open # 0 /\ t[open] \in Kilo!Close -> f[open + 1]
                  [] close # 0 -> LET later == f[close + 1]
                                  IN [tag \in DOMAIN later \cup {t[open]} |->
                                        IF tag \in DOMAIN later THEN later[tag]
                                        ELSE SubSeq(t, open + 1, close - 1)]
                  [] OTHER -> <<>>]
           After == CHOOSE f : Def(f)
<1>1. N \in Nat /\ Len(t) \in Nat
  BY DEF Tokens
<1>2. \A i : Kilo!Params(t, i) = After[i]
  BY DEF Kilo!Params
<1>3. \A f : Def(f) <=> f = [i \in 1 .. N |-> AfterAt(t, f, i)]
  BY DEF AfterAt, OpenAt, CloseAt, ParamAt, Over
<1> HIDE DEF Def
<1> DEFINE shut(i) == OpenAt(t, i) # 0 /\ t[OpenAt(t, i)] \in Kilo!Close
           how == [i \in 1 .. N |-> IF shut(i) THEN "skip"
                                     ELSE IF CloseAt(t, i) # 0 THEN "over" ELSE "base"]
           piece == [i \in 1 .. N |-> IF ~shut(i) /\ CloseAt(t, i) # 0 THEN ParamAt(t, i) ELSE <<>>]
           onto == [i \in 1 .. N |-> IF shut(i) THEN OpenAt(t, i) + 1 ELSE CloseAt(t, i) + 1]
<1>4. Leads(N, how, onto)
  <2> SUFFICES ASSUME NEW i \in 1 .. N, how[i] # "base" PROVE onto[i] \in i + 1 .. N
    BY DEF Leads
  <2>0. i \in 1 .. Len(t) + 1
    OBVIOUS
  <2>1. CASE shut(i)
    <3>1. OpenAt(t, i) \in i .. Len(t) /\ onto[i] = OpenAt(t, i) + 1
      BY <2>0, <2>1, CloseIs
    <3> QED BY <1>1, <3>1
  <2>2. CASE ~shut(i)
    <3>1. CloseAt(t, i) # 0 /\ onto[i] = CloseAt(t, i) + 1
      BY <2>2
    <3>2. OpenAt(t, i) \in i .. Len(t) /\ CloseAt(t, i) \in OpenAt(t, i) + 1 .. Len(t)
      BY <2>0, <3>1, CloseIs
    <3> QED BY <1>1, <3>1, <3>2
  <2> QED BY <2>1, <2>2
<1>5. \A f, i : i \in 1 .. N => Joined(how[i], piece[i], f[onto[i]]) = AfterAt(t, f, i)
  <2> SUFFICES ASSUME NEW f, NEW i \in 1 .. N
               PROVE  Joined(how[i], piece[i], f[onto[i]]) = AfterAt(t, f, i)
    OBVIOUS
  <2>1. CASE shut(i)
    <3>1. how[i] = "skip" /\ onto[i] = OpenAt(t, i) + 1
      BY <2>1
    <3> HIDE DEF how, piece, onto
    <3>2. Joined(how[i], piece[i], f[onto[i]]) = f[OpenAt(t, i) + 1]
      BY <3>1 DEF Joined
    <3>4. CloseAt(t, i) = 0
      BY <2>1 DEF CloseAt
    <3>3. AfterAt(t, f, i) = f[OpenAt(t, i) + 1]
      BY <2>1, <3>4 DEF AfterAt
    <3> QED BY <3>2, <3>3
  <2>2. CASE ~shut(i) /\ CloseAt(t, i) # 0
    <3>1. how[i] = "over" /\ onto[i] = CloseAt(t, i) + 1 /\ piece[i] = ParamAt(t, i)
      BY <2>2
    <3> HIDE DEF how, piece, onto
    <3>2. Joined(how[i], piece[i], f[onto[i]]) = Over(ParamAt(t, i), f[CloseAt(t, i) + 1])
      BY <3>1 DEF Joined
    <3> QED BY <2>2, <3>2 DEF AfterAt
  <2>3. CASE ~shut(i) /\ CloseAt(t, i) = 0
    <3>1. how[i] = "base" /\ piece[i] = <<>>
      BY <2>3
    <3> HIDE DEF how, piece, onto
    <3>2. Joined(how[i], piece[i], f[onto[i]]) = <<>>
      BY <3>1 DEF Joined
    <3> QED BY <2>3, <3>2 DEF AfterAt
  <2> QED BY <2>1, <2>2, <2>3
<1> HIDE DEF how, piece, onto, N
<1>6. PICK f : Solves(N, how, piece, onto, f)
  BY <1>1, <1>4, Follows
<1>7. f = [i \in 1 .. N |-> AfterAt(t, f, i)]
  <2>1. \A i \in 1 .. N : f[i] = AfterAt(t, f, i)
    BY <1>5, <1>6 DEF Solves
  <2>2. [i \in 1 .. N |-> f[i]] = [i \in 1 .. N |-> AfterAt(t, f, i)]
    BY <2>1
  <2> QED BY <1>6, <2>2 DEF Solves
<1>8. Def(After)
  BY <1>3, <1>7
<1> HIDE DEF After
<1>9. After = [i \in 1 .. N |-> AfterAt(t, After, i)]
  BY <1>3, <1>8
<1>10. \A i \in 1 .. N : After[i] = AfterAt(t, After, i)
  BY <1>9
<1> QED BY <1>2, <1>10 DEF N

(* each parameter stands in the block between its tags                        *)
ArgsFit(a, t) ==
  \A tag \in DOMAIN a : \E s, c : /\ Stands(t, a[tag], s, c) /\ tag \in DOMAIN Kilo!CloseOf
                                  /\ t[s] = tag /\ t[c] = Kilo!CloseOf[tag]

LEMMA ParamsFit ==
  ASSUME NEW t \in Tokens, NEW i \in 1 .. Len(t) + 1
  PROVE  ArgsFit(Kilo!Params(t, i), t)
<1> DEFINE N == Len(t) + 1
<1>1. PICK f : /\ \A j \in 1 .. Len(t) + 1 : f[j] = AfterAt(t, f, j)
               /\ \A j : Kilo!Params(t, j) = f[j]
  BY ParamsAre
<1> DEFINE T == {n \in Nat : \A j \in 1 .. N : N - j <= n => ArgsFit(f[j], t)}
<1>0. N \in Nat /\ Len(t) \in Nat
  BY DEF Tokens
<1>2. ASSUME NEW j \in 1 .. N, \A k \in j + 1 .. N : ArgsFit(f[k], t) PROVE ArgsFit(f[j], t)
  <2> DEFINE o == OpenAt(t, j)
             c == CloseAt(t, j)
  <2>1. /\ o = 0 \/ (o \in j .. Len(t) /\ t[o] \in Kilo!Tag)
        /\ \/ c = 0
           \/ /\ o # 0 /\ t[o] \notin Kilo!Close
              /\ c \in o + 1 .. Len(t) /\ t[c] = Kilo!CloseOf[t[o]]
    BY CloseIs
  <2>2. f[j] = CASE o # 0 /\ t[o] \in Kilo!Close -> f[o + 1]
                 [] c # 0 -> Over(ParamAt(t, j), f[c + 1])
                 [] OTHER -> <<>>
    BY <1>1 DEF AfterAt
  <2>3. ParamAt(t, j) = [tag |-> t[o], body |-> SubSeq(t, o + 1, c - 1)]
    BY DEF ParamAt
  <2> HIDE DEF o, c
  <2>4. CASE o # 0 /\ t[o] \in Kilo!Close
    <3>1. o + 1 \in j + 1 .. N /\ f[j] = f[o + 1]
      BY <1>0, <2>1, <2>2, <2>4
    <3> QED BY <1>2, <3>1
  <2>5. CASE ~(o # 0 /\ t[o] \in Kilo!Close) /\ c # 0
    <3> DEFINE a == ParamAt(t, j)
               later == f[c + 1]
    <3>0. f[j] = Over(a, later)
      BY <2>2, <2>5
    <3>1. o \in 1 .. Len(t) /\ t[o] \in DOMAIN Kilo!CloseOf /\ c \in o + 1 .. Len(t)
          /\ t[c] = Kilo!CloseOf[t[o]] /\ c + 1 \in j + 1 .. N
      BY <1>0, <2>1, <2>5, TagsDiffer
    <3>2. Stands(t, a.body, o, c) /\ a.tag = t[o]
      BY <2>3, <3>1 DEF Stands
    <3>3. ArgsFit(later, t)
      BY <1>2, <3>1
    <3> HIDE DEF a, later
    <3>4. /\ DOMAIN f[j] = DOMAIN later \cup {a.tag}
          /\ \A tag \in DOMAIN f[j] : f[j][tag] = IF tag \in DOMAIN later THEN later[tag] ELSE a.body
      BY <3>0 DEF Over
    <3> SUFFICES ASSUME NEW tag \in DOMAIN f[j]
                 PROVE  \E s, e : /\ Stands(t, f[j][tag], s, e) /\ tag \in DOMAIN Kilo!CloseOf
                                  /\ t[s] = tag /\ t[e] = Kilo!CloseOf[tag]
      BY DEF ArgsFit
    <3>5. CASE tag \in DOMAIN later
      <4>1. f[j][tag] = later[tag]
        BY <3>4, <3>5
      <4> QED BY <3>3, <3>5, <4>1 DEF ArgsFit
    <3>6. CASE tag \notin DOMAIN later
      <4>1. f[j][tag] = a.body /\ tag = a.tag
        BY <3>4, <3>6
      <4> QED BY <3>1, <3>2, <4>1
    <3> QED BY <3>5, <3>6
  <2>6. CASE ~(o # 0 /\ t[o] \in Kilo!Close) /\ c = 0
    <3>1. f[j] = <<>>
      BY <2>2, <2>6
    <3>2. DOMAIN f[j] = {}
      BY <3>1
    <3> QED BY <3>2 DEF ArgsFit
  <2> QED BY <2>4, <2>5, <2>6
<1>3. 0 \in T
  <2> SUFFICES ASSUME NEW j \in 1 .. N, N - j <= 0 PROVE ArgsFit(f[j], t)
    OBVIOUS
  <2>1. \A k \in j + 1 .. N : FALSE
    BY <1>0
  <2> HIDE DEF N
  <2> QED BY <1>2, <2>1
<1>4. ASSUME NEW n \in Nat, n \in T PROVE n + 1 \in T
  <2> SUFFICES ASSUME NEW j \in 1 .. N, N - j <= n + 1 PROVE ArgsFit(f[j], t)
    OBVIOUS
  <2>1. \A k \in j + 1 .. N : k \in 1 .. N /\ N - k <= n
    BY <1>0
  <2>2. \A k \in j + 1 .. N : ArgsFit(f[k], t)
    BY <1>4, <2>1
  <2> HIDE DEF N, T
  <2> QED BY <1>2, <2>2
<1>5. N \in T
  <2> HIDE DEF T
  <2> QED BY <1>0, <1>3, <1>4, CountUp
<1>6. i \in 1 .. N /\ N - i <= N
  BY <1>0
<1>7. ArgsFit(f[i], t)
  <2> HIDE DEF N
  <2> QED BY <1>5, <1>6
<1> QED BY <1>1, <1>7

----------------------------------------------------------------------------
(* A block with a name, as the parser finds it and as the reference does.     *)
Fits(call, b) ==
  /\ \E s, c : Stands(b, call.name, s, c) /\ b[s] = "name" /\ b[c] = "/name"
  /\ ArgsFit(call.args, b)

LEMMA NameIs ==
  ASSUME NEW b \in Tokens, NEW x, x = Kilo!FindTag(b, "name", 1)
  PROVE  \/ /\ ~x.found
            /\ \E m \in 1 .. Len(b) + 1 :
                 /\ \A j \in 1 .. m - 1 : b[j] # "name"
                 /\ m <= Len(b) => b[m] = "name" /\ \A j \in m + 1 .. Len(b) : b[j] # "/name"
         \/ /\ x.found
            /\ Stands(b, x.content, x.start, x.next - 1)
            /\ x.start \in 1 .. Len(b) /\ x.next \in x.start + 2 .. Len(b) + 1
            /\ b[x.start] = "name" /\ b[x.next - 1] = "/name"
            /\ \A j \in 1 .. x.start - 1 : b[j] # "name"
            /\ \A j \in x.start + 1 .. x.next - 2 : b[j] # "/name"
<1> DEFINE F == Kilo!CloseOf["name"]
           y == Kilo!FindTag(b, "name", 1)
<1>0. Len(b) \in Nat /\ F = "/name"
  BY DEF Tokens, Kilo!CloseOf
<1>1. 1 \in 1 .. Len(b) + 1 /\ "name" \in {"tool", "name"}
  BY <1>0
<1>2. \/ /\ ~y.found
         /\ \E m \in 1 .. Len(b) + 1 :
              /\ \A j \in 1 .. m - 1 : b[j] # "name"
              /\ m <= Len(b) => b[m] = "name" /\ \A j \in m + 1 .. Len(b) : b[j] # F
      \/ /\ y.found
         /\ Stands(b, y.content, y.start, y.next - 1)
         /\ y.start \in 1 .. Len(b) /\ y.next \in y.start + 2 .. Len(b) + 1
         /\ b[y.start] = "name" /\ b[y.next - 1] = F
         /\ \A j \in 1 .. y.start - 1 : b[j] # "name"
         /\ \A j \in y.start + 1 .. y.next - 2 : b[j] # F
  BY <1>1, TagIs
<1>3. x = y
  OBVIOUS
<1> HIDE DEF F, y
<1> QED BY <1>0, <1>2, <1>3

LEMMA NamedIs ==
  ASSUME NEW b \in Tokens, NEW x, x = Kilo!FindTag(b, "name", 1)
  PROVE  /\ Kilo!Named(b) <=> x.found /\ x.content # <<>>
         /\ x.found => x.next \in 1 .. Len(b) + 1
         /\ Kilo!Named(b) => /\ Stands(b, x.content, x.start, x.next - 1)
                             /\ b[x.start] = "name" /\ b[x.next - 1] = "/name"
<1>0. Len(b) \in Nat /\ DOMAIN b = 1 .. Len(b)
  BY DEF Tokens
<1>1. CASE /\ ~x.found
           /\ \E m \in 1 .. Len(b) + 1 :
                /\ \A j \in 1 .. m - 1 : b[j] # "name"
                /\ m <= Len(b) => b[m] = "name" /\ \A j \in m + 1 .. Len(b) : b[j] # "/name"
  <2>1. PICK m \in 1 .. Len(b) + 1 :
          /\ \A j \in 1 .. m - 1 : b[j] # "name"
          /\ m <= Len(b) => b[m] = "name" /\ \A j \in m + 1 .. Len(b) : b[j] # "/name"
    BY <1>1
  <2>2. ASSUME Kilo!Named(b) PROVE FALSE
    <3>1. PICK i, j \in 1 .. Len(b) : /\ b[i] = "name" /\ b[j] = "/name" /\ i + 1 < j
                                      /\ \A n \in 1 .. i - 1 : b[n] # "name"
      BY <1>0, <2>2 DEF Kilo!Named
    <3>2. m <= i
      <4>1. m > i => i \in 1 .. m - 1
        BY <1>0, <3>1
      <4> QED BY <1>0, <2>1, <3>1, <4>1
    <3>3. i <= m
      <4>1. i > m => m \in 1 .. i - 1 /\ m <= Len(b)
        BY <1>0, <3>1
      <4> QED BY <1>0, <2>1, <3>1, <4>1
    <3>4. m <= Len(b) /\ j \in m + 1 .. Len(b)
      BY <1>0, <3>1, <3>2, <3>3
    <3> QED BY <2>1, <3>1, <3>4
  <2> QED BY <1>1, <2>2
<1>2. CASE /\ x.found
           /\ Stands(b, x.content, x.start, x.next - 1)
           /\ x.start \in 1 .. Len(b) /\ x.next \in x.start + 2 .. Len(b) + 1
           /\ b[x.start] = "name" /\ b[x.next - 1] = "/name"
           /\ \A j \in 1 .. x.start - 1 : b[j] # "name"
           /\ \A j \in x.start + 1 .. x.next - 2 : b[j] # "/name"
  <2> DEFINE s == x.start
             c == x.next - 1
  <2>1. /\ s \in 1 .. Len(b) /\ c \in s + 1 .. Len(b) /\ c \in 1 .. Len(b) /\ c - 1 = x.next - 2
        /\ x.next \in 1 .. Len(b) + 1
    BY <1>0, <1>2
  <2>2. /\ b[s] = "name" /\ b[c] = "/name" /\ x.content = SubSeq(b, s + 1, c - 1)
        /\ \A j \in 1 .. s - 1 : b[j] # "name"
        /\ \A j \in s + 1 .. c - 1 : b[j] # "/name"
    BY <1>2, <2>1 DEF Stands
  <2> HIDE DEF s, c
  <2>3. x.content # <<>> <=> s + 1 < c
    <3>1. \A p, q \in Nat : p >= 1 /\ q <= Len(b) => (SubSeq(b, p, q) # <<>> <=> p <= q)
      BY DEF Tokens
    <3>2. s + 1 \in Nat /\ s + 1 >= 1 /\ c - 1 \in Nat /\ c - 1 <= Len(b)
      BY <1>0, <2>1
    <3>3. x.content # <<>> <=> s + 1 <= c - 1
      BY <2>2, <3>1, <3>2
    <3> QED BY <1>0, <2>1, <3>3
  <2>4. ASSUME s + 1 < c PROVE Kilo!Named(b)
    <3>1. \A n \in 1 .. c - 1 : b[n] = "/name" => n < s
      <4> SUFFICES ASSUME NEW n \in 1 .. c - 1, b[n] = "/name", ~(n < s) PROVE FALSE
        OBVIOUS
      <4>1. n = s \/ n \in s + 1 .. c - 1
        BY <1>0, <2>1
      <4> QED BY <2>2, <4>1
    <3> QED BY <1>0, <2>1, <2>2, <2>4, <3>1 DEF Kilo!Named
  <2>5. ASSUME Kilo!Named(b) PROVE s + 1 < c
    <3>1. PICK i, j \in 1 .. Len(b) : /\ b[i] = "name" /\ b[j] = "/name" /\ i + 1 < j
                                      /\ \A n \in 1 .. j - 1 : b[n] = "/name" => n < i
                                      /\ \A n \in 1 .. i - 1 : b[n] # "name"
      BY <1>0, <2>5 DEF Kilo!Named
    <3>2. i = s
      <4>1. i < s => i \in 1 .. s - 1
        BY <1>0, <2>1, <3>1
      <4>2. s < i => s \in 1 .. i - 1
        BY <1>0, <2>1, <3>1
      <4>3. ~(i < s) /\ ~(s < i)
        BY <2>2, <3>1, <4>1, <4>2
      <4> QED BY <1>0, <2>1, <3>1, <4>3
    <3>3. j <= c
      <4>1. c < j => c \in 1 .. j - 1
        BY <1>0, <2>1, <3>1
      <4>2. c < j => c < i
        BY <2>2, <3>1, <4>1
      <4> QED BY <1>0, <2>1, <3>1, <3>2, <4>2
    <3> QED BY <1>0, <2>1, <3>1, <3>2, <3>3
  <2> QED BY <1>2, <2>1, <2>3, <2>4, <2>5
<1>3. \/ /\ ~x.found
         /\ \E m \in 1 .. Len(b) + 1 :
              /\ \A j \in 1 .. m - 1 : b[j] # "name"
              /\ m <= Len(b) => b[m] = "name" /\ \A j \in m + 1 .. Len(b) : b[j] # "/name"
      \/ /\ x.found
         /\ Stands(b, x.content, x.start, x.next - 1)
         /\ x.start \in 1 .. Len(b) /\ x.next \in x.start + 2 .. Len(b) + 1
         /\ b[x.start] = "name" /\ b[x.next - 1] = "/name"
         /\ \A j \in 1 .. x.start - 1 : b[j] # "name"
         /\ \A j \in x.start + 1 .. x.next - 2 : b[j] # "/name"
  BY NameIs
<1> QED BY <1>1, <1>2, <1>3

LEMMA CallFits ==
  ASSUME NEW b \in Tokens, Kilo!Named(b), NEW x, x = Kilo!FindTag(b, "name", 1),
         NEW call, call = [name |-> x.content, args |-> Kilo!Params(b, x.next)]
  PROVE  Fits(call, b)
<1>1. /\ x.next \in 1 .. Len(b) + 1 /\ Stands(b, x.content, x.start, x.next - 1)
      /\ b[x.start] = "name" /\ b[x.next - 1] = "/name"
  BY NamedIs
<1>2. ArgsFit(Kilo!Params(b, x.next), b)
  BY <1>1, ParamsFit
<1>3. call.name = x.content /\ call.args = Kilo!Params(b, x.next)
  OBVIOUS
<1> QED BY <1>1, <1>2, <1>3 DEF Fits
----------------------------------------------------------------------------
(* The calls of a text and what is left of it, place by place.                *)
BlockAt(t, i) == Kilo!FindTag(t, "tool", i)
NameAt(t, i) == Kilo!FindTag(BlockAt(t, i).content, "name", 1)
CallAt(t, i) ==
  [name |-> NameAt(t, i).content, args |-> Kilo!Params(BlockAt(t, i).content, NameAt(t, i).next)]
Nameless(t, i) == ~NameAt(t, i).found \/ NameAt(t, i).content = <<>>
CallsAt(t, f, i) ==
  IF ~BlockAt(t, i).found THEN <<>>
  ELSE IF Nameless(t, i) THEN f[BlockAt(t, i).next]
  ELSE <<CallAt(t, i)>> \o f[BlockAt(t, i).next]
RestAt(t, f, i) ==
  IF BlockAt(t, i).found THEN SubSeq(t, i, BlockAt(t, i).start - 1) \o f[BlockAt(t, i).next]
  ELSE SubSeq(t, i, Len(t))

LEMMA NextIs ==
  ASSUME NEW t \in Tokens, NEW i \in 1 .. Len(t) + 1, BlockAt(t, i).found
  PROVE  BlockAt(t, i).next \in i + 1 .. Len(t) + 1
BY BlockIs DEF BlockAt

LEMMA CallsAre ==
  ASSUME NEW t \in Tokens
  PROVE  \E f : /\ \A i \in 1 .. Len(t) + 1 : f[i] = CallsAt(t, f, i)
                /\ \A i : Kilo!ParseFrom(t, i) = f[i]
<1> DEFINE N == Len(t) + 1
           Def(f) == f = [i \in 1 .. N |->
             LET block == Kilo!FindTag(t, "tool", i)
                 name == Kilo!FindTag(block.content, "name", 1)
             IN IF ~block.found THEN <<>>
                ELSE IF ~name.found \/ name.content = <<>> THEN f[Kilo!AfterNameless(t, block)]
                ELSE <<[name |-> name.content, args |-> Kilo!Params(block.content, name.next)]>>
                       \o f[block.next]]
           Calls == CHOOSE f : Def(f)
<1>1. N \in Nat /\ Len(t) \in Nat
  BY DEF Tokens
<1>2. \A i : Kilo!ParseFrom(t, i) = Calls[i]
  BY DEF Kilo!ParseFrom
<1>3. \A f : Def(f) <=> f = [i \in 1 .. N |-> CallsAt(t, f, i)]
  BY DEF CallsAt, Nameless, CallAt, NameAt, BlockAt, Kilo!AfterNameless
<1> HIDE DEF Def
<1> DEFINE how == [i \in 1 .. N |-> IF ~BlockAt(t, i).found THEN "base"
                                    ELSE IF Nameless(t, i) THEN "skip" ELSE "join"]
           piece == [i \in 1 .. N |-> IF BlockAt(t, i).found THEN <<CallAt(t, i)>> ELSE <<>>]
           onto == [i \in 1 .. N |-> BlockAt(t, i).next]
<1>4. Leads(N, how, onto)
  <2> SUFFICES ASSUME NEW i \in 1 .. N, how[i] # "base" PROVE onto[i] \in i + 1 .. N
    BY DEF Leads
  <2>1. i \in 1 .. Len(t) + 1 /\ BlockAt(t, i).found /\ onto[i] = BlockAt(t, i).next
    OBVIOUS
  <2> HIDE DEF how, onto
  <2> QED BY <2>1, NextIs
<1>5. \A f, i : i \in 1 .. N => Joined(how[i], piece[i], f[onto[i]]) = CallsAt(t, f, i)
  <2> SUFFICES ASSUME NEW f, NEW i \in 1 .. N
               PROVE  Joined(how[i], piece[i], f[onto[i]]) = CallsAt(t, f, i)
    OBVIOUS
  <2>0. onto[i] = BlockAt(t, i).next
    OBVIOUS
  <2>1. CASE ~BlockAt(t, i).found
    <3>1. how[i] = "base" /\ piece[i] = <<>>
      BY <2>1
    <3> HIDE DEF how, piece, onto
    <3> QED BY <2>1, <3>1 DEF Joined, CallsAt
  <2>2. CASE BlockAt(t, i).found /\ Nameless(t, i)
    <3>1. how[i] = "skip"
      BY <2>2
    <3> HIDE DEF how, piece, onto
    <3> QED BY <2>0, <2>2, <3>1 DEF Joined, CallsAt
  <2>3. CASE BlockAt(t, i).found /\ ~Nameless(t, i)
    <3>1. how[i] = "join" /\ piece[i] = <<CallAt(t, i)>>
      BY <2>3
    <3> HIDE DEF how, piece, onto
    <3> QED BY <2>0, <2>3, <3>1 DEF Joined, CallsAt
  <2> QED BY <2>1, <2>2, <2>3
<1> HIDE DEF how, piece, onto, N
<1>6. PICK f : Solves(N, how, piece, onto, f)
  BY <1>1, <1>4, Follows
<1>7. f = [i \in 1 .. N |-> CallsAt(t, f, i)]
  <2>1. \A i \in 1 .. N : f[i] = CallsAt(t, f, i)
    BY <1>5, <1>6 DEF Solves
  <2>2. [i \in 1 .. N |-> f[i]] = [i \in 1 .. N |-> CallsAt(t, f, i)]
    BY <2>1
  <2> QED BY <1>6, <2>2 DEF Solves
<1>8. Def(Calls)
  BY <1>3, <1>7
<1> HIDE DEF Calls
<1>9. Calls = [i \in 1 .. N |-> CallsAt(t, Calls, i)]
  BY <1>3, <1>8
<1>10. \A i \in 1 .. N : Calls[i] = CallsAt(t, Calls, i)
  BY <1>9
<1> QED BY <1>2, <1>10 DEF N

LEMMA RestsAre ==
  ASSUME NEW t \in Tokens
  PROVE  \E f : /\ \A i \in 1 .. Len(t) + 1 : f[i] = RestAt(t, f, i)
                /\ Kilo!Stripped(t) = f[1]
<1> DEFINE N == Len(t) + 1
           Def(f) == f = [i \in 1 .. N |->
             LET block == Kilo!FindTag(t, "tool", i)
             IN IF block.found THEN SubSeq(t, i, block.start - 1) \o f[block.next]
                               ELSE SubSeq(t, i, Len(t))]
           Rest == CHOOSE f : Def(f)
<1>1. N \in Nat /\ Len(t) \in Nat
  BY DEF Tokens
<1>2. Kilo!Stripped(t) = Rest[1]
  BY DEF Kilo!Stripped
<1>3. \A f : Def(f) <=> f = [i \in 1 .. N |-> RestAt(t, f, i)]
  BY DEF RestAt, BlockAt
<1> HIDE DEF Def
<1> DEFINE how == [i \in 1 .. N |-> IF BlockAt(t, i).found THEN "join" ELSE "base"]
           piece == [i \in 1 .. N |-> IF BlockAt(t, i).found
                                      THEN SubSeq(t, i, BlockAt(t, i).start - 1)
                                      ELSE SubSeq(t, i, Len(t))]
           onto == [i \in 1 .. N |-> BlockAt(t, i).next]
<1>4. Leads(N, how, onto)
  <2> SUFFICES ASSUME NEW i \in 1 .. N, how[i] # "base" PROVE onto[i] \in i + 1 .. N
    BY DEF Leads
  <2>1. i \in 1 .. Len(t) + 1 /\ BlockAt(t, i).found /\ onto[i] = BlockAt(t, i).next
    OBVIOUS
  <2> HIDE DEF how, onto
  <2> QED BY <2>1, NextIs
<1>5. \A f, i : i \in 1 .. N => Joined(how[i], piece[i], f[onto[i]]) = RestAt(t, f, i)
  <2> SUFFICES ASSUME NEW f, NEW i \in 1 .. N
               PROVE  Joined(how[i], piece[i], f[onto[i]]) = RestAt(t, f, i)
    OBVIOUS
  <2>0. onto[i] = BlockAt(t, i).next
    OBVIOUS
  <2>1. CASE ~BlockAt(t, i).found
    <3>1. how[i] = "base" /\ piece[i] = SubSeq(t, i, Len(t))
      BY <2>1
    <3> HIDE DEF how, piece, onto
    <3> QED BY <2>1, <3>1 DEF Joined, RestAt
  <2>2. CASE BlockAt(t, i).found
    <3>1. how[i] = "join" /\ piece[i] = SubSeq(t, i, BlockAt(t, i).start - 1)
      BY <2>2
    <3> HIDE DEF how, piece, onto
    <3> QED BY <2>0, <2>2, <3>1 DEF Joined, RestAt
  <2> QED BY <2>1, <2>2
<1> HIDE DEF how, piece, onto, N
<1>6. PICK f : Solves(N, how, piece, onto, f)
  BY <1>1, <1>4, Follows
<1>7. f = [i \in 1 .. N |-> RestAt(t, f, i)]
  <2>1. \A i \in 1 .. N : f[i] = RestAt(t, f, i)
    BY <1>5, <1>6 DEF Solves
  <2>2. [i \in 1 .. N |-> f[i]] = [i \in 1 .. N |-> RestAt(t, f, i)]
    BY <2>1
  <2> QED BY <1>6, <2>2 DEF Solves
<1>8. Def(Rest)
  BY <1>3, <1>7
<1> HIDE DEF Rest
<1>9. Rest = [i \in 1 .. N |-> RestAt(t, Rest, i)]
  BY <1>3, <1>8
<1>10. \A i \in 1 .. N : Rest[i] = RestAt(t, Rest, i)
  BY <1>9
<1> QED BY <1>2, <1>10 DEF N

----------------------------------------------------------------------------
(* From each place outside a block the parser finds the calls of the blocks   *)
(* with a name that the pass is still to collect.                             *)
CallsFit(calls, blocks) ==
  /\ Len(calls) = Len(blocks)
  /\ \A n \in 1 .. Len(blocks) : Fits(calls[n], blocks[n])

LEMMA CallsFound ==
  ASSUME NEW t \in Tokens
  PROVE  /\ Kilo!Blocks(t).named \in Seq(Tokens)
         /\ \E C : Kilo!ParseFrom(t, 1) \in Seq(C)
         /\ CallsFit(Kilo!ParseFrom(t, 1), Kilo!Blocks(t).named)
<1> DEFINE l == Len(t)
           N == Len(t) + 1
           C == {CallAt(t, i) : i \in 1 .. N}
<1>1. PICK f : /\ \A i \in 1 .. Len(t) + 1 : f[i] = CallsAt(t, f, i)
               /\ \A i : Kilo!ParseFrom(t, i) = f[i]
  BY CallsAre
<1>2. PICK h : Passes(h, t, Len(t)) /\ Kilo!Blocks(t) = h[Len(t)]
  BY BlocksPass
<1>0. l \in Nat /\ N \in Nat /\ l = Len(t) /\ N = Len(t) + 1 /\ 1 \in 1 .. N
  BY DEF Tokens
<1>3. \A n \in 0 .. Len(t) : h[n].named \in Seq(Tokens)
  BY <1>2, PassTyped DEF Pass
<1> DEFINE Fine(i) == ~h[i - 1].in =>
             \E rest \in Seq(Tokens) : /\ h[l].named = h[i - 1].named \o rest
                                       /\ f[i] \in Seq(C) /\ CallsFit(f[i], rest)
           T == {n \in Nat : \A i \in 1 .. N : N - i <= n => Fine(i)}
<1>4. ASSUME NEW i \in 1 .. N, \A k \in i + 1 .. N : Fine(k) PROVE Fine(i)
  <2> SUFFICES ASSUME ~h[i - 1].in
               PROVE  \E rest \in Seq(Tokens) : /\ h[l].named = h[i - 1].named \o rest
                                                /\ f[i] \in Seq(C) /\ CallsFit(f[i], rest)
    OBVIOUS
  <2> DEFINE b == BlockAt(t, i)
  <2>0. i - 1 \in 0 .. Len(t) /\ i \in 1 .. Len(t) + 1
    BY <1>0
  <2>1. h[i - 1].named \in Seq(Tokens)
    BY <1>3, <2>0
  <2>2. \/ ~b.found /\ Without(t, i)
        \/ /\ b.found /\ Within(t, i, b.start, b.next - 1)
           /\ b.content = SubSeq(t, b.start + 1, b.next - 2) /\ b.content \in Tokens
           /\ b.start \in i .. Len(t) /\ b.next \in i + 1 .. Len(t) + 1
    BY <2>0, BlockIs DEF BlockAt
  <2>3. f[i] = CallsAt(t, f, i)
    BY <1>1, <2>0
  <2>4. CASE ~b.found /\ Without(t, i)
    <3>1. h[l].named = h[i - 1].named
      BY <1>2, <2>0, <2>4, NoneTaken
    <3>2. f[i] = <<>>
      BY <2>3, <2>4 DEF CallsAt
    <3>3. \A u \in Seq(Tokens) : u = u \o <<>>
      OBVIOUS
    <3>4. <<>> \in Seq(Tokens) /\ <<>> \in Seq(C) /\ Len(<<>>) = 0
      OBVIOUS
    <3>5. CallsFit(<<>>, <<>>)
      BY DEF CallsFit
    <3> HIDE DEF C
    <3>6. h[l].named = h[i - 1].named \o <<>>
      BY <2>1, <3>1, <3>3
    <3> QED BY <3>2, <3>4, <3>5, <3>6
  <2>5. CASE /\ b.found /\ Within(t, i, b.start, b.next - 1)
             /\ b.content = SubSeq(t, b.start + 1, b.next - 2) /\ b.content \in Tokens
             /\ b.start \in i .. Len(t) /\ b.next \in i + 1 .. Len(t) + 1
    <3> DEFINE x == NameAt(t, i)
               c == b.next - 1
               k == b.next
               s == b.start
               block == b.content
    <3>1. k \in i + 1 .. N /\ k - 1 = c /\ c \in 0 .. Len(t) /\ c - 1 = b.next - 2 /\ k \in 1 .. N
      BY <1>0, <2>5
    <3>2. block = SubSeq(t, s + 1, c - 1)
      BY <2>5, <3>1
    <3>3. x = Kilo!FindTag(block, "name", 1)
      BY DEF NameAt
    <3>4. CallAt(t, i) = [name |-> x.content, args |-> Kilo!Params(block, x.next)]
      BY DEF CallAt
    <3>5. Nameless(t, i) <=> ~x.found \/ x.content = <<>>
      BY DEF Nameless
    <3>14. f[i] = IF Nameless(t, i) THEN f[k] ELSE <<CallAt(t, i)>> \o f[k]
      BY <2>3, <2>5 DEF CallsAt
    <3>15. Within(t, i, s, c) /\ block \in Tokens
      BY <2>5
    <3>16. Passes(h, t, Len(t)) /\ ~h[i - 1].in
      BY <1>2
    <3> HIDE DEF x, c, k, s, block, b
    <3>6. /\ ~h[c].in
          /\ h[c].named = IF Kilo!Named(block) THEN Append(h[i - 1].named, block)
                                               ELSE h[i - 1].named
      <4>1. Collects(h[i - 1], block, h[c])
        BY <2>0, <3>2, <3>15, <3>16, BlockTaken
      <4> QED BY <4>1 DEF Collects
    <3>7. PICK rest \in Seq(Tokens) : /\ h[l].named = h[c].named \o rest
                                      /\ f[k] \in Seq(C) /\ CallsFit(f[k], rest)
      BY <1>4, <3>1, <3>6
    <3>8. Kilo!Named(block) <=> ~Nameless(t, i)
      BY <3>3, <3>5, <3>15, NamedIs
    <3>9. CASE Nameless(t, i)
      BY <3>6, <3>7, <3>8, <3>9, <3>14
    <3>10. CASE ~Nameless(t, i)
      <4> DEFINE call == CallAt(t, i)
                 all == <<block>> \o rest
                 calls == <<call>> \o f[k]
      <4>1. Fits(call, block)
        BY <3>3, <3>4, <3>8, <3>10, <3>15, CallFits
      <4>2. call \in C
        BY <1>0
      <4> HIDE DEF call, C
      <4>3. all \in Seq(Tokens) /\ calls \in Seq(C)
        BY <3>7, <3>15, <4>2
      <4>4. Append(h[i - 1].named, block) \o rest = h[i - 1].named \o all
        <5>1. \A u, v \in Seq(Tokens) : \A y \in Tokens : Append(u, y) \o v = u \o (<<y>> \o v)
          OBVIOUS
        <5> QED BY <2>1, <3>7, <3>15, <5>1
      <4>5. h[l].named = h[i - 1].named \o all
        BY <3>6, <3>7, <3>8, <3>10, <4>4
      <4>6. CallsFit(calls, all)
        <5>1. Len(f[k]) = Len(rest) /\ (\A n \in 1 .. Len(rest) : Fits(f[k][n], rest[n]))
              /\ Len(rest) \in Nat
          BY <3>7 DEF CallsFit
        <5>2. /\ Len(all) = Len(rest) + 1 /\ all[1] = block
              /\ \A n \in 1 .. Len(rest) : all[n + 1] = rest[n]
          BY <3>7, <3>15
        <5>3. /\ Len(calls) = Len(f[k]) + 1 /\ calls[1] = call
              /\ \A n \in 1 .. Len(f[k]) : calls[n + 1] = f[k][n]
          BY <3>7, <4>2
        <5> HIDE DEF all, calls
        <5> SUFFICES ASSUME NEW n \in 1 .. Len(all) PROVE Fits(calls[n], all[n])
          BY <5>1, <5>2, <5>3 DEF CallsFit
        <5>4. CASE n = 1
          BY <4>1, <5>2, <5>3, <5>4
        <5>5. CASE n # 1
          <6> DEFINE m == n - 1
          <6>1. m \in 1 .. Len(rest) /\ m \in 1 .. Len(f[k]) /\ n = m + 1
            BY <5>1, <5>2, <5>5
          <6> HIDE DEF m
          <6>2. calls[n] = f[k][m] /\ all[n] = rest[m]
            BY <5>2, <5>3, <6>1
          <6> QED BY <5>1, <6>1, <6>2
        <5> QED BY <5>4, <5>5
      <4>7. f[i] = calls
        BY <3>10, <3>14 DEF call
      <4> HIDE DEF all, calls
      <4> QED BY <4>3, <4>5, <4>6, <4>7
    <3> QED BY <3>9, <3>10
  <2> HIDE DEF C, b, l, N
  <2> QED BY <2>2, <2>4, <2>5
<1> HIDE DEF Fine, C
<1>5. 0 \in T
  <2> SUFFICES ASSUME NEW i \in 1 .. N, N - i <= 0 PROVE Fine(i)
    OBVIOUS
  <2>1. \A k \in i + 1 .. N : FALSE
    BY <1>0
  <2> HIDE DEF N
  <2> QED BY <1>4, <2>1
<1>6. ASSUME NEW n \in Nat, n \in T PROVE n + 1 \in T
  <2> SUFFICES ASSUME NEW i \in 1 .. N, N - i <= n + 1 PROVE Fine(i)
    OBVIOUS
  <2>1. \A k \in i + 1 .. N : k \in 1 .. N /\ N - k <= n
    BY <1>0
  <2>2. \A k \in i + 1 .. N : Fine(k)
    BY <1>6, <2>1
  <2> HIDE DEF N, T
  <2> QED BY <1>4, <2>2
<1>7. N \in T
  <2> HIDE DEF T, N, l
  <2> QED BY <1>0, <1>5, <1>6, CountUp
<1>8. Fine(1)
  <2>1. N - 1 <= N
    BY <1>0
  <2> HIDE DEF N
  <2> QED BY <1>0, <1>7, <2>1
<1>9. 1 - 1 = 0 /\ ~h[0].in /\ h[0].named = <<>>
  BY <1>2, StartTyped DEF Passes
<1>10. PICK rest \in Seq(Tokens) : /\ h[l].named = <<>> \o rest
                                   /\ f[1] \in Seq(C) /\ CallsFit(f[1], rest)
  BY <1>8, <1>9 DEF Fine
<1>11. h[l].named = rest
  BY <1>10
<1>12. Kilo!ParseFrom(t, 1) = f[1] /\ Kilo!Blocks(t).named = rest
  BY <1>1, <1>2, <1>11
<1> QED BY <1>10, <1>12
----------------------------------------------------------------------------
(* What is left of a text without its blocks opens none before the end of one *)
Clean(u) ==
  /\ u \in Tokens
  /\ \A i, j \in 1 .. Len(u) : i < j /\ u[i] = "tool" => u[j] # "/tool"

LEMMA CleanAfter ==
  ASSUME NEW u \in Tokens, \A i \in 1 .. Len(u) : u[i] # "tool", NEW v, Clean(v)
  PROVE  Clean(u \o v)
<1> DEFINE w == u \o v
<1>1. /\ w \in Tokens /\ Len(w) = Len(u) + Len(v) /\ Len(u) \in Nat /\ Len(v) \in Nat
      /\ \A i \in 1 .. Len(u) : w[i] = u[i]
      /\ \A i \in 1 .. Len(v) : w[Len(u) + i] = v[i]
  BY DEF Tokens, Clean
<1> HIDE DEF w
<1> SUFFICES ASSUME NEW i \in 1 .. Len(w), NEW j \in 1 .. Len(w), i < j, w[i] = "tool"
             PROVE  w[j] # "/tool"
  BY <1>1 DEF Clean, w
<1>2. i > Len(u)
  BY <1>1
<1> DEFINE p == i - Len(u)
           q == j - Len(u)
<1>3. p \in 1 .. Len(v) /\ q \in 1 .. Len(v) /\ p < q /\ i = Len(u) + p /\ j = Len(u) + q
  BY <1>1, <1>2
<1> HIDE DEF p, q
<1>4. v[p] = "tool" /\ w[j] = v[q]
  BY <1>1, <1>3
<1> QED BY <1>3, <1>4 DEF Clean

LEMMA PieceIs ==
  ASSUME NEW t \in Tokens, NEW p \in Nat, NEW q \in Nat, p >= 1, p <= q + 1, q <= Len(t)
  PROVE  /\ SubSeq(t, p, q) \in Tokens /\ Len(SubSeq(t, p, q)) = q + 1 - p
         /\ \A n \in 1 .. q + 1 - p : SubSeq(t, p, q)[n] = t[p + n - 1]
BY DEF Tokens

LEMMA StrippedClean == ASSUME NEW t \in Tokens PROVE Clean(Kilo!Stripped(t))
<1> DEFINE N == Len(t) + 1
<1>1. PICK f : /\ \A i \in 1 .. Len(t) + 1 : f[i] = RestAt(t, f, i)
               /\ Kilo!Stripped(t) = f[1]
  BY RestsAre
<1>0. N \in Nat /\ Len(t) \in Nat /\ N = Len(t) + 1 /\ 1 \in 1 .. N
  BY DEF Tokens
<1> DEFINE T == {n \in Nat : \A i \in 1 .. N : N - i <= n => Clean(f[i])}
<1>2. ASSUME NEW i \in 1 .. N, \A k \in i + 1 .. N : Clean(f[k]) PROVE Clean(f[i])
  <2> DEFINE b == BlockAt(t, i)
  <2>0. i \in 1 .. Len(t) + 1
    BY <1>0
  <2>1. \/ ~b.found /\ Without(t, i)
        \/ /\ b.found /\ Within(t, i, b.start, b.next - 1)
           /\ b.start \in i .. Len(t) /\ b.next \in i + 1 .. Len(t) + 1
    BY <2>0, BlockIs DEF BlockAt
  <2>2. f[i] = IF b.found THEN SubSeq(t, i, b.start - 1) \o f[b.next] ELSE SubSeq(t, i, Len(t))
    BY <1>1, <2>0 DEF RestAt
  <2> HIDE DEF b
  <2>3. CASE ~b.found /\ Without(t, i)
    <3> DEFINE u == SubSeq(t, i, Len(t))
    <3>1. PICK m \in i .. Len(t) + 1 :
            /\ \A j \in i .. m - 1 : t[j] # "tool"
            /\ m <= Len(t) => t[m] = "tool" /\ \A j \in m + 1 .. Len(t) : t[j] # "/tool"
      BY <2>3 DEF Without
    <3>2. /\ u \in Tokens /\ Len(u) = Len(t) + 1 - i
          /\ \A n \in 1 .. Len(t) + 1 - i : u[n] = t[i + n - 1]
      <4>1. i \in Nat /\ Len(t) \in Nat /\ i >= 1 /\ i <= Len(t) + 1 /\ Len(t) <= Len(t)
        BY <1>0
      <4> QED BY <4>1, PieceIs
    <3> HIDE DEF u
    <3>3. ASSUME NEW p \in 1 .. Len(u), NEW q \in 1 .. Len(u), p < q, u[p] = "tool"
          PROVE  u[q] # "/tool"
      <4>1. t[i + p - 1] = "tool" /\ u[q] = t[i + q - 1]
        BY <3>2, <3>3
      <4>2. ~(i + p - 1 < m)
        <5>1. i + p - 1 < m => i + p - 1 \in i .. m - 1
          BY <1>0, <3>2
        <5> QED BY <3>1, <4>1, <5>1
      <4>3. i + q - 1 \in m + 1 .. Len(t) /\ m <= Len(t)
        BY <1>0, <3>2, <3>3, <4>2
      <4> QED BY <3>1, <4>1, <4>3
    <3>4. Clean(u)
      BY <3>2, <3>3 DEF Clean
    <3> QED BY <2>2, <2>3, <3>4 DEF u
  <2>4. CASE /\ b.found /\ Within(t, i, b.start, b.next - 1)
             /\ b.start \in i .. Len(t) /\ b.next \in i + 1 .. Len(t) + 1
    <3> DEFINE s == b.start
               u == SubSeq(t, i, s - 1)
    <3>1. Clean(f[b.next])
      BY <1>0, <1>2, <2>4
    <3>2. \A j \in i .. s - 1 : t[j] # "tool"
      BY <2>4 DEF Within
    <3>3. s \in i .. Len(t)
      BY <2>4
    <3> HIDE DEF s
    <3>4. /\ u \in Tokens /\ Len(u) = s - i
          /\ \A n \in 1 .. s - i : u[n] = t[i + n - 1]
      <4> DEFINE q == s - 1
      <4>1. /\ i \in Nat /\ q \in Nat /\ i >= 1 /\ i <= q + 1 /\ q <= Len(t) /\ q + 1 - i = s - i
            /\ u = SubSeq(t, i, q)
        BY <1>0, <3>3
      <4> HIDE DEF q, u
      <4>2. /\ SubSeq(t, i, q) \in Tokens /\ Len(SubSeq(t, i, q)) = q + 1 - i
            /\ \A n \in 1 .. q + 1 - i : SubSeq(t, i, q)[n] = t[i + n - 1]
        BY <4>1, PieceIs
      <4> QED BY <4>1, <4>2
    <3> HIDE DEF u
    <3>5. ASSUME NEW n \in 1 .. Len(u) PROVE u[n] # "tool"
      <4>1. i + n - 1 \in i .. s - 1 /\ u[n] = t[i + n - 1]
        BY <1>0, <3>3, <3>4
      <4> QED BY <3>2, <4>1
    <3>6. Clean(u \o f[b.next])
      BY <3>1, <3>4, <3>5, CleanAfter
    <3> QED BY <2>2, <2>4, <3>6 DEF u, s
  <2> QED BY <2>1, <2>3, <2>4
<1>3. 0 \in T
  <2> SUFFICES ASSUME NEW i \in 1 .. N, N - i <= 0 PROVE Clean(f[i])
    OBVIOUS
  <2>1. \A k \in i + 1 .. N : FALSE
    BY <1>0
  <2> HIDE DEF N
  <2> QED BY <1>2, <2>1
<1>4. ASSUME NEW n \in Nat, n \in T PROVE n + 1 \in T
  <2> SUFFICES ASSUME NEW i \in 1 .. N, N - i <= n + 1 PROVE Clean(f[i])
    OBVIOUS
  <2>1. \A k \in i + 1 .. N : k \in 1 .. N /\ N - k <= n
    BY <1>0
  <2>2. \A k \in i + 1 .. N : Clean(f[k])
    BY <1>4, <2>1
  <2> HIDE DEF N, T
  <2> QED BY <1>2, <2>2
<1>5. N \in T
  <2> HIDE DEF T, N
  <2> QED BY <1>0, <1>3, <1>4, CountUp
<1>6. Clean(f[1])
  <2>1. N - 1 <= N
    BY <1>0
  <2> HIDE DEF N
  <2> QED BY <1>0, <1>5, <2>1
<1> QED BY <1>1, <1>6

LEMMA StrippedBare == ASSUME NEW t \in Tokens PROVE Kilo!Blocks(Kilo!Stripped(t)).all = <<>>
BY StrippedClean, NoBlocks DEF Clean

----------------------------------------------------------------------------
LEMMA StandsIn ==
  ASSUME NEW b \in Tokens, NEW v, NEW s, NEW c, Stands(b, v, s, c)
  PROVE  /\ s \in DOMAIN b
         /\ Kilo!IsPrefix(<<b[s]>> \o v \o <<b[c]>>, SubSeq(b, s, Len(b)))
<1>1. /\ Len(b) \in Nat /\ DOMAIN b = 1 .. Len(b) /\ \A n \in 1 .. Len(b) : b[n] \in Token
      /\ b \in Seq(Token)
  BY DEF Tokens
<1>2. s \in 1 .. Len(b) /\ c \in s + 1 .. Len(b) /\ v = SubSeq(b, s + 1, c - 1)
  BY DEF Stands
<1>3. /\ s \in Nat /\ c \in Nat /\ s >= 1 /\ s + 1 <= c /\ c <= Len(b) /\ c \in 1 .. Len(b)
      /\ c - 1 \in Nat /\ s + 1 <= (c - 1) + 1 /\ c - 1 <= Len(b) /\ s <= Len(b) + 1
  BY <1>1, <1>2
<1> DEFINE w == <<b[s]>> \o v \o <<b[c]>>
           z == SubSeq(b, s, Len(b))
           k == c - 1
           x == b[s]
           y == b[c]
           l == c + 1 - s
<1>4. /\ v \in Tokens /\ Len(v) = c - (s + 1)
      /\ \A n \in 1 .. c - (s + 1) : v[n] = b[s + n]
  <2>1. s + 1 \in Nat /\ k \in Nat /\ s + 1 >= 1 /\ s + 1 <= k + 1 /\ k <= Len(b)
        /\ v = SubSeq(b, s + 1, k) /\ k + 1 = c
    BY <1>2, <1>3
  <2> HIDE DEF k
  <2>2. /\ SubSeq(b, s + 1, k) \in Tokens /\ Len(SubSeq(b, s + 1, k)) = k + 1 - (s + 1)
        /\ \A n \in 1 .. k + 1 - (s + 1) : SubSeq(b, s + 1, k)[n] = b[(s + 1) + n - 1]
    BY <2>1, PieceIs
  <2>3. \A n \in 1 .. c - (s + 1) : (s + 1) + n - 1 = s + n
    BY <1>3
  <2> QED BY <2>1, <2>2, <2>3
<1>5. /\ z \in Tokens /\ Len(z) = Len(b) + 1 - s
      /\ \A n \in 1 .. Len(b) + 1 - s : z[n] = b[s + n - 1]
  <2>1. Len(b) <= Len(b)
    BY <1>1
  <2> QED BY <1>1, <1>3, <2>1, PieceIs
<1>6. x \in Token /\ y \in Token
  BY <1>1, <1>2, <1>3
<1> HIDE DEF x, y
<1>7. /\ w \in Tokens /\ Len(w) = l
      /\ \A n \in 1 .. l : w[n] = IF n = 1 THEN x ELSE IF n = l THEN y ELSE v[n - 1]
  <2>1. v \in Seq(Token) /\ Len(v) = l - 2 /\ l \in Nat /\ l >= 2
    BY <1>3, <1>4 DEF Tokens
  <2> DEFINE u == <<x>> \o v
  <2>2. w = u \o <<y>>
    BY DEF x, y
  <2>3. u \in Seq(Token) /\ Len(u) = l - 1 /\ u[1] = x /\ \A n \in 1 .. l - 2 : u[n + 1] = v[n]
    BY <1>6, <2>1
  <2> HIDE DEF u, w, l
  <2>4. w \in Seq(Token) /\ Len(w) = l /\ w[l] = y /\ \A n \in 1 .. l - 1 : w[n] = u[n]
    BY <1>6, <2>1, <2>2, <2>3
  <2>5. ASSUME NEW n \in 1 .. l
        PROVE  w[n] = IF n = 1 THEN x ELSE IF n = l THEN y ELSE v[n - 1]
    <3>1. CASE n = 1
      BY <2>1, <2>3, <2>4, <3>1
    <3>2. CASE n = l
      BY <2>1, <2>4, <3>2
    <3>3. CASE n # 1 /\ n # l
      <4> DEFINE m == n - 1
      <4>1. m \in 1 .. l - 2 /\ n = m + 1 /\ n \in 1 .. l - 1
        BY <2>1, <3>3
      <4> HIDE DEF m
      <4>2. w[n] = v[m]
        BY <2>3, <2>4, <4>1
      <4> QED BY <3>3, <4>2 DEF m
    <3> QED BY <3>1, <3>2, <3>3
  <2> QED BY <2>4, <2>5 DEF Tokens
<1> HIDE DEF w, z
<1>8. \A n \in 1 .. l : w[n] = z[n]
  <2> SUFFICES ASSUME NEW n \in 1 .. l PROVE w[n] = z[n]
    OBVIOUS
  <2>1. n \in 1 .. Len(b) + 1 - s /\ n \in Nat
    BY <1>3
  <2>2. z[n] = b[s + n - 1]
    BY <1>5, <2>1
  <2>3. CASE n = 1
    <3>1. s + n - 1 = s
      BY <1>3, <2>3
    <3> QED BY <1>7, <2>2, <2>3, <3>1 DEF x
  <2>4. CASE n = l
    <3>1. s + n - 1 = c /\ n # 1
      BY <1>3, <2>4
    <3> QED BY <1>7, <2>2, <2>4, <3>1 DEF y
  <2>5. CASE n # 1 /\ n # l
    <3> DEFINE m == n - 1
    <3>1. m \in 1 .. c - (s + 1) /\ s + n - 1 = s + m
      BY <1>3, <2>5
    <3>2. w[n] = v[m]
      BY <1>7, <2>5
    <3> HIDE DEF m
    <3>3. v[m] = b[s + m]
      BY <1>4, <3>1
    <3> QED BY <2>2, <3>1, <3>2, <3>3
  <2> QED BY <2>3, <2>4, <2>5
<1>9. l \in Nat /\ l <= Len(z) /\ Len(z) \in Nat
  BY <1>1, <1>3, <1>5
<1> HIDE DEF l
<1>10. SubSeq(w, 1, l) = SubSeq(z, 1, l)
  <2> DEFINE p == SubSeq(w, 1, l)
             q == SubSeq(z, 1, l)
  <2>1. /\ p \in Tokens /\ Len(p) = l + 1 - 1 /\ \A n \in 1 .. l + 1 - 1 : p[n] = w[1 + n - 1]
    BY <1>7, <1>9, PieceIs
  <2>2. /\ q \in Tokens /\ Len(q) = l + 1 - 1 /\ \A n \in 1 .. l + 1 - 1 : q[n] = z[1 + n - 1]
    BY <1>5, <1>9, PieceIs
  <2> HIDE DEF p, q
  <2>3. l + 1 - 1 = l /\ \A n \in 1 .. l : 1 + n - 1 = n
    BY <1>9
  <2>4. Len(p) = l /\ Len(q) = l /\ \A n \in 1 .. l : p[n] = q[n]
    BY <1>8, <2>1, <2>2, <2>3
  <2>5. p \in Seq(Token) /\ q \in Seq(Token)
    BY <2>1, <2>2 DEF Tokens
  <2>6. p = q
    BY <2>4, <2>5
  <2> QED BY <2>6 DEF p, q
<1>11. Kilo!IsPrefix(w, z)
  BY <1>7, <1>9, <1>10 DEF Kilo!IsPrefix
<1> QED BY <1>1, <1>2, <1>11 DEF w, z

LEMMA CallIsRead ==
  ASSUME NEW b \in Tokens, NEW call, Fits(call, b)
  PROVE  /\ \E i \in DOMAIN b :
              Kilo!IsPrefix(<<"name">> \o call.name \o <<"/name">>, SubSeq(b, i, Len(b)))
         /\ \A tag \in DOMAIN call.args : \E i \in DOMAIN b :
              Kilo!IsPrefix(<<tag>> \o call.args[tag] \o <<Kilo!CloseOf[tag]>>, SubSeq(b, i, Len(b)))
<1>1. \E i \in DOMAIN b :
        Kilo!IsPrefix(<<"name">> \o call.name \o <<"/name">>, SubSeq(b, i, Len(b)))
  <2>1. PICK s, c : Stands(b, call.name, s, c) /\ b[s] = "name" /\ b[c] = "/name"
    BY DEF Fits
  <2>2. s \in DOMAIN b /\ Kilo!IsPrefix(<<b[s]>> \o call.name \o <<b[c]>>, SubSeq(b, s, Len(b)))
    BY <2>1, StandsIn
  <2> QED BY <2>1, <2>2
<1>2. ASSUME NEW tag \in DOMAIN call.args
      PROVE  \E i \in DOMAIN b :
        Kilo!IsPrefix(<<tag>> \o call.args[tag] \o <<Kilo!CloseOf[tag]>>, SubSeq(b, i, Len(b)))
  <2>1. PICK s, c : Stands(b, call.args[tag], s, c) /\ b[s] = tag /\ b[c] = Kilo!CloseOf[tag]
    BY DEF Fits, ArgsFit
  <2>2. s \in DOMAIN b /\ Kilo!IsPrefix(<<b[s]>> \o call.args[tag] \o <<b[c]>>, SubSeq(b, s, Len(b)))
    BY <2>1, StandsIn
  <2> QED BY <2>1, <2>2
<1> QED BY <1>1, <1>2

LEMMA LeakingAreTokens == Leaking \subseteq Tokens
<1> DEFINE T == Token
<1>0. /\ {"tool", "/tool", "name", "/name", "p", "/p", "q", "/q", "w", "call"} \subseteq T
      /\ Tokens = Seq(T)
  BY DEF Token, Tokens
<1> HIDE DEF T
<1>1. \A u, v \in Tokens : u \o v \in Tokens
  BY <1>0
<1>2. /\ <<>> \in Tokens
      /\ \A x \in T : <<x>> \in Tokens
      /\ \A x, y \in T : <<x, y>> \in Tokens
      /\ \A x, y, z \in T : <<x, y, z>> \in Tokens
      /\ \A x, y, z, u, v, w \in T : <<x, y, z, u, v, w>> \in Tokens
  BY <1>0
<1>3. \A u \in Tokens : Block(u) \in Tokens
  BY <1>0, <1>1, <1>2 DEF Block
<1>4. Naming \in Tokens /\ <<"name", "/name", "w">> \in Tokens /\ <<"p", "w", "/p">> \in Tokens
      /\ <<"p", "q", "/p", "/q", "q", "/q">> \in Tokens /\ <<"p", "w">> \in Tokens
      /\ <<"tool", "/name">> \in Tokens
  BY <1>0, <1>2 DEF Naming
<1>5. /\ Naming \o <<"p", "w", "/p">> \in Tokens
      /\ Naming \o <<"p", "q", "/p", "/q", "q", "/q">> \in Tokens
      /\ <<"p", "w", "/p">> \o Naming \o <<"p", "w">> \in Tokens
  BY <1>1, <1>4
<1>6. <<"w">> \in Tokens /\ <<"call">> \in Tokens /\ <<"tool">> \in Tokens /\ <<"/tool">> \in Tokens
  BY <1>0, <1>2
<1>7. <<"tool", "/name">> \o Block(Naming) \in Tokens
  BY <1>1, <1>3, <1>4
<1>8. /\ Block(<<>>) \in Tokens /\ Block(<<"name", "/name", "w">>) \in Tokens
      /\ Block(Naming \o <<"p", "w", "/p">>) \in Tokens
      /\ Block(Naming \o <<"p", "q", "/p", "/q", "q", "/q">>) \in Tokens
      /\ Block(<<"p", "w", "/p">> \o Naming \o <<"p", "w">>) \in Tokens
  BY <1>2, <1>3, <1>4, <1>5
<1>9. \A u \in Pieces : u \in Tokens
  <2> DEFINE a == <<>>
             c == <<"w">>
             d == <<"call">>
             e == <<"tool">>
             f == <<"/tool">>
             g == Block(<<>>)
             h == Block(<<"name", "/name", "w">>)
             i == Block(Naming \o <<"p", "w", "/p">>)
             j == Block(Naming \o <<"p", "q", "/p", "/q", "q", "/q">>)
             k == Block(<<"p", "w", "/p">> \o Naming \o <<"p", "w">>)
             l == <<"tool", "/name">> \o Block(Naming)
  <2>1. Pieces = {a, c, d, e, f, g, h, i, j, k, l}
    BY DEF Pieces
  <2>2. /\ a \in Tokens /\ c \in Tokens /\ d \in Tokens /\ e \in Tokens /\ f \in Tokens
        /\ g \in Tokens /\ h \in Tokens /\ i \in Tokens /\ j \in Tokens /\ k \in Tokens
        /\ l \in Tokens
    BY <1>2, <1>6, <1>7, <1>8
  <2> HIDE DEF a, c, d, e, f, g, h, i, j, k, l
  <2>3. {a, c, d, e, f, g, h, i, j, k, l} \subseteq Tokens
    BY <2>2
  <2>4. Pieces \subseteq Tokens
    BY <2>1, <2>3
  <2> QED BY <2>4
<1> SUFFICES ASSUME NEW y \in Leaking PROVE y \in Tokens
  OBVIOUS
<1>10. PICK u \in Pieces, v \in Pieces : y = u \o v
  BY DEF Leaking
<1>11. u \in Tokens /\ v \in Tokens
  BY <1>9
<1> QED BY <1>1, <1>10, <1>11

----------------------------------------------------------------------------
(* The leak handler of Kilo counts the messages that it rewrites in a row,    *)
(* and what it keeps or rewrites is the last message.                         *)
KiloInv ==
  /\ leaks \in 0..MaxLeakRetries /\ row = leaks
  /\ rewritten = Kilo!Kept \/ (text \in Tokens /\ rewritten = Kilo!Rewritten(text))

LEMMA KiloStarts == Kilo!Init => KiloInv
BY ProvidersAssumption DEF Kilo!Init, KiloInv

LEMMA KiloStep == KiloInv /\ (Kilo!Next \/ UNCHANGED leakVars) => KiloInv'
<1> SUFFICES ASSUME KiloInv, Kilo!Next \/ UNCHANGED leakVars PROVE KiloInv'
  OBVIOUS
<1>1. CASE Kilo!MessageEnd
  <2>1. text' \in Tokens
    BY <1>1, LeakingAreTokens DEF Kilo!MessageEnd
  <2>2. \/ leaks < MaxLeakRetries /\ leaks' = leaks + 1 /\ rewritten' = Kilo!Rewritten(text') /\ row' = row + 1
        \/ leaks' = 0 /\ rewritten' = Kilo!Kept /\ row' = 0
    BY <1>1 DEF Kilo!MessageEnd, Kilo!MayRewrite
  <2>3. rewritten' = Kilo!Kept \/ (text' \in Tokens /\ rewritten' = Kilo!Rewritten(text'))
    BY <2>1, <2>2
  <2>4. leaks' \in 0..MaxLeakRetries /\ row' = leaks'
    BY <2>2, ProvidersAssumption DEF KiloInv
  <2> QED BY <2>3, <2>4 DEF KiloInv
<1>2. CASE Kilo!OtherMessage
  BY <1>2 DEF Kilo!OtherMessage, KiloInv
<1>3. CASE UNCHANGED leakVars
  BY <1>3 DEF leakVars, KiloInv
<1> QED
  BY <1>1, <1>2, <1>3 DEF Kilo!Next

LEMMA LeaksRewritten == KiloInv => Kilo!RewrittenSound
<1> SUFFICES ASSUME KiloInv, rewritten.as # "kept" PROVE Kilo!RewrittenSound
  BY DEF Kilo!RewrittenSound
<1>1. text \in Tokens /\ rewritten = Kilo!Rewritten(text)
  <2>1. rewritten # Kilo!Kept
    BY DEF Kilo!Kept
  <2> QED BY <2>1 DEF KiloInv
<1> DEFINE calls == Kilo!ParseFrom(text, 1)
           named == Kilo!Blocks(text).named
<1>2. PICK C : calls \in Seq(C)
  BY <1>1, CallsFound
<1>3. named \in Seq(Tokens) /\ CallsFit(calls, named)
  BY <1>1, CallsFound
<1>4. rewritten = IF calls # <<>>
                  THEN [calls |-> calls, text |-> Kilo!Stripped(text), as |-> "calls"]
                  ELSE [calls |-> <<>>, text |-> text, as |-> "correction"]
  BY <1>1 DEF Kilo!Rewritten
<1> HIDE DEF calls, named
<1>5. /\ rewritten.calls = calls
      /\ calls # <<>> => rewritten.text = Kilo!Stripped(text)
  BY <1>4
<1>6. Len(calls) = Len(named) /\ Len(named) \in Nat /\ DOMAIN calls = 1 .. Len(named)
      /\ \A n \in 1 .. Len(named) : Fits(calls[n], named[n]) /\ named[n] \in Tokens
  BY <1>2, <1>3 DEF CallsFit
<1>7. ASSUME NEW n \in DOMAIN calls
      PROVE  /\ \E i \in DOMAIN named[n] :
                  Kilo!IsPrefix(<<"name">> \o calls[n].name \o <<"/name">>,
                                SubSeq(named[n], i, Len(named[n])))
             /\ \A tag \in DOMAIN calls[n].args : \E i \in DOMAIN named[n] :
                  Kilo!IsPrefix(<<tag>> \o calls[n].args[tag] \o <<Kilo!CloseOf[tag]>>,
                                SubSeq(named[n], i, Len(named[n])))
  BY <1>6, CallIsRead
<1>8. calls # <<>> => Kilo!Blocks(rewritten.text).all = <<>>
  BY <1>1, <1>5, StrippedBare
<1> QED BY <1>5, <1>6, <1>7, <1>8 DEF Kilo!RewrittenSound, named

----------------------------------------------------------------------------
(* A step is one of a part, or leaves the part alone. *)
LEMMA PartsStep ==
  ASSUME [MCNext]_allVars
  PROVE  /\ Next \/ UNCHANGED vars
         /\ Device!Next \/ UNCHANGED deviceVars
         /\ Refresh!Next \/ UNCHANGED refreshVars
         /\ Qoder!Next \/ UNCHANGED streamVars
         /\ Infron!Next \/ UNCHANGED infronVars
         /\ Kilo!Next \/ UNCHANGED leakVars
         /\ Fetch!Next \/ UNCHANGED fetchVars
         /\ Metadata!Next \/ UNCHANGED metadataVars
<1>1. CASE InCline(Next)
  BY <1>1 DEF InCline, catalogVars
<1>2. CASE InDevice(Device!Next)
  BY <1>2 DEF InDevice, catalogVars
<1>3. CASE part = "refresh" /\ Refresh!Next
           /\ UNCHANGED <<part, vars, deviceVars, streamVars, infronVars, leakVars, catalogVars>>
  BY <1>3 DEF catalogVars
<1>4. CASE InQoder(Qoder!Next)
  BY <1>4 DEF InQoder, catalogVars
<1>5. CASE InInfron(Infron!Next)
  BY <1>5 DEF InInfron, catalogVars
<1>6. CASE part = "kilo" /\ Kilo!Next
           /\ UNCHANGED <<part, vars, deviceVars, refreshVars, streamVars, infronVars, catalogVars>>
  BY <1>6 DEF catalogVars
<1>7. CASE InFetch(Fetch!Next)
  BY <1>7 DEF InFetch
<1>8. CASE part = "metadata" /\ Metadata!Next
           /\ UNCHANGED <<part, vars, deviceVars, refreshVars, streamVars, infronVars, leakVars,
                          fetchVars>>
  BY <1>8
<1>9. CASE UNCHANGED allVars
  BY <1>9 DEF allVars, catalogVars
<1> QED
  BY <1>1, <1>2, <1>3, <1>4, <1>5, <1>6, <1>7, <1>8, <1>9 DEF MCNext

ProvidersInv == /\ ClineInv /\ DeviceInv /\ Refresh!RefreshSafe
                /\ QoderInv /\ CutInv /\ InfronInv /\ KiloInv /\ FetchInv /\ MetadataInv

LEMMA ProvidersStart == MCInit => ProvidersInv
BY ClineStarts, DeviceStarts, RefreshStarts, QoderStarts, CutStarts, InfronStarts, KiloStarts, FetchStarts,
   MetadataStarts
DEF MCInit, ProvidersInv

LEMMA ProvidersStep == ProvidersInv /\ [MCNext]_allVars => ProvidersInv'
BY PartsStep, ClineStep, DeviceStep, RefreshStep, QoderStep, CutStep, InfronStep, KiloStep, FetchStep,
   MetadataStep
DEF ProvidersInv

(* A callback login leaves no server behind, whatever was aborted or timed    *)
(* out; a polling login times out only past its deadline or its last attempt, *)
(* having overlooked at most a decision that the user made after the last     *)
(* poll was answered; and a refresh follows the rotation of its token, unless *)
(* an answer was lost, and returns no credential past its own date            *)
(* (loginCline, the polls of Kilo and Qoder, the refreshToken functions).     *)
THEOREM LoginsAreSafe == MCSpec => []LoginsSafe
<1>1. ProvidersInv => LoginsSafe
  BY ClineReleases DEF ProvidersInv, DeviceInv, LoginsSafe
<1> QED
  BY <1>1, ProvidersStart, ProvidersStep, PTL DEF MCSpec

(* An aborted login does not log in any more, but for an answer that was on   *)
(* its way (loginCline, loginKilo, loginQoder).                               *)
THEOREM CancelsHold == MCSpec => CancelHolds
<1> DEFINE A == /\ signal = "aborted" /\ outcome = "none" => outcome' # "in"
                /\ aborted => /\ at' = "poll" => at = "poll"
                              /\ end' = "in" /\ end = "none" =>
                                   at \in {"pat", "entered", "profile"} \/ (flow = "kilo" /\ at = "answered")
<1>1. ProvidersInv /\ [MCNext]_allVars => [A]_allVars
  <2> SUFFICES ASSUME ProvidersInv, [MCNext]_allVars PROVE A
    OBVIOUS
  <2>1. signal = "aborted" /\ outcome = "none" => outcome' # "in"
    BY PartsStep, AbortedClineStaysOut DEF ProvidersInv
  <2>2. aborted => /\ at' = "poll" => at = "poll"
                   /\ end' = "in" /\ end = "none" =>
                        at \in {"pat", "entered", "profile"} \/ (flow = "kilo" /\ at = "answered")
    BY PartsStep, AbortedDeviceStaysOut DEF ProvidersInv
  <2> QED
    BY <2>1, <2>2
<1> QED
  BY <1>1, ProvidersStart, ProvidersStep, PTL DEF MCSpec, CancelHolds

(* A request that Pi makes by continuing is made only when the wait is over,  *)
(* nobody has cancelled it, and to the model that met the limit (Infron's     *)
(* agent_end and before_agent_start).                                         *)
THEOREM ContinuationsHeldBack == MCSpec => HeldBack
<1> DEFINE A == run' = "asking" /\ run # "asking" /\ origin = "auto" =>
                  run = "woken" /\ held.phase = "elapsed" /\ ~held.cancelled /\ held.model = model
<1>1. ProvidersInv /\ [MCNext]_allVars => [A]_allVars
  <2> SUFFICES ASSUME ProvidersInv, [MCNext]_allVars PROVE A
    OBVIOUS
  <2> QED
    BY PartsStep, AutoAsksLate DEF ProvidersInv
<1> QED
  BY <1>1, ProvidersStart, ProvidersStep, PTL DEF MCSpec, HeldBack

(* Infron's handlers stop no run but one Pi made by continuing (agent_end,    *)
(* before_agent_start of the extension).                                      *)
THEOREM InfronStopsItsOwn == MCSpec => [](Infron!TypeOK /\ Infron!OnlyOwnStopped)
<1>1. ProvidersInv => Infron!TypeOK /\ Infron!OnlyOwnStopped
  BY DEF ProvidersInv, InfronInv, InfronType, HeldInv, Infron!OnlyOwnStopped
<1> QED
  BY <1>1, ProvidersStart, ProvidersStep, PTL DEF MCSpec

(* Pi is told of each block of Qoder's answer once at its end, each tool call *)
(* has its own arguments and its end unless text came after it had begun, and *)
(* at the end no thought is open but the one that the stream broke off in     *)
(* (streamQoder).                                                             *)
THEOREM BlocksAreSound == MCSpec => [](Qoder!TypeOK /\ Qoder!BlocksSound)
<1>1. ProvidersInv => Qoder!TypeOK /\ Qoder!BlocksSound
  BY QoderBlocks DEF ProvidersInv
<1> QED
  BY <1>1, ProvidersStart, ProvidersStep, PTL DEF MCSpec

(* What Pi was told and what the parser holds back are the text and the       *)
(* thinking that a reading of the whole finds, however the text was cut into  *)
(* deltas (processChunk of the ThinkingTagParser).                            *)
THEOREM CutsDoNotMatter == MCSpec => []Qoder!CutDoesNotMatter
<1>1. ProvidersInv => Qoder!CutDoesNotMatter
  BY ReadTells DEF ProvidersInv
<1> QED
  BY <1>1, ProvidersStart, ProvidersStep, PTL DEF MCSpec

(* A model that goes on to leak its tool calls has its message rewritten      *)
(* MaxLeakRetries times in a row at most (message_end of kilo.ts).            *)
THEOREM RewritesAreBounded == MCSpec => []Kilo!RewritesBounded
<1>1. ProvidersInv => Kilo!RewritesBounded
  BY ProvidersAssumption DEF ProvidersInv, KiloInv, Kilo!RewritesBounded
<1> QED
  BY <1>1, ProvidersStart, ProvidersStep, PTL DEF MCSpec

(* Whatever the text, parseXmlToolCalls finds a call for each block that has  *)
(* a name, in order, whose name and arguments stood in this block between     *)
(* their tags, and what the rewritten message shows of the text has no block  *)
(* that could be found again (message_end of kilo.ts).                        *)
THEOREM CallsOfAnyText ==
  \A t \in Tokens : /\ CallsFit(Kilo!ParseFrom(t, 1), Kilo!Blocks(t).named)
                    /\ Kilo!Blocks(Kilo!Stripped(t)).all = <<>>
BY CallsFound, StrippedBare

(* A rewritten message has a call for each block with a name that the text    *)
(* holds, in order and with what stood in it, and shows no block again; the   *)
(* other answers are read as they were sent, and runs that Pi made are all    *)
(* that is stopped (message_end of kilo.ts, the stream of qoder.ts and the    *)
(* handlers of infron-continuation.ts).                                       *)
THEOREM AnswersAreSound == MCSpec => []AnswersSound
<1>1. ProvidersInv => Kilo!LeakSafe
  <2> SUFFICES ASSUME ProvidersInv PROVE Kilo!LeakSafe
    OBVIOUS
  <2>1. Kilo!RewritesBounded
    BY ProvidersAssumption DEF ProvidersInv, KiloInv, Kilo!RewritesBounded
  <2>2. Kilo!RewrittenSound
    BY LeaksRewritten DEF ProvidersInv
  <2> QED BY <2>1, <2>2 DEF Kilo!LeakSafe
<1>2. MCSpec => []Kilo!LeakSafe
  BY <1>1, ProvidersStart, ProvidersStep, PTL DEF MCSpec
<1>3. Kilo!LeakSafe /\ Qoder!TypeOK /\ Qoder!BlocksSound /\ Qoder!CutDoesNotMatter
      /\ Infron!TypeOK /\ Infron!OnlyOwnStopped => AnswersSound
  BY DEF AnswersSound, Qoder!StreamSafe
<1> QED
  BY <1>2, <1>3, BlocksAreSound, CutsDoNotMatter, InfronStopsItsOwn, PTL

(* A request sends nothing after its abort and fails only with its last       *)
(* attempt's error; the models.dev catalog is asked for once per period, and  *)
(* a reader's is no older than that (fetchWithRetry, fetchModelsDevMeta).     *)
THEOREM RequestsAreSound ==
  MCSpec => [](Fetch!TypeOK /\ Fetch!FetchSound /\ Metadata!TypeOK /\ Metadata!CatalogShared)
<1>1. ProvidersInv => Fetch!TypeOK /\ Fetch!FetchSound /\ Metadata!TypeOK /\ Metadata!CatalogShared
  BY MetadataShared DEF ProvidersInv, FetchInv
<1> QED
  BY <1>1, ProvidersStart, ProvidersStep, PTL DEF MCSpec
============================================================================
