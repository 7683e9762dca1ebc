---------------------------- MODULE ClineLogin ----------------------------
(* loginCline of providers/cline/cline-auth.ts: a callback server on the      *)
(* first free port of a range, the authorize request, the race between the    *)
(* browser's callback and a code pasted by the user, and the exchange of the  *)
(* code for tokens.  Requests, the user, an abort and the server's time-out   *)
(* come at any await.  Which code it is, is who brought it: the browser or    *)
(* the user, and with which provider.                                         *)
EXTENDS Naturals, FiniteSets

CONSTANTS Ports,        \* CALLBACK_PORT_START .. CALLBACK_PORT_END
          Providers     \* what an exchange without a provider tries after null

VARIABLES pc,           \* where the login is: the await it is in
          signal,       \* the caller's AbortSignal: "absent", "quiet" or "aborted"
          byHand,       \* callbacks.onManualCodeInput is there
          port,         \* the next port to try, then the one listened on
          server,       \* the server with its timer and its abort listener
          waitForCode,  \* the promise of the code
          code,         \* what goes into the exchange
          untried,      \* provider candidates left, NoProvider the null one
          outcome       \* how the login ended
vars == <<pc, signal, byHand, port, server, waitForCode, code, untried, outcome>>

NoProvider == "null"
Code == [from : {"browser", "user"}, provider : Providers \cup {NoProvider}]
NoCode == [from |-> "nobody", provider |-> NoProvider]
Closed == [open |-> FALSE, timer |-> FALSE, listener |-> FALSE]
Failures == {"cancelled", "timed out", "bad callback", "no port", "listen failed",
             "authorize failed", "no code", "exchange failed"}

Init ==
  /\ pc = "scan" /\ port = 1 /\ server = Closed
  /\ signal \in {"absent", "quiet", "aborted"} /\ byHand \in BOOLEAN
  /\ waitForCode = "pending" /\ code = NoCode /\ untried = {} /\ outcome = "none"

----------------------------------------------------------------------------
(* settle of the callback server: the first wins and takes everything down *)

(* bug: only the server is closed *)
TakenDownPartly == [server EXCEPT !.open = FALSE]
TakenDown == Closed

Settle(value) ==
  IF waitForCode # "pending" THEN UNCHANGED <<server, waitForCode>>
  ELSE server' = TakenDown /\ waitForCode' = value

(* the finally of loginCline: the server is closed, if it still is open *)
End(how) ==
  /\ pc' = "over" /\ outcome' = how
  /\ Settle("cancelled")
  /\ UNCHANGED <<signal, byHand, port, untried>>

----------------------------------------------------------------------------
(* startCallbackServer *)

Listening == [open |-> TRUE, timer |-> TRUE, listener |-> signal = "quiet"]

(* one attempt to listen; another process may have the port.  A signal that    *)
(* was aborted during the scan settles at once.                               *)
Listen ==
  /\ pc = "scan" /\ port \in Ports
  /\ \/ /\ pc' = "authorize"
        /\ \/ /\ signal # "aborted"
              /\ server' = Listening
              /\ UNCHANGED waitForCode
           \/ signal = "aborted" /\ Settle("cancelled")
        /\ UNCHANGED <<port, outcome>>
     \/ port' = port + 1 /\ UNCHANGED <<server, waitForCode, pc, outcome>>
     \/ /\ pc' = "over" /\ outcome' = "listen failed"
        /\ UNCHANGED <<server, waitForCode, port>>
  /\ UNCHANGED <<signal, byHand, code, untried>>

NoPort ==
  /\ pc = "scan" /\ port \notin Ports
  /\ pc' = "over" /\ outcome' = "no port"
  /\ UNCHANGED <<signal, byHand, port, server, waitForCode, code, untried>>

(* a request: not to AUTH_PATH, without a code, or with one *)
Request ==
  /\ server.open
  /\ \/ Settle("bad callback") /\ UNCHANGED code
     \/ \E c \in Code : c.from = "browser" /\ Settle("code") /\ code' = c
  /\ UNCHANGED <<pc, signal, byHand, port, untried, outcome>>

ServerTimeout ==
  /\ server.timer
  /\ Settle("timed out")
  /\ UNCHANGED <<pc, signal, byHand, port, code, untried, outcome>>

Abort ==
  /\ signal = "quiet" /\ pc # "over" /\ signal' = "aborted"
  /\ IF server.listener THEN Settle("cancelled") ELSE UNCHANGED <<server, waitForCode>>
  /\ UNCHANGED <<pc, byHand, port, code, untried, outcome>>

----------------------------------------------------------------------------
(* fetchAuthorizeUrl; with a signal of the caller's its own time-out is unused *)

Authorized ==
  /\ pc = "authorize" /\ signal # "aborted" /\ pc' = "wait"
  /\ UNCHANGED <<signal, byHand, port, server, waitForCode, code, untried, outcome>>

(* refused, without a URL, timed out or aborted *)
AuthorizeFails == pc = "authorize" /\ End("authorize failed") /\ UNCHANGED code

----------------------------------------------------------------------------
(* waitForAuthCode *)

Candidates(p) == IF p = NoProvider THEN {NoProvider} \cup Providers ELSE {p}
Exchanging(c) ==
  /\ pc' = "exchange" /\ code' = c /\ untried' = Candidates(c.provider)
  /\ UNCHANGED <<signal, byHand, port, outcome>>

(* bug: the wait only ever resolves, a rejection is lost *)
HeardCode == waitForCode = "code"
Heard == waitForCode # "pending"

Local ==
  /\ pc = "wait" /\ Heard
  /\ IF waitForCode = "code" THEN Exchanging(code) /\ UNCHANGED <<server, waitForCode>>
                             ELSE End(waitForCode) /\ UNCHANGED code

(* the prompt is answered, and closes the server whatever it says *)
Manual ==
  /\ pc = "wait" /\ waitForCode = "pending" /\ byHand
  /\ \/ /\ signal = "aborted" /\ End("cancelled") /\ UNCHANGED code
     \/ /\ signal # "aborted"
        /\ \/ End("no code") /\ UNCHANGED code
           \/ \E c \in Code : c.from = "user" /\ Exchanging(c) /\ Settle("cancelled")

(* the user dismisses the prompt *)
Dismiss ==
  /\ pc = "wait" /\ waitForCode = "pending" /\ byHand
  /\ End("cancelled") /\ UNCHANGED code

----------------------------------------------------------------------------
(* exchangeCodeForTokens: the null provider first, then the others, until one  *)
(* answers with a token; a request that throws ends it                        *)

NextCandidate == IF NoProvider \in untried THEN {NoProvider} ELSE untried

(* bug: the signal is not passed to the token request *)
MayAnswerAlways == TRUE
MayAnswer == signal # "aborted"

Exchange ==
  /\ pc = "exchange"
  /\ \/ /\ MayAnswer /\ untried # {}
        /\ \/ End("in") /\ UNCHANGED code
           \/ \E p \in NextCandidate :
                /\ untried' = untried \ {p}
                /\ UNCHANGED <<pc, signal, byHand, port, server, waitForCode, code, outcome>>
     \/ End("exchange failed") /\ UNCHANGED code

Next == \/ Listen \/ NoPort \/ Request \/ ServerTimeout \/ Abort
        \/ Authorized \/ AuthorizeFails \/ Local \/ Manual \/ Dismiss \/ Exchange

(* requests are answered or fail, in the end by a time-out of fetch itself;   *)
(* the server's timer fires; the browser, the user and an abort may stay away *)
Fairness == /\ WF_vars(Listen \/ NoPort) /\ WF_vars(ServerTimeout)
            /\ WF_vars(Authorized \/ AuthorizeFails) /\ WF_vars(Local) /\ WF_vars(Exchange)
Spec == Init /\ [][Next]_vars /\ Fairness

----------------------------------------------------------------------------
(* Types of the login's state. *)
TypeOK ==
  /\ pc \in {"scan", "authorize", "wait", "exchange", "over"}
  /\ signal \in {"absent", "quiet", "aborted"} /\ byHand \in BOOLEAN /\ port \in Nat
  /\ server \in [open : BOOLEAN, timer : BOOLEAN, listener : BOOLEAN]
  /\ waitForCode \in {"pending", "code"} \cup Failures
  /\ code \in Code \cup {NoCode} /\ untried \subseteq Providers \cup {NoProvider}
  /\ outcome \in {"none", "in"} \cup Failures

(* Nothing is left behind: a login that is over, or has its code, has given   *)
(* up the port, the timer and the listener, whoever came first; and one that  *)
(* waits for its code can still get it, or time out.                          *)
PortReleased ==
  /\ pc \in {"exchange", "over"} => server = Closed
  /\ pc = "wait" /\ waitForCode = "pending" => server.open /\ server.timer

(* The code that is exchanged is the one that came first: the browser's, if   *)
(* its callback settled the wait, else the user's.                            *)
FirstCodeWins ==
  pc = "exchange" => code.from = IF waitForCode = "code" THEN "browser" ELSE "user"

(* A login that was aborted before its last answer never ends logged in.      *)
AbortedStaysOut == [][signal = "aborted" /\ outcome = "none" => outcome' # "in"]_vars

(* Every login comes to its end, even if browser and user stay away.          *)
LoginEnds == <>(pc = "over")
============================================================================
