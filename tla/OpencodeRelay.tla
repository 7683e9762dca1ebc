--------------------------- MODULE OpencodeRelay ---------------------------
(* The Bun relay of the anonymous OpenCode lane: class Relay and its          *)
(* singleton in lib/opencode-relay.ts, the routing of a turn in               *)
(* providers/opencode-session.ts and the check at model selection in          *)
(* lib/opencode-readiness.ts.  The child reports its port on stdout; turns    *)
(* wait for it, hold the child while they stream, and go to the direct lane   *)
(* when it cannot serve.  Its exit, its output, the deadline of a waiting     *)
(* turn and the idle timer come in any order.                                 *)
EXTENDS Naturals, FiniteSets

CONSTANTS Turn,         \* calls of maybeRelayBaseUrl
          Prewarm,      \* those of them that only start the relay
          Relayable,    \* turns whose URL the relay may serve
          MaxRelays     \* bound on the children started

ASSUME OpencodeRelayAssumption ==
  /\ IsFiniteSet(Turn) /\ Prewarm \subseteq Turn /\ Relayable \subseteq Turn
  /\ MaxRelays \in Nat

VARIABLES enabled,      \* PI_FREE_OPENCODE_RELAY is not "0"
          relay,        \* every Relay made so far
          made,         \* how many
          current,      \* _singleton, 0 for none
          failure,      \* _lastFailure
          turn,         \* turn -> where it is, through which relay, why it went direct
          warned,       \* the user was told that the relay cannot serve
          waits         \* deadlines that have passed
vars == <<enabled, relay, made, current, failure, turn, warned, waits>>

Relays == 1..MaxRelays
(* child: "running", "killed" or "gone" is the process, `said' its PORT line   *)
Relay == [child : {"none", "running", "killed", "gone"}, said : BOOLEAN, port : BOOLEAN,
          stopped : BOOLEAN, timer : BOOLEAN, active : 0..Cardinality(Turn)]
Unmade == [child |-> "none", said |-> FALSE, port |-> FALSE, stopped |-> FALSE,
           timer |-> FALSE, active |-> 0]
Reason == {"none", "launch", "exit", "timeout", "not running"}
New == [at |-> "new", via |-> 0, why |-> "none"]

Init ==
  /\ enabled \in BOOLEAN /\ relay = [r \in Relays |-> Unmade] /\ made = 0
  /\ current = 0 /\ failure = "none" /\ turn = [t \in Turn |-> New]
  /\ warned = FALSE /\ waits = 0

Waiting(r) == {t \in Turn : turn[t].at = "waiting" /\ turn[t].via = r}

----------------------------------------------------------------------------
(* class Relay, on a record *)

(* bug: the timer is armed while a stream holds the child *)
ArmedAlways(x) == [x EXCEPT !.timer = ~x.stopped]
Armed(x) == [x EXCEPT !.timer = ~x.stopped /\ x.active = 0]

Stopped(x) == [x EXCEPT !.stopped = TRUE, !.port = FALSE, !.timer = FALSE,
                        !.child = IF @ = "running" THEN "killed" ELSE @]

Held(x) == [x EXCEPT !.active = @ + 1, !.timer = FALSE]
Released(x, n) == Armed([x EXCEPT !.active = @ - n])

(* bug: the unavailable generation is not kept *)
SingletonAfterFailDropped(r) == 0
SingletonAfterFail(r) == current

(* a turn goes direct with the recorded failure, if it still is there; a       *)
(* prewarm tells the user, once                                                *)
Why(f) == IF f = "none" THEN "not running" ELSE f
Direct(T, f) ==
  /\ turn' = [t \in Turn |-> IF t \in T THEN [turn[t] EXCEPT !.at = "direct", !.why = Why(f)]
                                        ELSE turn[t]]
  /\ warned' = (warned \/ T \cap Prewarm # {})

(* Relay.fail: everyone who waits is rejected and lets go *)
Fail(r, why) ==
  /\ failure' = why
  /\ relay' = [relay EXCEPT ![r] = Released(Stopped(@), Cardinality(Waiting(r)))]
  /\ current' = SingletonAfterFail(r)
  /\ Direct(Waiting(r), why)

----------------------------------------------------------------------------
(* maybeRelayBaseUrl *)

Off(t) ==
  /\ turn[t].at = "new" /\ ~enabled
  /\ turn' = [turn EXCEPT ![t].at = "direct"]
  /\ UNCHANGED <<enabled, relay, made, current, failure, warned, waits>>

(* a prewarm lets go as soon as it is routed, a stream when it ends *)
RoutedTo(t, r, x) ==
  /\ relay' = [relay EXCEPT ![r] = IF t \in Prewarm THEN Released(x, 1) ELSE x]
  /\ turn' = [turn EXCEPT ![t] = [at |-> IF t \in Prewarm THEN "done"
                                         ELSE IF t \in Relayable THEN "relayed" ELSE "held",
                                  via |-> r, why |-> "none"]]

Route(t) ==
  /\ turn[t].at = "new" /\ enabled /\ current # 0
  /\ LET x == relay[current] IN
     \/ /\ x.stopped
        /\ Direct({t}, failure)
        /\ UNCHANGED relay
     \/ /\ ~x.stopped /\ x.port
        /\ RoutedTo(t, current, Held(x))
        /\ UNCHANGED warned
     \/ /\ ~x.stopped /\ ~x.port
        /\ relay' = [relay EXCEPT ![current] = Held(x)]
        /\ turn' = [turn EXCEPT ![t] = [at |-> "waiting", via |-> current, why |-> "none"]]
        /\ UNCHANGED warned
  /\ UNCHANGED <<enabled, made, current, failure, waits>>

(* getOpenCodeRelay makes the relay and spawns the child; spawn may throw *)
RouteFirst(t) ==
  /\ turn[t].at = "new" /\ enabled /\ current = 0 /\ made < MaxRelays
  /\ made' = made + 1 /\ current' = made'
  /\ \/ /\ relay' = [relay EXCEPT ![made'] = Held([Unmade EXCEPT !.child = "running"])]
        /\ turn' = [turn EXCEPT ![t] = [at |-> "waiting", via |-> made', why |-> "none"]]
        /\ UNCHANGED <<failure, warned>>
     \/ /\ failure' = "launch"
        /\ relay' = [relay EXCEPT ![made'] = Stopped(Unmade)]
        /\ Direct({t}, "launch")
  /\ UNCHANGED <<enabled, waits>>

----------------------------------------------------------------------------
(* events of the child; its output may be read after it was killed or is gone *)

PortLine(r) ==
  /\ relay[r].child # "none" /\ ~relay[r].said
  /\ LET W == Waiting(r)
         x == Armed([relay[r] EXCEPT !.said = TRUE, !.port = TRUE])
     IN /\ relay' = [relay EXCEPT ![r] = Released(x, Cardinality(W \cap Prewarm))]
        /\ turn' = [t \in Turn |->
             IF t \notin W THEN turn[t]
             ELSE [turn[t] EXCEPT !.at = IF t \in Prewarm THEN "done"
                                         ELSE IF t \in Relayable THEN "relayed" ELSE "held"]]
  /\ failure' = "none"
  /\ UNCHANGED <<enabled, made, current, warned, waits>>

(* an exit of a relay that was not stopped drops the singleton *)
Exit(r) ==
  /\ relay[r].child \in {"running", "killed"}
  /\ LET W == Waiting(r)
         x == [relay[r] EXCEPT !.child = "gone", !.port = FALSE]
     IN \/ /\ x.stopped
           /\ relay' = [relay EXCEPT ![r] = x]
           /\ UNCHANGED <<current, failure, turn, warned>>
        \/ /\ ~x.stopped
           /\ failure' = "exit" /\ current' = 0
           /\ relay' = [relay EXCEPT ![r] = Released(Stopped(x), Cardinality(W))]
           /\ Direct(W, "exit")
  /\ UNCHANGED <<enabled, made, waits>>

(* the "error" event of a child that could not be launched *)
LaunchError(r) ==
  /\ relay[r].child = "running" /\ ~relay[r].said /\ ~relay[r].stopped
  /\ failure' = "launch"
  /\ relay' = [relay EXCEPT ![r] = Released(Stopped([@ EXCEPT !.child = "gone", !.said = TRUE]),
                                            Cardinality(Waiting(r)))]
  /\ Direct(Waiting(r), "launch")
  /\ UNCHANGED <<enabled, made, current, waits>>

TimeOut(t) ==
  /\ turn[t].at = "waiting"
  /\ waits' = waits + 1
  /\ Fail(turn[t].via, "timeout")
  /\ UNCHANGED <<enabled, made>>

Idle(r) ==
  /\ relay[r].timer
  /\ relay' = [relay EXCEPT ![r] = Stopped(@)]
  /\ current' = IF current = r THEN 0 ELSE current
  /\ UNCHANGED <<enabled, made, failure, turn, warned, waits>>

(* the stream ends: createOpenCodeStreamSimple's finally *)
Done(t) ==
  /\ turn[t].at \in {"relayed", "held"}
  /\ relay' = [relay EXCEPT ![turn[t].via] = Released(@, 1)]
  /\ turn' = [turn EXCEPT ![t].at = "done"]
  /\ UNCHANGED <<enabled, made, current, failure, warned, waits>>

Next == \/ \E t \in Turn : Off(t) \/ Route(t) \/ RouteFirst(t) \/ TimeOut(t) \/ Done(t)
        \/ \E r \in Relays : PortLine(r) \/ Exit(r) \/ LaunchError(r) \/ Idle(r)

(* timers fire; nothing makes a child answer, exit or a stream end *)
Fairness == /\ \A t \in Turn : WF_vars(TimeOut(t))
            /\ \A r \in Relays : WF_vars(Idle(r))
Spec == Init /\ [][Next]_vars /\ Fairness

----------------------------------------------------------------------------
(* Types of the relays and of the turns. *)
TypeOK ==
  /\ relay \in [Relays -> Relay] /\ made \in 0..MaxRelays /\ current \in 0..made
  /\ failure \in Reason /\ warned \in BOOLEAN /\ waits \in Nat /\ enabled \in BOOLEAN
  /\ turn \in [Turn -> [at : {"new", "waiting", "relayed", "held", "direct", "done"},
                        via : 0..MaxRelays, why : Reason]]

(* Every hold is given back exactly once: the count of a relay is the number  *)
(* of turns that wait for it or stream through it.                            *)
HoldsCounted ==
  \A r \in Relays : relay[r].active = Cardinality(
    {t \in Turn : turn[t].via = r /\ turn[t].at \in {"waiting", "relayed", "held"}})

(* A child that runs unstopped is the one the next turn will use: none is     *)
(* left behind by an exit, a deadline or an idle stop of another.             *)
NoOrphan ==
  \A r \in Relays : relay[r].child = "running" => ~relay[r].stopped /\ current = r

(* A turn that streams through a child loses it only to the child's own exit, *)
(* never to the idle timer or to another turn's deadline.                     *)
HeldIsServed ==
  \A t \in Turn : turn[t].at = "relayed" => relay[turn[t].via].port
                                             \/ relay[turn[t].via].child = "gone"

(* "Only one turn pays this wait": after a deadline has passed no turn waits  *)
(* again, whatever the relay does later.                                      *)
OneWait == waits <= 1 /\ (waits = 1 => \A t \in Turn : turn[t].at # "waiting")

RelaySafe == HoldsCounted /\ NoOrphan /\ HeldIsServed /\ OneWait

(* A turn never waits for ever, and a child that nothing holds is stopped.    *)
RelayEnds ==
  /\ \A t \in Turn : turn[t].at = "waiting" ~> turn[t].at # "waiting"
  /\ \A r \in Relays : ~relay[r].stopped /\ relay[r].port /\ relay[r].active = 0
                         ~> relay[r].stopped \/ relay[r].active > 0

(* getOpenCodeRelayFailure, "why the relay last failed to serve": a relay     *)
(* that is kept although it cannot serve has a recorded failure.  A PORT line *)
(* that is read after the deadline's kill erases it.                          *)
FailureKept == current # 0 /\ relay[current].stopped => failure # "none"
============================================================================
