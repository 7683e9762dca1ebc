--------------------------- MODULE OpencodeProofs ---------------------------
(* Proofs about the OpenCode path: the relay with its turns, the streams that *)
(* are handed out before what they carry is there, and the loader of pi-ai.   *)
EXTENDS MCOpencode, FiniteSetTheorems, SequenceTheorems, WellFoundedInduction, TLAPS

----------------------------------------------------------------------------
(* The relay.  A turn waits only for an unstopped child that has not told its *)
(* port yet, and every unstopped relay has a running child; so a deadline     *)
(* stops the current relay, and as nothing but an unstopped relay's own end   *)
(* replaces that, no turn waits again.                                        *)
Holders(r) == {t \in Turn : turn[t].via = r /\ turn[t].at \in {"waiting", "relayed", "held"}}

ChildInv ==
  \A r \in Relays :
    /\ r > made => relay[r] = Unmade
    /\ r <= made /\ ~relay[r].stopped => relay[r].child = "running"
    /\ relay[r].timer => ~relay[r].stopped /\ relay[r].active = 0
TurnInv ==
  \A t \in Turn :
    /\ turn[t].via <= made
    /\ turn[t].at \in {"waiting", "relayed", "held"} => turn[t].via # 0
    /\ turn[t].at = "waiting" => LET x == relay[turn[t].via]
                                 IN x.child = "running" /\ ~x.stopped /\ ~x.port
WaitInv == waits # 0 => current # 0 /\ relay[current].stopped
RelayInv == TypeOK /\ RelaySafe /\ ChildInv /\ TurnInv /\ WaitInv

Stages == {"waiting", "relayed", "held"}

(* The holds after a step in which the turns W let go of relay r. *)
LEMMA GivenBack ==
  ASSUME TypeOK, HoldsCounted, NEW r \in Relays, NEW W \in SUBSET Holders(r),
         \A t \in W : turn'[t].at \notin Stages,
         \A t \in Turn \ W : /\ turn'[t].at \in Stages => turn'[t].via = turn[t].via
                             /\ turn'[t].at \in Stages <=> turn[t].at \in Stages,
         \A q \in Relays : relay'[q].active =
           IF q = r THEN relay[r].active - Cardinality(W) ELSE relay[q].active
  PROVE  HoldsCounted'
<1>1. IsFiniteSet(Turn)
  BY OpencodeRelayAssumption
<1>2. IsFiniteSet(Holders(r))
  BY <1>1, FS_Subset DEF Holders
<1>3. Cardinality(Holders(r) \ W) = Cardinality(Holders(r)) - Cardinality(W)
  <2>1. Holders(r) \cap W = W
    OBVIOUS
  <2>2. Cardinality(Holders(r) \ W) = Cardinality(Holders(r)) - Cardinality(Holders(r) \cap W)
    BY <1>2, FS_Difference
  <2> QED
    BY <2>1, <2>2
<1>4. ASSUME NEW q \in Relays PROVE relay'[q].active = Cardinality(Holders(q)')
  <2>1. relay[q].active = Cardinality(Holders(q))
    BY DEF HoldsCounted, Holders
  <2>2. CASE q = r
    <3>1. Holders(q)' = Holders(r) \ W
      BY <2>2 DEF Holders, Stages
    <3> QED
      BY <2>1, <2>2, <3>1, <1>3
  <2>3. CASE q # r
    <3>1. Holders(q)' = Holders(q)
      BY <2>3 DEF Holders, Stages
    <3> QED
      BY <2>1, <2>3, <3>1
  <2> QED
    BY <2>2, <2>3
<1> QED
  BY <1>4 DEF HoldsCounted, Holders

(* The holds after a step in which turn t takes one of relay r. *)
LEMMA Taken ==
  ASSUME TypeOK, HoldsCounted, NEW r \in Relays, NEW t \in Turn, turn[t].at \notin Stages,
         turn'[t].at \in Stages, turn'[t].via = r, \A u \in Turn \ {t} : turn'[u] = turn[u],
         \A q \in Relays : relay'[q].active =
           IF q = r THEN relay[r].active + 1 ELSE relay[q].active
  PROVE  HoldsCounted'
<1>1. IsFiniteSet(Turn)
  BY OpencodeRelayAssumption
<1>2. IsFiniteSet(Holders(r)) /\ t \notin Holders(r)
  BY <1>1, FS_Subset DEF Holders, Stages
<1>3. ASSUME NEW q \in Relays PROVE relay'[q].active = Cardinality(Holders(q)')
  <2>1. relay[q].active = Cardinality(Holders(q))
    BY DEF HoldsCounted, Holders
  <2>2. CASE q = r
    <3>1. Holders(q)' = Holders(r) \cup {t}
      BY <2>2 DEF Holders, Stages
    <3>2. Cardinality(Holders(r) \cup {t}) = Cardinality(Holders(r)) + 1
      BY <1>2, FS_AddElement
    <3> QED
      BY <2>1, <2>2, <3>1, <3>2
  <2>3. CASE q # r
    <3>1. Holders(q)' = Holders(q)
      BY <2>3 DEF Holders, Stages
    <3> QED
      BY <2>1, <2>3, <3>1
  <2> QED
    BY <2>2, <2>3
<1> QED
  BY <1>3 DEF HoldsCounted, Holders

(* A count is a number of turns, so there is one to give back. *)
LEMMA Counts ==
  ASSUME TypeOK, HoldsCounted, NEW r \in Relays
  PROVE  /\ relay[r].active \in Nat /\ relay[r].active <= Cardinality(Turn)
         /\ \A W \in SUBSET Holders(r) : Cardinality(W) \in Nat /\ Cardinality(W) <= relay[r].active
         /\ Holders(r) # {} => relay[r].active > 0
         /\ Cardinality({}) = 0
<1>1. IsFiniteSet(Turn)
  BY OpencodeRelayAssumption
<1>2. IsFiniteSet(Holders(r)) /\ relay[r].active = Cardinality(Holders(r))
  BY <1>1, FS_Subset DEF Holders, HoldsCounted
<1>3. Holders(r) \in SUBSET Turn
  BY DEF Holders
<1> QED
  BY <1>1, <1>2, <1>3, FS_Subset, FS_CardinalityType, FS_EmptySet

(* The types of a relay, but for the bound of its count. *)
Counting == [child : {"none", "running", "killed", "gone"}, said : BOOLEAN, port : BOOLEAN,
             stopped : BOOLEAN, timer : BOOLEAN, active : Int]
LEMMA CountBounded ==
  ASSUME TypeOK, NEW r \in Relays, NEW x \in Counting, relay' = [relay EXCEPT ![r] = x],
         HoldsCounted'
  PROVE  relay' \in [Relays -> Relay]
<1>1. IsFiniteSet(Turn)
  BY OpencodeRelayAssumption
<1>2. relay'[r].active = Cardinality(Holders(r)')
  BY DEF HoldsCounted, Holders
<1>3. Holders(r)' \in SUBSET Turn
  BY DEF Holders
<1>4. Cardinality(Holders(r)') \in 0 .. Cardinality(Turn)
  BY <1>1, <1>3, FS_Subset, FS_CardinalityType
<1>5. relay'[r] = x
  BY DEF TypeOK
<1>6. x \in Relay
  BY <1>2, <1>4, <1>5 DEF Counting, Relay
<1> QED
  BY <1>6 DEF TypeOK

LEMMA RelayStarts == Init => RelayInv
<1> SUFFICES ASSUME Init PROVE RelayInv
  OBVIOUS
<1>1. IsFiniteSet(Turn) /\ MaxRelays \in Nat
  BY OpencodeRelayAssumption
<1>2. Cardinality({}) = 0 /\ Cardinality(Turn) \in Nat
  BY <1>1, FS_EmptySet, FS_CardinalityType
<1>3. TypeOK
  <2>1. Unmade \in Relay
    BY <1>2 DEF Unmade, Relay
  <2>2. relay \in [Relays -> Relay] /\ made \in 0..MaxRelays /\ current \in 0..made
    BY <2>1, <1>1 DEF Init
  <2>3. New \in [at : {"new", "waiting", "relayed", "held", "direct", "done"},
                via : 0..MaxRelays, why : Reason]
    BY <1>1 DEF New, Reason
  <2> QED
    BY <2>2, <2>3 DEF Init, TypeOK, Reason
<1>4. HoldsCounted
  <2>1. ASSUME NEW r \in Relays PROVE Holders(r) = {} /\ relay[r].active = 0
    BY DEF Init, Holders, New, Unmade
  <2> QED
    BY <2>1, <1>2 DEF HoldsCounted, Holders
<1>5. NoOrphan /\ HeldIsServed /\ OneWait
  BY DEF Init, NoOrphan, HeldIsServed, OneWait, New, Unmade
<1>6. ChildInv /\ TurnInv /\ WaitInv
  BY <1>1 DEF Init, ChildInv, TurnInv, WaitInv, New, Unmade, Relays
<1> QED
  BY <1>3, <1>4, <1>5, <1>6 DEF RelayInv, RelaySafe

(* A waiting turn waits for the current relay. *)
LEMMA WaitsForCurrent ==
  ASSUME RelayInv, NEW t \in Turn, turn[t].at = "waiting"
  PROVE  /\ turn[t].via \in Relays /\ turn[t].via = current /\ turn[t].via <= made
         /\ relay[current].child = "running" /\ ~relay[current].stopped /\ ~relay[current].port
<1>1. turn[t].via \in Relays
  BY OpencodeRelayAssumption DEF RelayInv, TurnInv, TypeOK, Relays
<1> QED
  BY <1>1 DEF RelayInv, TurnInv, RelaySafe, NoOrphan

(* Everyone who waits for relay r lets go, and r ends. *)
LEMMA AllLetGo ==
  ASSUME RelayInv, NEW r \in Relays, relay[r].child = "running", NEW x \in Counting,
         NEW f \in Reason,
         relay' = [relay EXCEPT ![r] = Released(Stopped(x), Cardinality(Waiting(r)))],
         x.active = relay[r].active, x.child \in {"running", "gone"},
         \A t \in Turn : turn[t].at = "relayed" /\ turn[t].via = r => x.child = "gone",
         Direct(Waiting(r), f), UNCHANGED <<enabled, made>>, failure' \in Reason,
         current' \in {0, current}, current' = current \/ current = r,
         waits' = waits \/ (waits' = waits + 1 /\ current' = r)
  PROVE  RelayInv'
<1>0. TypeOK /\ HoldsCounted
  BY DEF RelayInv, RelaySafe
<1> DEFINE y == Released(Stopped(x), Cardinality(Waiting(r)))
<1>1. Waiting(r) \in SUBSET Holders(r)
  BY DEF Waiting, Holders
<1>2. Cardinality(Waiting(r)) \in Nat /\ relay[r].active \in Nat
  BY <1>0, <1>1, Counts
<1>3. /\ y.stopped /\ ~y.timer /\ y.child \in {"killed", "gone"}
      /\ x.child = "gone" => y.child = "gone"
      /\ y.active = relay[r].active - Cardinality(Waiting(r))
      /\ y \in Counting
  <2>1. Stopped(x) \in Counting /\ Stopped(x).stopped /\ Stopped(x).active = relay[r].active
        /\ Stopped(x).child = IF x.child = "running" THEN "killed" ELSE x.child
    BY DEF Stopped, Counting
  <2> DEFINE z == [Stopped(x) EXCEPT !.active = @ - Cardinality(Waiting(r))]
  <2>2. z \in Counting /\ z.stopped /\ z.active = relay[r].active - Cardinality(Waiting(r))
        /\ z.child = Stopped(x).child
    BY <2>1, <1>2 DEF Counting
  <2>3. y = [z EXCEPT !.timer = ~z.stopped /\ z.active = 0]
    BY DEF Released, Armed
  <2> HIDE DEF z, y
  <2> QED
    BY <2>1, <2>2, <2>3 DEF Counting
<1>4. /\ \A q \in Relays : relay'[q] = IF q = r THEN y ELSE relay[q]
      /\ DOMAIN relay' = Relays
  BY <1>0 DEF TypeOK
<1>5. /\ \A t \in Turn : turn'[t] = IF t \in Waiting(r) THEN [turn[t] EXCEPT !.at = "direct", !.why = Why(f)]
                                     ELSE turn[t]
      /\ Why(f) \in Reason
  BY DEF Direct, Why, Reason
<1> HIDE DEF y
<1>6. HoldsCounted'
  <2>1. \A t \in Waiting(r) : turn'[t].at \notin Stages
    BY <1>0, <1>5 DEF TypeOK, Stages, Waiting
  <2>2. \A t \in Turn \ Waiting(r) : turn'[t] = turn[t]
    BY <1>5
  <2> QED
    BY <1>0, <1>1, <1>3, <1>4, <2>1, <2>2, GivenBack
<1>7. TypeOK'
  <2>1. relay' \in [Relays -> Relay]
    BY <1>0, <1>3, <1>6, CountBounded DEF y
  <2>2. turn' \in [Turn -> [at : {"new", "waiting", "relayed", "held", "direct", "done"},
                            via : 0..MaxRelays, why : Reason]]
    <3>1. ASSUME NEW t \in Turn
          PROVE  turn'[t] \in [at : {"new", "waiting", "relayed", "held", "direct", "done"},
                               via : 0..MaxRelays, why : Reason]
      BY <1>0, <1>5 DEF TypeOK
    <3> QED
      BY <3>1 DEF Direct
  <2>3. waits' \in Nat
    BY <1>0 DEF TypeOK
  <2>5. warned' \in BOOLEAN
    BY <1>0, Zenon DEF TypeOK, Direct
  <2>4. current' \in 0..made' /\ made' \in 0..MaxRelays
    BY <1>0, OpencodeRelayAssumption DEF TypeOK
  <2> QED
    BY <2>1, <2>2, <2>3, <2>4, <2>5, <1>0 DEF TypeOK
<1>8. r = current /\ ~relay[r].stopped /\ r <= made /\ r # 0 /\ waits = 0
  BY OpencodeRelayAssumption DEF RelayInv, RelaySafe, NoOrphan, WaitInv, TypeOK, Relays
<1>9. \A t \in Turn : turn'[t].at # "waiting"
  <2>1. ASSUME NEW t \in Turn, turn[t].at = "waiting" PROVE t \in Waiting(r)
    BY <2>1, <1>8, WaitsForCurrent DEF Waiting
  <2> QED
    BY <2>1, <1>5, <1>0 DEF TypeOK
<1>a. \A t \in Turn : turn'[t].via = turn[t].via /\ turn'[t].at \in {turn[t].at, "direct"}
  BY <1>0, <1>5 DEF TypeOK
<1>b. \A t \in Turn : turn[t].at \in Stages => turn[t].via \in Relays
  BY <1>0, OpencodeRelayAssumption DEF TypeOK, RelayInv, TurnInv, Relays, Stages
<1>10. NoOrphan' /\ HeldIsServed'
  <2>1. NoOrphan'
    BY <1>3, <1>4, <1>8 DEF RelayInv, RelaySafe, NoOrphan
  <2>2. HeldIsServed'
    BY <1>3, <1>4, <1>a, <1>b DEF RelayInv, RelaySafe, HeldIsServed, Stages
  <2> QED
    BY <2>1, <2>2
<1>11. OneWait' /\ WaitInv'
  <2>1. waits' \in {0, 1} /\ (waits' # 0 => current' = r)
    BY <1>8
  <2> QED
    BY <2>1, <1>3, <1>4, <1>8, <1>9 DEF OneWait, WaitInv
<1>12. ChildInv'
  BY <1>0, <1>3, <1>4, <1>8, OpencodeRelayAssumption DEF RelayInv, ChildInv, Relays, TypeOK
<1>13. TurnInv'
  <2>1. ASSUME NEW t \in Turn PROVE turn'[t].via <= made' /\ (turn'[t].at \in Stages => turn'[t].via # 0)
    BY <1>a DEF RelayInv, TurnInv, Stages
  <2> QED
    BY <2>1, <1>9 DEF TurnInv, Stages
<1> QED
  BY <1>6, <1>7, <1>10, <1>11, <1>12, <1>13 DEF RelayInv, RelaySafe

(* The fields of a relay from which n turns have let go. *)
LEMMA ReleasedFields ==
  ASSUME NEW x \in Counting, NEW n \in Int
  PROVE  LET y == Released(x, n)
         IN /\ y \in Counting /\ y.active = x.active - n /\ y.timer = (~x.stopped /\ y.active = 0)
            /\ y.child = x.child /\ y.port = x.port /\ y.stopped = x.stopped
<1> DEFINE z == [x EXCEPT !.active = @ - n]
<1>1. z \in Counting /\ z.active = x.active - n /\ z.child = x.child /\ z.port = x.port
      /\ z.stopped = x.stopped
  BY DEF Counting
<1>2. Released(x, n) = [z EXCEPT !.timer = ~z.stopped /\ z.active = 0]
  BY DEF Released, Armed
<1> HIDE DEF z
<1> QED
  BY <1>1, <1>2 DEF Counting

LEMMA HeldFields ==
  ASSUME NEW x \in Counting
  PROVE  LET y == Held(x)
         IN /\ y \in Counting /\ y.active = x.active + 1 /\ ~y.timer
            /\ y.child = x.child /\ y.port = x.port /\ y.stopped = x.stopped
<1> DEFINE z == [x EXCEPT !.active = @ + 1]
<1>1. z \in Counting /\ z.active = x.active + 1 /\ z.child = x.child /\ z.port = x.port
      /\ z.stopped = x.stopped
  BY DEF Counting
<1>2. Held(x) = [z EXCEPT !.timer = FALSE]
  BY DEF Held
<1> HIDE DEF z
<1> QED
  BY <1>1, <1>2 DEF Counting

LEMMA CurrentMade ==
  ASSUME TypeOK
  PROVE  /\ made \in Nat /\ MaxRelays \in Nat /\ current \in Nat /\ current <= made
         /\ \A r \in Relays : r \in Nat /\ r # 0 /\ relay[r] \in Counting
         /\ current # 0 => current \in Relays
<1>1. \A r \in Relays : relay[r] \in Counting
  <2>1. Relay \subseteq Counting
    BY OpencodeRelayAssumption, FS_CardinalityType DEF Relay, Counting
  <2> QED
    BY <2>1 DEF TypeOK
<1> QED
  BY <1>1, OpencodeRelayAssumption DEF TypeOK, Relays

LEMMA PortKept ==
  ASSUME RelayInv, NEW r \in Relays, PortLine(r)
  PROVE  RelayInv'
<1>0. TypeOK /\ HoldsCounted /\ ChildInv /\ TurnInv
  BY DEF RelayInv, RelaySafe
<1> DEFINE W == Waiting(r)
           n == Cardinality(W \cap Prewarm)
           z == [relay[r] EXCEPT !.said = TRUE, !.port = TRUE]
           y == Released(Armed(z), n)
<1>1. W \cap Prewarm \in SUBSET Holders(r)
  BY DEF Waiting, Holders
<1>2. n \in Nat /\ n <= relay[r].active /\ relay[r] \in Counting
  BY <1>0, <1>1, Counts, CurrentMade
<1>3. z \in Counting /\ Armed(z) \in Counting /\ Armed(z).active = relay[r].active
      /\ Armed(z).child = relay[r].child /\ Armed(z).port /\ Armed(z).stopped = relay[r].stopped
  BY <1>2 DEF Armed, Counting
<1>4. /\ y \in Counting /\ y.active = relay[r].active - n
      /\ y.timer = (~relay[r].stopped /\ y.active = 0)
      /\ y.child = relay[r].child /\ y.port /\ y.stopped = relay[r].stopped
  <2> HIDE DEF n, z
  <2> QED
    BY <1>2, <1>3, ReleasedFields
<1>5. relay' = [relay EXCEPT ![r] = y]
  BY DEF PortLine
<1>6. \A t \in Turn : turn'[t] = IF t \notin W THEN turn[t]
        ELSE [turn[t] EXCEPT !.at = IF t \in Prewarm THEN "done"
                                    ELSE IF t \in Relayable THEN "relayed" ELSE "held"]
  BY DEF PortLine
<1> HIDE DEF n, y, z
<1>7. \A q \in Relays : relay'[q] = IF q = r THEN y ELSE relay[q]
  BY <1>0, <1>5 DEF TypeOK
<1>8. /\ \A t \in Turn : turn'[t].via = turn[t].via
      /\ \A t \in W : turn[t].at = "waiting" /\ turn[t].via = r
      /\ \A t \in W : turn'[t].at \in {"done", "relayed", "held"}
      /\ \A t \in W : turn'[t].at = "done" <=> t \in Prewarm
      /\ \A t \in Turn \ W : turn'[t] = turn[t]
  BY <1>0, <1>6, ZenonT(40) DEF TypeOK, Waiting
<1>9. HoldsCounted'
  <2>1. \A t \in W \cap Prewarm : turn'[t].at \notin Stages
    BY <1>8 DEF Stages
  <2>2. \A t \in Turn \ (W \cap Prewarm) : turn'[t].at \in Stages <=> turn[t].at \in Stages
    BY <1>8 DEF Stages
  <2> QED
    BY <1>0, <1>1, <1>4, <1>7, <1>8, <2>1, <2>2, GivenBack DEF n
<1>10. TypeOK'
  <2>1. relay' \in [Relays -> Relay]
    BY <1>0, <1>4, <1>5, <1>9, CountBounded
  <2>2. turn' \in [Turn -> [at : {"new", "waiting", "relayed", "held", "direct", "done"},
                            via : 0..MaxRelays, why : Reason]]
    <3>1. ASSUME NEW t \in Turn
          PROVE  turn'[t] \in [at : {"new", "waiting", "relayed", "held", "direct", "done"},
                               via : 0..MaxRelays, why : Reason]
      BY <1>0, <1>6 DEF TypeOK
    <3> QED
      BY <3>1 DEF PortLine
  <2> QED
    BY <2>1, <2>2, <1>0 DEF TypeOK, PortLine, Reason
<1>11. \A t \in Turn : turn[t].at \in Stages => turn[t].via \in Relays
  BY <1>0, CurrentMade DEF TypeOK, TurnInv, Relays, Stages
<1>12. NoOrphan' /\ HeldIsServed'
  <2>1. NoOrphan'
    <3>1. current' = current
      BY DEF PortLine
    <3> QED
      BY <3>1, <1>4, <1>7 DEF RelayInv, RelaySafe, NoOrphan
  <2>2. ASSUME NEW t \in Turn, turn'[t].at = "relayed"
        PROVE  relay'[turn'[t].via].port \/ relay'[turn'[t].via].child = "gone"
    <3>1. turn[t].via \in Relays /\ (turn[t].via # r => turn[t].at = "relayed")
      BY <2>2, <1>8, <1>11 DEF Stages
    <3> QED
      BY <3>1, <1>4, <1>7, <1>8 DEF RelayInv, RelaySafe, HeldIsServed
  <2> QED
    BY <2>1, <2>2 DEF HeldIsServed
<1>13. OneWait' /\ WaitInv'
  <2>1. UNCHANGED <<waits, current>>
    BY DEF PortLine
  <2>2. \A t \in Turn : turn'[t].at = "waiting" => turn[t].at = "waiting"
    BY <1>8
  <2>3. current # 0 => current \in Relays /\ relay'[current].stopped = relay[current].stopped
    BY <1>0, <1>4, <1>7, CurrentMade
  <2> QED
    BY <2>1, <2>2, <2>3 DEF RelayInv, RelaySafe, OneWait, WaitInv
<1>14. ChildInv'
  <2>1. r <= made /\ made' = made
    BY <1>0, CurrentMade DEF ChildInv, PortLine, Unmade
  <2>2. y.timer => ~y.stopped /\ y.active = 0
    BY <1>4
  <2> QED
    BY <2>1, <2>2, <1>0, <1>4, <1>7, CurrentMade DEF ChildInv
<1>15. TurnInv'
  <2>1. ASSUME NEW t \in Turn
        PROVE  /\ turn'[t].via <= made'
               /\ turn'[t].at \in Stages => turn'[t].via # 0
    BY <1>0, <1>8 DEF TurnInv, Stages, PortLine
  <2>2. ASSUME NEW t \in Turn, turn'[t].at = "waiting"
        PROVE  LET x == relay'[turn'[t].via] IN x.child = "running" /\ ~x.stopped /\ ~x.port
    <3>1. turn[t].at = "waiting" /\ turn'[t].via = turn[t].via /\ turn[t].via # r
      BY <2>2, <1>8 DEF Waiting
    <3>2. turn[t].via \in Relays
      BY <3>1, <1>11 DEF Stages
    <3> QED
      BY <3>1, <3>2, <1>0, <1>7 DEF TurnInv
  <2> QED
    BY <2>1, <2>2 DEF TurnInv, Stages
<1> QED
  BY <1>9, <1>10, <1>12, <1>13, <1>14, <1>15 DEF RelayInv, RelaySafe

Turns == [Turn -> [at : {"new", "waiting", "relayed", "held", "direct", "done"},
                   via : 0..MaxRelays, why : Reason]]

(* A step that changes one relay that is made, does not start a stopped one   *)
(* again, and lets turns wait only for a child that has still to tell its     *)
(* port, before any deadline has passed.                                      *)
Ages(r, x) ==
  /\ r <= made /\ relay' = [relay EXCEPT ![r] = x]
  /\ UNCHANGED <<enabled, made, waits>>
  /\ current' = current \/ (current' = 0 /\ current = r /\ ~relay[r].stopped /\ x.stopped)
  /\ relay[r].stopped => x.stopped
  /\ ~x.stopped => x.child = "running"
  /\ x.child = "running" => ~x.stopped /\ relay[r].child = "running"
  /\ x.timer => ~x.stopped /\ x.active = 0
Turned(r, x) ==
  /\ turn' \in Turns /\ failure' \in Reason /\ warned' \in BOOLEAN
  /\ \A t \in Turn : turn'[t].via <= made
  /\ \A t \in Turn : turn'[t].at \in Stages => turn'[t].via # 0
  /\ \A t \in Turn : turn'[t].at = "waiting" =>
       turn'[t] = turn[t] \/ (turn'[t].via = r /\ waits = 0)
  /\ \A t \in Turn : turn'[t].at = "waiting" /\ turn'[t].via = r =>
       x.child = "running" /\ ~x.stopped /\ ~x.port
  /\ \A t \in Turn : turn'[t].at = "relayed" =>
       \/ turn'[t] = turn[t] /\ turn[t].via # r
       \/ turn'[t].via = r /\ (x.port \/ x.child = "gone")
LEMMA OneMoves ==
  ASSUME RelayInv, NEW r \in Relays, NEW x \in Counting, HoldsCounted', Ages(r, x), Turned(r, x)
  PROVE  RelayInv'
<1> USE DEF Ages, Turned
<1>0. TypeOK /\ HoldsCounted /\ ChildInv /\ TurnInv /\ WaitInv /\ NoOrphan /\ HeldIsServed /\ OneWait
  BY DEF RelayInv, RelaySafe
<1>1. \A q \in Relays : relay'[q] = IF q = r THEN x ELSE relay[q]
  BY <1>0 DEF TypeOK
<1>2. /\ current' \in Nat /\ current' <= made /\ made \in Nat /\ r \in Nat /\ r # 0
      /\ current' # 0 => current' \in Relays
  BY <1>0, CurrentMade
<1>3. TypeOK'
  <2>1. relay' \in [Relays -> Relay]
    BY <1>0, CountBounded
  <2> QED
    BY <2>1, <1>0, <1>2 DEF TypeOK, Turns
<1>4. \A t \in Turn : turn'[t].at \in Stages => turn'[t].via \in Relays
  BY <1>3, <1>2, CurrentMade DEF TypeOK, Relays
<1>5. NoOrphan'
  <2>1. ASSUME NEW q \in Relays, relay'[q].child = "running"
        PROVE  ~relay'[q].stopped /\ current' = q
    <3>1. relay[q].child = "running"
      BY <2>1, <1>1
    <3>2. current = q /\ ~relay[q].stopped
      BY <3>1, <1>0 DEF NoOrphan
    <3> QED
      BY <2>1, <3>2, <1>1
  <2> QED
    BY <2>1 DEF NoOrphan
<1>6. HeldIsServed'
  <2>1. ASSUME NEW t \in Turn, turn'[t].at = "relayed"
        PROVE  relay'[turn'[t].via].port \/ relay'[turn'[t].via].child = "gone"
    <3>1. turn'[t].via \in Relays
      BY <2>1, <1>4 DEF Stages
    <3> QED
      BY <2>1, <3>1, <1>0, <1>1 DEF HeldIsServed
  <2> QED
    BY <2>1 DEF HeldIsServed
<1>7. OneWait' /\ WaitInv'
  <2>1. OneWait'
    BY <1>0 DEF OneWait
  <2>2. WaitInv'
    BY <1>0, <1>1, <1>2, CurrentMade DEF WaitInv
  <2> QED
    BY <2>1, <2>2
<1>8. ChildInv'
  BY <1>0, <1>1, <1>2, CurrentMade DEF ChildInv
<1>9. TurnInv'
  <2>1. ASSUME NEW t \in Turn, turn'[t].at = "waiting"
        PROVE  LET y == relay'[turn'[t].via] IN y.child = "running" /\ ~y.stopped /\ ~y.port
    <3>1. turn'[t].via \in Relays
      BY <2>1, <1>4 DEF Stages
    <3> QED
      BY <2>1, <3>1, <1>0, <1>1 DEF TurnInv
  <2> QED
    BY <2>1 DEF TurnInv, Stages
<1> QED
  BY <1>3, <1>5, <1>6, <1>7, <1>8, <1>9 DEF RelayInv, RelaySafe

(* What is not made has nobody, and is no one's. *)
LEMMA TurnsOfMade ==
  ASSUME RelayInv
  PROVE  /\ turn \in Turns /\ failure \in Reason /\ warned \in BOOLEAN
         /\ \A t \in Turn : turn[t].via \in Nat /\ turn[t].via <= made
         /\ \A t \in Turn : turn[t].at \in Stages => turn[t].via # 0 /\ turn[t].via \in Relays
         /\ \A r \in Relays : relay[r] \in Counting /\ (relay[r].child # "none" => r <= made)
<1>0. TypeOK /\ TurnInv /\ ChildInv
  BY DEF RelayInv
<1>1. \A r \in Relays : relay[r].child # "none" => r <= made
  BY <1>0, CurrentMade DEF ChildInv, Unmade
<1>2. \A t \in Turn : turn[t].via \in Nat /\ turn[t].via <= made
  BY <1>0, CurrentMade DEF TurnInv, TypeOK
<1>3. \A t \in Turn : turn[t].at \in Stages => turn[t].via # 0 /\ turn[t].via \in Relays
  BY <1>0, CurrentMade DEF TurnInv, TypeOK, Relays, Stages
<1> QED
  BY <1>0, <1>1, <1>2, <1>3, CurrentMade DEF TypeOK, Turns

LEMMA IdleKept ==
  ASSUME RelayInv, NEW r \in Relays, Idle(r)
  PROVE  RelayInv'
<1>0. TypeOK /\ HoldsCounted /\ ChildInv /\ TurnInv /\ NoOrphan /\ HeldIsServed
  BY DEF RelayInv, RelaySafe
<1> DEFINE x == Stopped(relay[r])
<1>1. /\ relay[r].timer /\ relay' = [relay EXCEPT ![r] = x]
      /\ current' = IF current = r THEN 0 ELSE current
      /\ UNCHANGED <<enabled, made, waits, failure, turn, warned>>
  BY DEF Idle
<1>2. relay[r] \in Counting /\ r <= made /\ ~relay[r].stopped /\ relay[r].active = 0
  BY <1>0, <1>1, CurrentMade DEF ChildInv, Unmade
<1>3. x \in Counting /\ x.stopped /\ ~x.timer /\ x.active = 0 /\ x.child # "running"
  BY <1>2 DEF Stopped, Counting
<1>4. Holders(r) = {}
  BY <1>0, <1>2, Counts
<1>5. HoldsCounted'
  <2>1. \A q \in Relays : relay'[q].active = relay[q].active
    BY <1>0, <1>1, <1>2, <1>3 DEF TypeOK
  <2> QED
    BY <2>1, <1>0, <1>1 DEF HoldsCounted
<1>6. \A t \in Turn : turn[t].at \in Stages => turn[t].via # r
  BY <1>4 DEF Holders, Stages
<1> HIDE DEF x
<1>7. /\ \A t \in Turn : turn'[t].at \in Stages => turn'[t].via # 0 /\ turn'[t].via <= made
      /\ \A t \in Turn : turn'[t].via <= made
  BY <1>1, TurnsOfMade
<1>8. \A t \in Turn : turn'[t] = turn[t] /\ (turn[t].at \in {"waiting", "relayed"} => turn[t].via # r)
  BY <1>1, <1>6 DEF Stages
<1>9. turn' \in Turns /\ failure' \in Reason /\ warned' \in BOOLEAN
  BY <1>1, TurnsOfMade
<1>10. current' = current \/ (current' = 0 /\ current = r /\ ~relay[r].stopped /\ x.stopped)
  BY <1>1, <1>2, <1>3
<1>11. /\ \A t \in Turn : turn'[t].at = "waiting" => turn'[t] = turn[t]
       /\ \A t \in Turn : turn'[t].at = "waiting" => turn'[t].via # r
       /\ \A t \in Turn : turn'[t].at = "relayed" => turn'[t] = turn[t] /\ turn[t].via # r
  BY <1>8
<1>12. Ages(r, x) /\ Turned(r, x)
  BY <1>1, <1>2, <1>3, <1>7, <1>9, <1>10, <1>11 DEF Ages, Turned
<1> QED
  BY <1>3, <1>5, <1>12, OneMoves

LEMMA ExitKept ==
  ASSUME RelayInv, NEW r \in Relays, Exit(r)
  PROVE  RelayInv'
<1>0. TypeOK /\ HoldsCounted /\ ChildInv /\ TurnInv /\ NoOrphan /\ HeldIsServed
  BY DEF RelayInv, RelaySafe
<1> DEFINE x == [relay[r] EXCEPT !.child = "gone", !.port = FALSE]
<1>1. relay[r] \in Counting /\ relay[r].child \in {"running", "killed"} /\ r <= made
  BY TurnsOfMade DEF Exit
<1>2. /\ x \in Counting /\ x.child = "gone" /\ ~x.port /\ x.stopped = relay[r].stopped
      /\ x.active = relay[r].active /\ x.timer = relay[r].timer
  BY <1>1 DEF Counting
<1>3. CASE relay[r].stopped
  <2>1. /\ relay' = [relay EXCEPT ![r] = x]
        /\ UNCHANGED <<enabled, made, current, waits, failure, turn, warned>>
    BY <1>2, <1>3 DEF Exit
  <2> HIDE DEF x
  <2>2. HoldsCounted'
    <3>1. \A q \in Relays : relay'[q].active = relay[q].active
      BY <1>0, <1>2, <2>1 DEF TypeOK
    <3> QED
      BY <3>1, <1>0, <2>1 DEF HoldsCounted
  <2>3. x.stopped /\ ~x.timer
    BY <1>0, <1>2, <1>3 DEF ChildInv
  <2>4. Ages(r, x)
    BY <1>1, <1>2, <1>3, <2>1, <2>3 DEF Ages
  <2>5. \A t \in Turn : turn[t].at = "waiting" => turn[t].via # r
    BY <1>0, <1>3 DEF TurnInv
  <2>6. Turned(r, x)
    BY <1>2, <2>1, <2>5, TurnsOfMade DEF Turned
  <2> QED
    BY <1>2, <2>2, <2>4, <2>6, OneMoves
<1>4. CASE ~relay[r].stopped
  <2>1. /\ failure' = "exit" /\ current' = 0
        /\ relay' = [relay EXCEPT ![r] = Released(Stopped(x), Cardinality(Waiting(r)))]
        /\ Direct(Waiting(r), "exit") /\ UNCHANGED <<enabled, made, waits>>
    BY <1>2, <1>4 DEF Exit
  <2> HIDE DEF x
  <2>2. relay[r].child = "running" /\ current = r
    BY <1>0, <1>1, <1>4 DEF ChildInv, NoOrphan
  <2>3. "exit" \in Reason
    BY DEF Reason
  <2> QED
    BY <1>2, <2>1, <2>2, <2>3, AllLetGo
<1> QED
  BY <1>3, <1>4

LEMMA LaunchErrorKept ==
  ASSUME RelayInv, NEW r \in Relays, LaunchError(r)
  PROVE  RelayInv'
<1> DEFINE x == [relay[r] EXCEPT !.child = "gone", !.said = TRUE]
<1>1. /\ relay[r] \in Counting /\ relay[r].child = "running"
      /\ relay' = [relay EXCEPT ![r] = Released(Stopped(x), Cardinality(Waiting(r)))]
      /\ Direct(Waiting(r), "launch") /\ failure' = "launch"
      /\ UNCHANGED <<enabled, made, current, waits>>
  BY TurnsOfMade DEF LaunchError
<1>2. x \in Counting /\ x.child = "gone" /\ x.active = relay[r].active
  BY <1>1 DEF Counting
<1>3. "launch" \in Reason
  BY DEF Reason
<1>4. current = r
  BY <1>1 DEF RelayInv, RelaySafe, NoOrphan
<1> HIDE DEF x
<1> QED
  BY <1>1, <1>2, <1>3, <1>4, AllLetGo

LEMMA TimeOutKept ==
  ASSUME RelayInv, NEW t \in Turn, TimeOut(t)
  PROVE  RelayInv'
<1> DEFINE r == turn[t].via
           x == relay[r]
<1>1. /\ r \in Relays /\ r = current /\ x.child = "running" /\ ~x.stopped /\ ~x.port
  BY WaitsForCurrent DEF TimeOut
<1>2. /\ waits' = waits + 1 /\ failure' = "timeout" /\ current' = r
      /\ relay' = [relay EXCEPT ![r] = Released(Stopped(x), Cardinality(Waiting(r)))]
      /\ Direct(Waiting(r), "timeout") /\ UNCHANGED <<enabled, made>>
  BY <1>1 DEF TimeOut, Fail, SingletonAfterFail
<1>3. x \in Counting
  BY <1>1, TurnsOfMade
<1>4. "timeout" \in Reason
  BY DEF Reason
<1>5. \A u \in Turn : turn[u].at = "relayed" => turn[u].via # r
  BY <1>1 DEF RelayInv, RelaySafe, HeldIsServed
<1> HIDE DEF r, x
<1> QED
  BY <1>1, <1>2, <1>3, <1>4, <1>5, AllLetGo DEF x

LEMMA DoneKept ==
  ASSUME RelayInv, NEW t \in Turn, Done(t)
  PROVE  RelayInv'
<1>0. TypeOK /\ HoldsCounted /\ ChildInv /\ TurnInv /\ NoOrphan /\ HeldIsServed
  BY DEF RelayInv, RelaySafe
<1> DEFINE r == turn[t].via
           x == Released(relay[r], 1)
<1>1. /\ r \in Relays /\ turn[t].at \in {"relayed", "held"} /\ relay[r] \in Counting
      /\ r <= made
  BY TurnsOfMade DEF Done, Stages
<1>2. /\ relay' = [relay EXCEPT ![r] = x] /\ turn' = [turn EXCEPT ![t].at = "done"]
      /\ UNCHANGED <<enabled, made, current, failure, warned, waits>>
  BY DEF Done
<1>3. /\ x \in Counting /\ x.active = relay[r].active - 1
      /\ x.timer = (~relay[r].stopped /\ x.active = 0)
      /\ x.child = relay[r].child /\ x.port = relay[r].port /\ x.stopped = relay[r].stopped
  BY <1>1, ReleasedFields
<1>4. /\ turn'[t].at = "done" /\ turn'[t].via = r
      /\ \A u \in Turn \ {t} : turn'[u] = turn[u]
      /\ turn' \in Turns
  BY <1>0, <1>2 DEF TypeOK, Turns
<1> HIDE DEF x
<1>5. HoldsCounted'
  <2>1. {t} \in SUBSET Holders(r) /\ Cardinality({t}) = 1
    BY <1>1, FS_Singleton DEF Holders
  <2>2. \A q \in Relays : relay'[q].active =
          IF q = r THEN relay[r].active - Cardinality({t}) ELSE relay[q].active
    BY <1>0, <1>2, <1>3, <2>1 DEF TypeOK
  <2>3. \A u \in {t} : turn'[u].at \notin Stages
    BY <1>4 DEF Stages
  <2> QED
    BY <1>0, <1>1, <1>4, <2>1, <2>2, <2>3, GivenBack
<1>6. Ages(r, x)
  <2>1. x.timer => ~x.stopped /\ x.active = 0
    BY <1>3
  <2>2. /\ ~x.stopped => x.child = "running"
        /\ x.child = "running" => ~x.stopped /\ relay[r].child = "running"
    BY <1>0, <1>1, <1>3 DEF ChildInv, NoOrphan
  <2> QED
    BY <1>1, <1>2, <1>3, <2>1, <2>2 DEF Ages
<1>7. Turned(r, x)
  <2>1. ASSUME NEW u \in Turn, turn'[u].at = "waiting", turn'[u].via = r
        PROVE  x.child = "running" /\ ~x.stopped /\ ~x.port
    BY <2>1, <1>0, <1>3, <1>4 DEF TurnInv
  <2>2. ASSUME NEW u \in Turn, turn'[u].at = "relayed"
        PROVE  turn'[u] = turn[u] /\ (turn[u].via = r => x.port \/ x.child = "gone")
    BY <2>2, <1>0, <1>3, <1>4 DEF HeldIsServed
  <2>3. /\ \A u \in Turn : turn'[u].via <= made
        /\ \A u \in Turn : turn'[u].at \in Stages => turn'[u].via # 0
    <3>1. /\ \A u \in Turn : turn'[u].via = turn[u].via
          /\ \A u \in Turn : turn'[u].at \in Stages => turn[u].at \in Stages
      BY <1>4 DEF Stages
    <3> QED
      BY <3>1, <1>2, TurnsOfMade
  <2>4. \A u \in Turn : turn'[u].at = "waiting" => turn'[u] = turn[u]
    BY <1>4
  <2>5. failure' \in Reason /\ warned' \in BOOLEAN
    BY <1>2, TurnsOfMade
  <2> QED
    BY <1>4, <2>1, <2>2, <2>3, <2>4, <2>5 DEF Turned
<1> QED
  BY <1>1, <1>3, <1>5, <1>6, <1>7, OneMoves

(* A turn that goes direct, or does not begin, changes nothing for the others.*)
LEMMA DirectKept ==
  ASSUME RelayInv, NEW t \in Turn, turn[t].at = "new", turn'[t].at = "direct",
         turn'[t].via = turn[t].via, \A u \in Turn \ {t} : turn'[u] = turn[u],
         turn' \in Turns, warned' \in BOOLEAN,
         UNCHANGED <<enabled, relay, made, current, failure, waits>>
  PROVE  RelayInv'
<1>0. TypeOK /\ HoldsCounted /\ ChildInv /\ TurnInv /\ WaitInv /\ NoOrphan /\ HeldIsServed /\ OneWait
  BY DEF RelayInv, RelaySafe
<1>1. /\ \A u \in Turn : turn'[u].via = turn[u].via
      /\ \A u \in Turn : turn'[u].at \in Stages => turn'[u] = turn[u]
      /\ \A u \in Turn : turn[u].at \in Stages => turn'[u] = turn[u]
  BY DEF Stages
<1>2. HoldsCounted'
  <2>1. \A r \in Relays : Holders(r)' = Holders(r)
    BY <1>1 DEF Holders, Stages
  <2> QED
    BY <2>1, <1>0 DEF HoldsCounted, Holders
<1>3. TypeOK'
  BY <1>0 DEF TypeOK, Turns
<1>4. NoOrphan' /\ HeldIsServed' /\ OneWait'
  BY <1>0, <1>1 DEF NoOrphan, HeldIsServed, OneWait, Stages
<1>5. ChildInv' /\ WaitInv'
  BY <1>0 DEF ChildInv, WaitInv
<1>6. TurnInv'
  BY <1>0, <1>1 DEF TurnInv, Stages
<1> QED
  BY <1>2, <1>3, <1>4, <1>5, <1>6 DEF RelayInv, RelaySafe

LEMMA OffKept ==
  ASSUME RelayInv, NEW t \in Turn, Off(t)
  PROVE  RelayInv'
<1>1. /\ turn[t].at = "new" /\ turn' = [turn EXCEPT ![t].at = "direct"]
      /\ UNCHANGED <<enabled, relay, made, current, failure, warned, waits>>
  BY DEF Off
<1>2. turn \in Turns /\ warned \in BOOLEAN
  BY TurnsOfMade
<1>3. turn' \in Turns /\ turn'[t].at = "direct" /\ turn'[t].via = turn[t].via
      /\ \A u \in Turn \ {t} : turn'[u] = turn[u]
  BY <1>1, <1>2 DEF Turns
<1> QED
  BY <1>1, <1>2, <1>3, DirectKept

LEMMA GoesDirect ==
  ASSUME RelayInv, NEW t \in Turn, NEW f \in Reason, Direct({t}, f)
  PROVE  /\ turn' \in Turns /\ warned' \in BOOLEAN /\ turn'[t].at = "direct"
         /\ turn'[t].via = turn[t].via /\ \A u \in Turn \ {t} : turn'[u] = turn[u]
<1>1. turn \in Turns /\ warned \in BOOLEAN
  BY TurnsOfMade
<1>2. Why(f) \in Reason
  BY DEF Why, Reason
<1>3. \A u \in Turn : turn'[u] = IF u \in {t} THEN [turn[u] EXCEPT !.at = "direct", !.why = Why(f)]
                                 ELSE turn[u]
  BY DEF Direct
<1>4. turn' \in Turns
  <2>1. ASSUME NEW u \in Turn
        PROVE  turn'[u] \in [at : {"new", "waiting", "relayed", "held", "direct", "done"},
                             via : 0..MaxRelays, why : Reason]
    BY <1>1, <1>2, <1>3 DEF Turns
  <2> QED
    BY <2>1 DEF Direct, Turns
<1>5. warned' \in BOOLEAN
  BY <1>1, Zenon DEF Direct
<1> QED
  BY <1>1, <1>3, <1>4, <1>5 DEF Turns

(* What a turn becomes that takes a hold of relay r. *)
LEMMA TakesHold ==
  ASSUME RelayInv, NEW t \in Turn, turn[t].at = "new", NEW r \in Relays, r <= made,
         NEW x \in Counting, NEW s \in Stages,
         x.active = relay[r].active + 1, relay' = [relay EXCEPT ![r] = x],
         turn' = [turn EXCEPT ![t] = [at |-> s, via |-> r, why |-> "none"]],
         Ages(r, x), failure' \in Reason, warned' \in BOOLEAN,
         x.child \in {"running", "gone"}, ~x.stopped, s = "waiting" => ~x.port /\ waits = 0,
         x.port = relay[r].port, relay[r].child = x.child,
         s = "relayed" => x.port
  PROVE  RelayInv'
<1>0. TypeOK /\ HoldsCounted /\ ChildInv /\ TurnInv /\ HeldIsServed
  BY DEF RelayInv, RelaySafe
<1>1. /\ turn'[t].at = s /\ turn'[t].via = r
      /\ \A u \in Turn \ {t} : turn'[u] = turn[u]
      /\ turn' \in Turns
  <2>1. [at |-> s, via |-> r, why |-> "none"]
          \in [at : {"new", "waiting", "relayed", "held", "direct", "done"},
               via : 0..MaxRelays, why : Reason]
    <3>1. r \in 0..MaxRelays
      BY <1>0, CurrentMade DEF Relays
    <3> QED
      BY <3>1 DEF Stages, Reason
  <2> QED
    BY <1>0, <2>1 DEF TypeOK, Turns
<1>2. HoldsCounted'
  <2>1. \A q \in Relays : relay'[q].active = IF q = r THEN relay[r].active + 1 ELSE relay[q].active
    BY <1>0 DEF TypeOK
  <2>2. turn[t].at \notin Stages /\ turn'[t].at \in Stages
    BY <1>1 DEF Stages
  <2> QED
    BY <1>0, <1>1, <2>1, <2>2, Taken
<1>3. Turned(r, x)
  <2>1. ASSUME NEW u \in Turn, turn'[u].at = "waiting", turn'[u].via = r
        PROVE  x.child = "running" /\ ~x.stopped /\ ~x.port
    <3>1. CASE u = t
      BY <3>1, <2>1, <1>1 DEF Ages
    <3>2. CASE u # t
      BY <3>2, <2>1, <1>0, <1>1 DEF TurnInv
    <3> QED
      BY <3>1, <3>2
  <2>2. ASSUME NEW u \in Turn, turn'[u].at = "relayed"
        PROVE  \/ turn'[u] = turn[u] /\ turn[u].via # r
               \/ turn'[u].via = r /\ (x.port \/ x.child = "gone")
    <3>1. CASE u = t
      BY <3>1, <2>2, <1>1
    <3>2. CASE u # t
      BY <3>2, <2>2, <1>0, <1>1 DEF HeldIsServed
    <3> QED
      BY <3>1, <3>2
  <2>3. /\ \A u \in Turn : turn'[u].via <= made
        /\ \A u \in Turn : turn'[u].at \in Stages => turn'[u].via # 0
    BY <1>0, <1>1, TurnsOfMade, CurrentMade
  <2>4. \A u \in Turn : turn'[u].at = "waiting" => turn'[u] = turn[u] \/ (turn'[u].via = r /\ waits = 0)
    BY <1>1
  <2> QED
    BY <1>1, <2>1, <2>2, <2>3, <2>4 DEF Turned
<1> QED
  BY <1>2, <1>3, OneMoves

LEMMA RouteKept ==
  ASSUME RelayInv, NEW t \in Turn, Route(t)
  PROVE  RelayInv'
<1>0. TypeOK /\ HoldsCounted /\ ChildInv /\ TurnInv /\ NoOrphan /\ HeldIsServed /\ WaitInv
  BY DEF RelayInv, RelaySafe
<1> DEFINE x == relay[current]
           h == Held(x)
<1>1. /\ turn[t].at = "new" /\ current # 0 /\ current \in Relays /\ x \in Counting
      /\ current \in Nat /\ current <= made
      /\ UNCHANGED <<enabled, made, current, failure, waits>>
  BY <1>0, CurrentMade DEF Route
<1>2. /\ h \in Counting /\ h.active = x.active + 1 /\ ~h.timer
      /\ h.child = x.child /\ h.port = x.port /\ h.stopped = x.stopped
  BY <1>1, HeldFields
<1>3. failure \in Reason /\ warned \in BOOLEAN /\ turn \in Turns
  BY TurnsOfMade
<1>4. CASE x.stopped
  <2>1. Direct({t}, failure) /\ UNCHANGED relay
    BY <1>4 DEF Route
  <2> HIDE DEF x, h
  <2> QED
    BY <1>1, <1>3, <2>1, GoesDirect, DirectKept
<1>5. CASE ~x.stopped
  <2>1. x.child = "running" /\ waits = 0
    BY <1>0, <1>1, <1>5 DEF ChildInv, WaitInv
  <2>2. CASE x.port /\ t \in Prewarm
    <3> DEFINE y == Released(h, 1)
    <3>1. /\ relay' = [relay EXCEPT ![current] = y] /\ warned' = warned
          /\ turn' = [turn EXCEPT ![t] = [at |-> "done", via |-> current, why |-> "none"]]
      BY <1>5, <2>2 DEF Route, RoutedTo
    <3>2. /\ y \in Counting /\ y.active = h.active - 1
          /\ y.timer = (~h.stopped /\ y.active = 0)
          /\ y.child = h.child /\ y.port = h.port /\ y.stopped = h.stopped
      <4> HIDE DEF h
      <4> QED
        BY <1>2, ReleasedFields
    <3> HIDE DEF y, h
    <3>3. /\ turn'[t].at = "done" /\ turn'[t].via = current
          /\ \A u \in Turn \ {t} : turn'[u] = turn[u]
      BY <1>3, <3>1 DEF Turns
    <3>4. turn' \in Turns
      <4>1. [at |-> "done", via |-> current, why |-> "none"]
              \in [at : {"new", "waiting", "relayed", "held", "direct", "done"},
                   via : 0..MaxRelays, why : Reason]
        BY <1>0, <1>1, CurrentMade DEF Reason, Relays
      <4> QED
        BY <1>3, <3>1, <4>1 DEF Turns
    <3>5. HoldsCounted'
      <4>1. \A q \in Relays : relay'[q].active = relay[q].active
        <5>1. x.active \in Int /\ y.active = x.active
          BY <1>1, <1>2, <3>2 DEF Counting
        <5> QED
          BY <1>0, <3>1, <5>1 DEF TypeOK
      <4>2. \A q \in Relays : Holders(q)' = Holders(q)
        BY <1>1, <3>3 DEF Holders
      <4> QED
        BY <1>0, <4>1, <4>2 DEF HoldsCounted, Holders
    <3>6. Ages(current, y)
      <4>1. y.timer => ~y.stopped /\ y.active = 0
        BY <3>2
      <4>2. ~y.stopped /\ y.child = "running"
        BY <1>2, <1>5, <2>1, <3>2
      <4> QED
        BY <1>1, <1>5, <2>1, <3>1, <4>1, <4>2 DEF Ages
    <3>7. Turned(current, y)
      <4>1. y.port /\ \A u \in Turn : turn[u].at = "waiting" => turn[u].via # current
        BY <1>0, <1>2, <2>2, <3>2 DEF TurnInv
      <4>2. /\ \A u \in Turn : turn'[u].via <= made
            /\ \A u \in Turn : turn'[u].at \in Stages => turn'[u].via # 0
        BY <1>1, <3>3, TurnsOfMade
      <4> QED
        BY <1>1, <1>3, <3>1, <3>3, <3>4, <4>1, <4>2 DEF Turned
    <3> QED
      BY <1>1, <3>2, <3>5, <3>6, <3>7, OneMoves
  <2>3. CASE x.port /\ t \notin Prewarm
    <3> DEFINE s == IF t \in Relayable THEN "relayed" ELSE "held"
    <3>1. /\ relay' = [relay EXCEPT ![current] = h] /\ warned' = warned
          /\ turn' = [turn EXCEPT ![t] = [at |-> s, via |-> current, why |-> "none"]]
      BY <1>5, <2>3 DEF Route, RoutedTo
    <3>2. s \in Stages /\ s # "waiting"
      BY DEF Stages
    <3> HIDE DEF h, s
    <3>3. Ages(current, h)
      BY <1>1, <1>2, <1>5, <2>1, <3>1 DEF Ages
    <3> QED
      BY <1>1, <1>2, <1>3, <1>5, <2>1, <2>3, <3>1, <3>2, <3>3, TakesHold
  <2>4. CASE ~x.port
    <3>1. /\ relay' = [relay EXCEPT ![current] = h] /\ warned' = warned
          /\ turn' = [turn EXCEPT ![t] = [at |-> "waiting", via |-> current, why |-> "none"]]
      BY <1>5, <2>4 DEF Route
    <3>2. "waiting" \in Stages
      BY DEF Stages
    <3> HIDE DEF h
    <3>3. Ages(current, h)
      BY <1>1, <1>2, <1>5, <2>1, <3>1 DEF Ages
    <3> QED
      BY <1>1, <1>2, <1>3, <1>5, <2>1, <2>4, <3>1, <3>2, <3>3, TakesHold
  <2> QED
    BY <2>2, <2>3, <2>4
<1> QED
  BY <1>4, <1>5

(* The first turn makes a relay, the only one that runs. *)
LEMMA RouteFirstKept ==
  ASSUME RelayInv, NEW t \in Turn, RouteFirst(t)
  PROVE  RelayInv'
<1>0. TypeOK /\ HoldsCounted /\ ChildInv /\ TurnInv /\ NoOrphan /\ HeldIsServed /\ WaitInv /\ OneWait
  BY DEF RelayInv, RelaySafe
<1> DEFINE r == made + 1
           u0 == [Unmade EXCEPT !.child = "running"]
           h == Held(u0)
           d == Stopped(Unmade)
<1>1. /\ turn[t].at = "new" /\ current = 0 /\ made' = r /\ current' = r
      /\ UNCHANGED <<enabled, waits>>
  BY DEF RouteFirst
<1>2. made \in Nat /\ r \in Nat /\ r \in Relays /\ MaxRelays \in Nat /\ r \in 0..MaxRelays
  BY <1>0, CurrentMade DEF RouteFirst, Relays
<1>3. Unmade \in Counting /\ relay[r] = Unmade
  BY <1>0, <1>2 DEF Unmade, Counting, ChildInv
<1>a. /\ Unmade \in Counting /\ Unmade.active = 0 /\ Unmade.child = "none" /\ ~Unmade.port
      /\ ~Unmade.stopped /\ ~Unmade.timer
  BY DEF Unmade, Counting
<1>4. /\ h \in Counting /\ h.active = 1 /\ ~h.timer /\ h.child = "running" /\ ~h.port
      /\ ~h.stopped
  <2>1. /\ u0 \in Counting /\ u0.active = 0 /\ u0.child = "running" /\ ~u0.port /\ ~u0.stopped
    BY <1>a DEF Counting
  <2> HIDE DEF u0
  <2> QED
    BY <2>1, HeldFields
<1>5. d \in Counting /\ d.stopped /\ ~d.timer /\ d.child = "none" /\ d.active = 0
  BY <1>a DEF Stopped, Counting
<1>6. /\ \A u \in Turn : turn[u].at # "waiting" /\ turn[u].via \in Nat /\ turn[u].via <= made
      /\ \A u \in Turn : turn[u].via # r
      /\ \A q \in Relays : relay[q].child # "running"
      /\ waits = 0
  <2>1. \A q \in Relays : relay[q].child # "running"
    BY <1>0, <1>1, CurrentMade DEF NoOrphan
  <2>2. \A u \in Turn : turn[u].via \in Nat /\ turn[u].via <= made
    BY TurnsOfMade
  <2>3. \A u \in Turn : turn[u].at # "waiting"
    BY <2>1, TurnsOfMade DEF Stages, RelayInv, TurnInv
  <2> QED
    BY <2>1, <2>2, <2>3, <1>0, <1>1, <1>2 DEF WaitInv
<1>7. turn \in Turns /\ failure \in Reason /\ warned \in BOOLEAN
  BY TurnsOfMade
<1>8. CASE /\ relay' = [relay EXCEPT ![r] = h]
           /\ turn' = [turn EXCEPT ![t] = [at |-> "waiting", via |-> r, why |-> "none"]]
           /\ UNCHANGED <<failure, warned>>
  <2> HIDE DEF h
  <2>1. /\ turn'[t].at = "waiting" /\ turn'[t].via = r
        /\ \A u \in Turn \ {t} : turn'[u] = turn[u]
    BY <1>7, <1>8 DEF Turns
  <2>2. turn' \in Turns
    <3>1. [at |-> "waiting", via |-> r, why |-> "none"]
            \in [at : {"new", "waiting", "relayed", "held", "direct", "done"},
                 via : 0..MaxRelays, why : Reason]
      BY <1>2 DEF Reason
    <3> QED
      BY <1>7, <1>8, <3>1 DEF Turns
  <2>3. \A q \in Relays : relay'[q] = IF q = r THEN h ELSE relay[q]
    BY <1>0, <1>8 DEF TypeOK
  <2>4. HoldsCounted'
    <3>1. \A q \in Relays : relay'[q].active = IF q = r THEN relay[r].active + 1 ELSE relay[q].active
      BY <1>3, <1>4, <2>3 DEF Unmade
    <3>2. turn[t].at \notin Stages /\ turn'[t].at \in Stages
      BY <1>1, <2>1 DEF Stages
    <3> QED
      BY <1>0, <1>2, <2>1, <3>1, <3>2, Taken
  <2>5. TypeOK'
    <3>1. relay' \in [Relays -> Relay]
      BY <1>0, <1>2, <1>4, <1>8, <2>4, CountBounded
    <3> QED
      BY <3>1, <1>0, <1>1, <1>2, <1>7, <1>8, <2>2 DEF TypeOK, Turns
  <2>6. NoOrphan'
    BY <1>1, <1>4, <1>6, <2>3 DEF NoOrphan
  <2>7. HeldIsServed'
    <3>1. ASSUME NEW u \in Turn, turn'[u].at = "relayed"
          PROVE  relay'[turn'[u].via].port \/ relay'[turn'[u].via].child = "gone"
      <4>1. u # t /\ turn'[u] = turn[u] /\ turn[u].via # r /\ turn[u].via \in Relays
        BY <3>1, <1>6, <2>1, TurnsOfMade DEF Stages
      <4> QED
        BY <4>1, <3>1, <1>0, <2>3 DEF HeldIsServed
    <3> QED
      BY <3>1 DEF HeldIsServed
  <2>8. OneWait' /\ WaitInv'
    BY <1>1, <1>6 DEF OneWait, WaitInv
  <2>9. ChildInv'
    BY <1>0, <1>1, <1>2, <1>3, <1>4, <2>3, CurrentMade DEF ChildInv
  <2>10. TurnInv'
    <3>1. ASSUME NEW u \in Turn
          PROVE  turn'[u].via <= made' /\ (turn'[u].at \in Stages => turn'[u].via # 0)
      BY <1>1, <1>2, <1>6, <2>1, TurnsOfMade
    <3>2. ASSUME NEW u \in Turn, turn'[u].at = "waiting"
          PROVE  u = t
      BY <3>2, <1>6, <2>1
    <3> QED
      BY <3>1, <3>2, <1>2, <1>4, <2>1, <2>3 DEF TurnInv, Stages
  <2> QED
    BY <2>4, <2>5, <2>6, <2>7, <2>8, <2>9, <2>10 DEF RelayInv, RelaySafe
<1>9. CASE /\ failure' = "launch" /\ relay' = [relay EXCEPT ![r] = d]
           /\ Direct({t}, "launch")
  <2> HIDE DEF d
  <2>0. "launch" \in Reason
    BY DEF Reason
  <2>1. /\ turn' \in Turns /\ warned' \in BOOLEAN /\ turn'[t].at = "direct"
        /\ turn'[t].via = turn[t].via /\ \A u \in Turn \ {t} : turn'[u] = turn[u]
    BY <1>9, <2>0, GoesDirect
  <2>2. /\ \A u \in Turn : turn'[u].via = turn[u].via
        /\ \A u \in Turn : turn'[u].at \in Stages => turn'[u] = turn[u]
        /\ \A u \in Turn : turn[u].at \in Stages => turn'[u] = turn[u]
    BY <1>1, <2>1 DEF Stages
  <2>3. \A q \in Relays : relay'[q] = IF q = r THEN d ELSE relay[q]
    BY <1>0, <1>9 DEF TypeOK
  <2>4. HoldsCounted'
    <3>1. \A q \in Relays : relay'[q].active = relay[q].active
      BY <1>3, <1>5, <2>3 DEF Unmade
    <3>2. \A q \in Relays : Holders(q)' = Holders(q)
      BY <2>2 DEF Holders, Stages
    <3> QED
      BY <3>1, <3>2, <1>0 DEF HoldsCounted, Holders
  <2>5. TypeOK'
    <3>1. relay' \in [Relays -> Relay]
      BY <1>0, <1>2, <1>5, <1>9, <2>4, CountBounded
    <3> QED
      BY <3>1, <1>0, <1>1, <1>2, <1>9, <2>0, <2>1 DEF TypeOK, Turns
  <2>6. NoOrphan'
    BY <1>5, <1>6, <2>3 DEF NoOrphan
  <2>7. HeldIsServed'
    <3>1. ASSUME NEW u \in Turn, turn'[u].at = "relayed"
          PROVE  relay'[turn'[u].via].port \/ relay'[turn'[u].via].child = "gone"
      <4>1. turn'[u] = turn[u] /\ turn[u].via # r /\ turn[u].via \in Relays
        BY <3>1, <1>6, <2>2, TurnsOfMade DEF Stages
      <4> QED
        BY <4>1, <3>1, <1>0, <2>3 DEF HeldIsServed
    <3> QED
      BY <3>1 DEF HeldIsServed
  <2>8. OneWait' /\ WaitInv'
    BY <1>1, <1>6 DEF OneWait, WaitInv
  <2>9. ChildInv'
    BY <1>0, <1>1, <1>2, <1>3, <1>5, <2>3, CurrentMade DEF ChildInv
  <2>10. TurnInv'
    <3>1. ASSUME NEW u \in Turn
          PROVE  turn'[u].via <= made' /\ (turn'[u].at \in Stages => turn'[u].via # 0)
      BY <1>1, <1>2, <1>6, <2>2, TurnsOfMade
    <3>2. \A u \in Turn : turn'[u].at # "waiting"
      BY <1>6, <2>2 DEF Stages
    <3> QED
      BY <3>1, <3>2 DEF TurnInv, Stages
  <2> QED
    BY <2>4, <2>5, <2>6, <2>7, <2>8, <2>9, <2>10 DEF RelayInv, RelaySafe
<1> QED
  BY <1>1, <1>8, <1>9 DEF RouteFirst

LEMMA RelayStep == RelayInv /\ [Next]_vars => RelayInv'
<1> SUFFICES ASSUME RelayInv, [Next]_vars PROVE RelayInv'
  OBVIOUS
<1>1. CASE UNCHANGED vars
  BY <1>1 DEF vars, RelayInv, TypeOK, RelaySafe, HoldsCounted, NoOrphan, HeldIsServed, OneWait,
              ChildInv, TurnInv, WaitInv
<1>2. CASE Next
  BY <1>2, OffKept, RouteKept, RouteFirstKept, TimeOutKept, DoneKept, PortKept, ExitKept,
     LaunchErrorKept, IdleKept DEF Next
<1> QED
  BY <1>1, <1>2

----------------------------------------------------------------------------
(* The streams.  What has been read and what is queued is what came, up to    *)
(* its first terminal event; until its end a stream is closed by that event   *)
(* only, and what comes after it is not delivered.                            *)
Terminated(c) == Pipe!FirstTerminal(c) # 0

LEMMA HasLeast ==
  ASSUME NEW I \in SUBSET Nat, I # {}
  PROVE  \E n \in I : \A m \in I : n <= m
<1> DEFINE R == OpToRel(<, Nat)
<1>1. R = {p \in Nat \X Nat : p[1] < p[2]}
  BY DEF OpToRel
<1>2. IsWellFoundedOn(R, Nat)
  BY NatLessThanWellFounded
<1> HIDE DEF R
<1>3. \E n \in I : \A m \in I : ~(<<m, n>> \in R)
  BY <1>2, WFMin
<1>4. \A m, n \in Nat : m < n => <<m, n>> \in R
  BY <1>1
<1>5. \E n \in I : \A m \in I : ~(m < n)
  BY <1>3, <1>4
<1> QED
  BY <1>5

LEMMA FirstOne ==
  ASSUME NEW c \in Seq(Pipe!Event)
  PROVE  LET k == Pipe!FirstTerminal(c)
         IN \/ k = 0 /\ \A i \in 1..Len(c) : ~Pipe!Is(c[i], Pipe!Terminal)
            \/ /\ k \in 1..Len(c) /\ Pipe!Is(c[k], Pipe!Terminal)
               /\ \A i \in 1..Len(c) : Pipe!Is(c[i], Pipe!Terminal) => k <= i
<1> DEFINE I == {i \in 1..Len(c) : Pipe!Is(c[i], Pipe!Terminal)}
<1>1. Pipe!FirstTerminal(c) = IF I # {} THEN Pipe!Min(I) ELSE 0
  BY DEF Pipe!FirstTerminal, Pipe!SelectInSeq
<1>2. CASE I = {}
  BY <1>1, <1>2
<1>3. CASE I # {}
  <2>1. I \in SUBSET Nat
    OBVIOUS
  <2>2. \E n \in I : \A m \in I : n <= m
    BY <2>1, <1>3, HasLeast
  <2>3. Pipe!Min(I) \in I /\ \A m \in I : Pipe!Min(I) <= m
    BY <2>2 DEF Pipe!Min
  <2> QED
    BY <1>1, <1>3, <2>3
<1> QED
  BY <1>2, <1>3

(* One more event changes what is due only if there was no terminal one.      *)
LEMMA OneMore ==
  ASSUME NEW c \in Seq(Pipe!Event), NEW e \in Pipe!Event
  PROVE  /\ Append(c, e) \in Seq(Pipe!Event)
         /\ Terminated(c) => /\ Terminated(Append(c, e))
                             /\ Pipe!UpToTerminal(Append(c, e)) = Pipe!UpToTerminal(c)
                             /\ Append(c, e)[Pipe!FirstTerminal(Append(c, e))] = c[Pipe!FirstTerminal(c)]
         /\ ~Terminated(c) => /\ Pipe!UpToTerminal(c) = c
                              /\ Pipe!UpToTerminal(Append(c, e)) = Append(c, e)
                              /\ Terminated(Append(c, e)) <=> Pipe!Is(e, Pipe!Terminal)
                              /\ Terminated(Append(c, e)) =>
                                   Append(c, e)[Pipe!FirstTerminal(Append(c, e))] = e
<1> DEFINE d == Append(c, e)
           k == Pipe!FirstTerminal(c)
           m == Pipe!FirstTerminal(d)
<1>1. /\ d \in Seq(Pipe!Event) /\ Len(d) = Len(c) + 1 /\ d[Len(c) + 1] = e
      /\ \A i \in 1..Len(c) : d[i] = c[i]
      /\ Len(c) \in Nat
  OBVIOUS
<1>2. \/ k = 0 /\ \A i \in 1..Len(c) : ~Pipe!Is(c[i], Pipe!Terminal)
      \/ /\ k \in 1..Len(c) /\ Pipe!Is(c[k], Pipe!Terminal)
         /\ \A i \in 1..Len(c) : Pipe!Is(c[i], Pipe!Terminal) => k <= i
  BY FirstOne
<1>3. \/ m = 0 /\ \A i \in 1..Len(d) : ~Pipe!Is(d[i], Pipe!Terminal)
      \/ /\ m \in 1..Len(d) /\ Pipe!Is(d[m], Pipe!Terminal)
         /\ \A i \in 1..Len(d) : Pipe!Is(d[i], Pipe!Terminal) => m <= i
  BY <1>1, FirstOne
<1>4. /\ Pipe!UpToTerminal(c) = IF k = 0 THEN c ELSE SubSeq(c, 1, k)
      /\ Pipe!UpToTerminal(d) = IF m = 0 THEN d ELSE SubSeq(d, 1, m)
  BY DEF Pipe!UpToTerminal
<1> HIDE DEF d, k, m
<1>5. CASE k # 0
  <2>1. m = k /\ m \in 1..Len(c)
    BY <1>1, <1>2, <1>3, <1>5
  <2>2. SubSeq(d, 1, k) = SubSeq(c, 1, k)
    BY <1>1, <2>1, SubSeqProperties DEF d
  <2> QED
    BY <1>1, <1>4, <1>5, <2>1, <2>2 DEF Terminated, d, k, m
<1>6. CASE k = 0
  <2>1. \A i \in 1..Len(c) : ~Pipe!Is(d[i], Pipe!Terminal)
    BY <1>1, <1>2, <1>6
  <2>2. m = IF Pipe!Is(e, Pipe!Terminal) THEN Len(d) ELSE 0
    BY <1>1, <1>3, <2>1
  <2>3. SubSeq(d, 1, Len(d)) = d
    BY <1>1, SubSeqFull
  <2> QED
    BY <1>1, <1>4, <1>6, <2>2, <2>3 DEF Terminated, d, k, m
<1> QED
  BY <1>5, <1>6

(* The state of one stream, and what holds of it in every phase of its body.  *)
Carried == [came : Seq(Pipe!Event), queue : Seq(Pipe!Event), closed : BOOLEAN,
            result : Pipe!Terminal \cup {"none", "final"},
            reader : {"busy", "waiting", "over"}, got : Seq(Pipe!Event)]
InOrder(x) ==
  /\ x \in Carried
  /\ x.got \o x.queue = Pipe!UpToTerminal(x.came)
  /\ x.reader # "busy" => x.queue = <<>>
  /\ x.reader = "over" => x.closed
  /\ x.closed <=> x.result # "none"
  /\ ~x.closed => ~Terminated(x.came)
  /\ Terminated(x.came) => x.result = x.came[Pipe!FirstTerminal(x.came)][1]

(* Until the body is over only a terminal event closes the stream.            *)
Forwarding(x) == x.closed => Terminated(x.came)
Blank == [came |-> <<>>, queue |-> <<>>, closed |-> FALSE, result |-> "none",
          reader |-> "busy", got |-> <<>>]

LEMMA EventKinds ==
  ASSUME NEW k \in {"start", "text", "done", "error"}, NEW n \in 0..MaxEvents
  PROVE  <<k, n>> \in Pipe!Event /\ (Pipe!Is(<<k, n>>, Pipe!Terminal) <=> k \in Pipe!Terminal)
BY DEF Pipe!Event, Pipe!Is, Pipe!Terminal

LEMMA AppendedLater ==
  ASSUME NEW S, NEW s \in Seq(S), NEW t \in Seq(S), NEW e \in S
  PROVE  s \o Append(t, e) = Append(s \o t, e)
<1>1. Append(t, e) = t \o <<e>>
  BY AppendIsConcat
<1>2. s \o t \in Seq(S) /\ <<e>> \in Seq(S)
  BY ConcatProperties
<1>3. Append(s \o t, e) = (s \o t) \o <<e>>
  BY <1>2, AppendIsConcat
<1>4. (s \o t) \o <<e>> = s \o (t \o <<e>>)
  BY <1>2, ConcatAssociative
<1> QED
  BY <1>1, <1>3, <1>4

LEMMA DeliveredInOrder ==
  ASSUME NEW x \in Carried, NEW e \in Pipe!Event, x.reader # "busy" => x.queue = <<>>,
         x.reader # "over"
  PROVE  LET y == Pipe!Delivered(x, e)
         IN /\ y \in Carried /\ y.got \o y.queue = Append(x.got \o x.queue, e)
            /\ y.reader = "busy"
            /\ y.came = x.came /\ y.closed = x.closed /\ y.result = x.result
<1> DEFINE y == Pipe!Delivered(x, e)
<1>0. x.got \in Seq(Pipe!Event) /\ x.queue \in Seq(Pipe!Event)
  BY DEF Carried
<1>a. Append(x.got, e) \in Seq(Pipe!Event) /\ Append(x.queue, e) \in Seq(Pipe!Event)
  BY <1>0, AppendProperties
<1>1. CASE x.reader = "waiting"
  <2>1. y = [x EXCEPT !.reader = "busy", !.got = Append(@, e)]
    BY <1>1 DEF Pipe!Delivered
  <2> HIDE DEF y
  <2>2. /\ y.reader = "busy" /\ y.got = Append(x.got, e) /\ y.queue = x.queue
        /\ y.came = x.came /\ y.closed = x.closed /\ y.result = x.result /\ y \in Carried
    BY <2>1, <1>a DEF Carried
  <2>3. x.queue = <<>>
    BY <1>1
  <2>4. Append(x.got, e) \o <<>> = Append(x.got \o <<>>, e)
    BY <1>0, ConcatEmptySeq
  <2> QED
    BY <2>2, <2>3, <2>4 DEF y
<1>2. CASE x.reader # "waiting"
  <2>1. y = [x EXCEPT !.queue = Append(@, e)]
    BY <1>2 DEF Pipe!Delivered
  <2> HIDE DEF y
  <2>2. /\ y.reader = x.reader /\ y.got = x.got /\ y.queue = Append(x.queue, e)
        /\ y.came = x.came /\ y.closed = x.closed /\ y.result = x.result /\ y \in Carried
    BY <2>1, <1>a DEF Carried
  <2>3. x.reader = "busy"
    BY <1>2 DEF Carried
  <2>4. x.got \o Append(x.queue, e) = Append(x.got \o x.queue, e)
    <3>1. \A s, t \in Seq(Pipe!Event) : s \o Append(t, e) = Append(s \o t, e)
      BY AppendedLater
    <3> QED
      BY <1>0, <3>1
  <2> QED
    BY <2>2, <2>3, <2>4 DEF y
<1> QED
  BY <1>1, <1>2

LEMMA PushedInOrder ==
  ASSUME NEW x, InOrder(x), Forwarding(x), NEW e \in Pipe!Event
  PROVE  InOrder(Pipe!Pushed(x, e)) /\ Forwarding(Pipe!Pushed(x, e))
<1>0. /\ x \in Carried /\ x.came \in Seq(Pipe!Event) /\ e[1] \in {"start", "text", "done", "error"}
  BY DEF InOrder, Carried, Pipe!Event
<1> DEFINE c == Append(x.came, e)
           y == [x EXCEPT !.came = c]
<1>1. /\ c \in Seq(Pipe!Event)
      /\ Terminated(x.came) => /\ Terminated(c)
                               /\ Pipe!UpToTerminal(c) = Pipe!UpToTerminal(x.came)
                               /\ c[Pipe!FirstTerminal(c)] = x.came[Pipe!FirstTerminal(x.came)]
      /\ ~Terminated(x.came) => /\ Pipe!UpToTerminal(x.came) = x.came
                                /\ Pipe!UpToTerminal(c) = c
                                /\ Terminated(c) <=> Pipe!Is(e, Pipe!Terminal)
                                /\ Terminated(c) => c[Pipe!FirstTerminal(c)] = e
  BY <1>0, OneMore
<1>2. /\ y \in Carried /\ y.came = c /\ y.got = x.got /\ y.queue = x.queue
      /\ y.closed = x.closed /\ y.result = x.result /\ y.reader = x.reader
  BY <1>0, <1>1 DEF Carried
<1>3. CASE x.closed
  <2>1. Pipe!Pushed(x, e) = y
    BY <1>3 DEF Pipe!Pushed
  <2> HIDE DEF y, c
  <2> QED
    BY <2>1, <1>1, <1>2, <1>3 DEF InOrder, Forwarding
<1>4. CASE ~x.closed /\ ~Pipe!Is(e, Pipe!Terminal)
  <2> DEFINE z == Pipe!Delivered(y, e)
  <2>1. Pipe!Pushed(x, e) = z
    BY <1>4 DEF Pipe!Pushed
  <2> HIDE DEF y, c
  <2>2. (y.reader # "busy" => y.queue = <<>>) /\ y.reader # "over"
    BY <1>2, <1>4 DEF InOrder
  <2>3. /\ z \in Carried /\ z.got \o z.queue = Append(y.got \o y.queue, e)
        /\ z.reader = "busy" /\ z.came = y.came /\ z.closed = y.closed /\ z.result = y.result
    BY <1>2, <2>2, DeliveredInOrder
  <2>4. ~Terminated(x.came) /\ ~Terminated(c)
    BY <1>1, <1>4 DEF InOrder
  <2>5. z.got \o z.queue = c
    BY <1>1, <1>2, <2>3, <2>4 DEF InOrder, c
  <2> HIDE DEF z
  <2> QED
    BY <1>1, <1>2, <1>4, <2>1, <2>3, <2>4, <2>5 DEF InOrder, Forwarding
<1>5. CASE ~x.closed /\ Pipe!Is(e, Pipe!Terminal)
  <2> DEFINE w == Pipe!Settled([y EXCEPT !.closed = TRUE], e[1])
             z == Pipe!Delivered(w, e)
  <2>1. Pipe!Pushed(x, e) = z
    BY <1>5 DEF Pipe!Pushed
  <2> HIDE DEF y, c
  <2>a. x.result = "none" /\ e[1] \in Pipe!Terminal
    BY <1>5 DEF InOrder, Pipe!Is
  <2>2. /\ w \in Carried /\ w.got = y.got /\ w.queue = y.queue /\ w.came = y.came
        /\ w.closed /\ w.result = e[1] /\ w.reader = y.reader
    BY <1>2, <2>a DEF Carried, Pipe!Settled
  <2>3. (y.reader # "busy" => y.queue = <<>>) /\ y.reader # "over"
    BY <1>2, <1>5 DEF InOrder
  <2> HIDE DEF w
  <2>4. /\ z \in Carried /\ z.got \o z.queue = Append(w.got \o w.queue, e)
        /\ z.reader = "busy" /\ z.came = w.came /\ z.closed = w.closed /\ z.result = w.result
    BY <2>2, <2>3, DeliveredInOrder
  <2>5. ~Terminated(x.came) /\ Terminated(c) /\ c[Pipe!FirstTerminal(c)] = e
    BY <1>1, <1>5 DEF InOrder
  <2>6. z.got \o z.queue = c
    BY <1>1, <1>2, <2>2, <2>4, <2>5 DEF InOrder, c
  <2>7. z.result # "none"
    BY <2>2, <2>4, <2>a DEF Pipe!Terminal
  <2> HIDE DEF z
  <2> QED
    BY <1>1, <1>2, <2>1, <2>2, <2>4, <2>5, <2>6, <2>7 DEF InOrder, Forwarding
<1> QED
  BY <1>3, <1>4, <1>5

(* The catch of a body, the end of a stream, and a read. *)
LEMMA FailedInOrder ==
  ASSUME NEW s, NEW x, InOrder(x), Forwarding(x)
  PROVE  InOrder(Pipe!Failed(s, x)) /\ Forwarding(Pipe!Failed(s, x))
<1>1. <<"error", 0>> \in Pipe!Event /\ <<"start", 0>> \in Pipe!Event
  BY OpencodeAssumption DEF Pipe!Event
<1>2. \A z, e : InOrder(z) /\ Forwarding(z) /\ e \in Pipe!Event
        => InOrder(Pipe!Pushed(z, e)) /\ Forwarding(Pipe!Pushed(z, e))
  BY PushedInOrder
<1> QED
  BY <1>1, <1>2 DEF Pipe!Failed

LEMMA EndedInOrder ==
  ASSUME NEW s, NEW x, InOrder(x), NEW r \in {"done", "error", "final"}
  PROVE  InOrder(Pipe!Ended(s, x, r))
<1>1. CASE x.closed /\ s \notin bridge
  BY <1>1 DEF Pipe!Ended
<1>2. CASE ~(x.closed /\ s \notin bridge)
  <2> DEFINE c == IF x.reader = "waiting" THEN "over" ELSE x.reader
             z == [x EXCEPT !.closed = TRUE, !.reader = c]
             y == Pipe!Settled(z, r)
  <2>1. Pipe!Ended(s, x, r) = y
    BY <1>2 DEF Pipe!Ended
  <2>2. x \in Carried
    BY DEF InOrder
  <2>3. /\ z \in Carried /\ z.came = x.came /\ z.got = x.got /\ z.queue = x.queue
        /\ z.closed /\ z.result = x.result /\ z.reader = c
    BY <2>2 DEF Carried
  <2> HIDE DEF z
  <2>4. /\ y \in Carried /\ y.came = x.came /\ y.got = x.got /\ y.queue = x.queue
        /\ y.closed /\ y.reader = c /\ y.result = IF x.result = "none" THEN r ELSE x.result
    BY <2>3 DEF Carried, Pipe!Settled, Pipe!Terminal
  <2> HIDE DEF y
  <2> QED
    BY <2>1, <2>4 DEF InOrder
<1> QED
  BY <1>1, <1>2

LEMMA HeadRead ==
  ASSUME NEW S, NEW s \in Seq(S), NEW t \in Seq(S), t # <<>>
  PROVE  /\ Append(s, Head(t)) \in Seq(S) /\ Tail(t) \in Seq(S)
         /\ Append(s, Head(t)) \o Tail(t) = s \o t
<1>1. Head(t) \in S /\ Tail(t) \in Seq(S) /\ t = <<Head(t)>> \o Tail(t)
  <2>1. /\ Head(t) \in S /\ Tail(t) \in Seq(S) /\ Len(Tail(t)) = Len(t) - 1
        /\ \A i \in 1..Len(Tail(t)) : Tail(t)[i] = t[i + 1]
    BY HeadTailProperties
  <2>2. Len(t) \in Nat /\ Len(t) # 0 /\ Head(t) = t[1]
    OBVIOUS
  <2>3. <<Head(t)>> \in Seq(S) /\ Len(<<Head(t)>>) = 1 /\ <<Head(t)>>[1] = Head(t)
    BY <2>1
  <2> DEFINE u == <<Head(t)>> \o Tail(t)
  <2>4. /\ u \in Seq(S) /\ Len(u) = 1 + Len(Tail(t))
        /\ \A i \in 1..(1 + Len(Tail(t))) :
             u[i] = IF i <= 1 THEN <<Head(t)>>[i] ELSE Tail(t)[i - 1]
    BY <2>1, <2>3, ConcatProperties
  <2>5. Len(u) = Len(t) /\ \A i \in 1..Len(t) : u[i] = t[i]
    <3>1. ASSUME NEW i \in 1..Len(t) PROVE u[i] = t[i]
      <4>1. CASE i = 1
        BY <2>1, <2>2, <2>3, <2>4, <4>1
      <4>2. CASE i # 1
        BY <2>1, <2>2, <2>4, <4>2
      <4> QED
        BY <4>1, <4>2
    <3> QED
      BY <2>1, <2>2, <2>4, <3>1
  <2> HIDE DEF u
  <2>6. u = t
    BY <2>4, <2>5, SeqEqual
  <2> QED
    BY <2>1, <2>6 DEF u
<1>2. Append(s, Head(t)) = s \o <<Head(t)>> /\ <<Head(t)>> \in Seq(S)
  BY <1>1, AppendIsConcat
<1>3. (s \o <<Head(t)>>) \o Tail(t) = s \o (<<Head(t)>> \o Tail(t))
  BY <1>1, <1>2, ConcatAssociative
<1>4. Append(s, Head(t)) \in Seq(S)
  BY <1>1, AppendProperties
<1> QED
  BY <1>1, <1>2, <1>3, <1>4

(* Before the end of its body a stream forwards; before the body has its      *)
(* module nothing has closed it; and the bridge never keeps a failed import.  *)
StreamInv(s) ==
  /\ InOrder(Pipe!State(s))
  /\ phase[s] # "over" => Forwarding(Pipe!State(s))
  /\ phase[s] \in {"new", "load"} => ~closed[s]
PipeInv ==
  /\ Pipe!TypeOK
  /\ came \in [Stream -> Seq(Pipe!Event)] /\ queue \in [Stream -> Seq(Pipe!Event)]
  /\ got \in [Stream -> Seq(Pipe!Event)]
  /\ module["bridge"] # "failed"
  /\ \A s \in Stream : StreamInv(s)

LEMMA BecomesKept ==
  ASSUME NEW new \in [Stream -> Carried],
         came' = [s \in Stream |-> new[s].came], queue' = [s \in Stream |-> new[s].queue],
         closed' = [s \in Stream |-> new[s].closed], got' = [s \in Stream |-> new[s].got],
         result' = [s \in Stream |-> new[s].result], reader' = [s \in Stream |-> new[s].reader]
  PROVE  /\ came' \in [Stream -> Seq(Pipe!Event)] /\ queue' \in [Stream -> Seq(Pipe!Event)]
         /\ got' \in [Stream -> Seq(Pipe!Event)]
         /\ closed' \in [Stream -> BOOLEAN]
         /\ result' \in [Stream -> Pipe!Terminal \cup {"none", "final"}]
         /\ reader' \in [Stream -> {"busy", "waiting", "over"}]
         /\ \A s \in Stream : Pipe!State(s)' = new[s] /\ closed'[s] = new[s].closed
<1>1. ASSUME NEW s \in Stream
      PROVE  /\ new[s].came \in Seq(Pipe!Event) /\ new[s].queue \in Seq(Pipe!Event)
             /\ new[s].got \in Seq(Pipe!Event) /\ new[s].closed \in BOOLEAN
             /\ new[s].result \in Pipe!Terminal \cup {"none", "final"}
             /\ new[s].reader \in {"busy", "waiting", "over"}
             /\ new[s] = [came |-> new[s].came, queue |-> new[s].queue, closed |-> new[s].closed,
                          result |-> new[s].result, reader |-> new[s].reader, got |-> new[s].got]
  <2>1. new[s] \in Carried
    OBVIOUS
  <2> QED
    BY <2>1 DEF Carried
<1>2. ASSUME NEW s \in Stream PROVE Pipe!State(s)' = new[s]
  BY <1>1 DEF Pipe!State
<1> QED
  BY <1>1, <1>2

(* A step in which the streams of S, and no other, change to what new says of *)
(* them, in order; their bodies have their module or are over.                *)
Changed(S, new) ==
  /\ new = [s \in Stream |-> IF s \in S THEN new[s] ELSE Pipe!State(s)]
  /\ \A s \in S : /\ InOrder(new[s])
                  /\ phase'[s] # "over" => Forwarding(new[s])
                  /\ phase'[s] \notin {"new", "load"}
  /\ \A s \in Stream \ S : \/ phase'[s] = phase[s]
                           \/ phase[s] = "new" /\ phase'[s] \in {"load", "pipe"}
                           \/ phase[s] = "load" /\ phase'[s] = "pipe"
  /\ came' = [s \in Stream |-> new[s].came] /\ queue' = [s \in Stream |-> new[s].queue]
  /\ closed' = [s \in Stream |-> new[s].closed] /\ got' = [s \in Stream |-> new[s].got]
  /\ result' = [s \in Stream |-> new[s].result] /\ reader' = [s \in Stream |-> new[s].reader]
  /\ module' \in [Pipe!Kinds -> {"none", "pending", "ok", "failed"}] /\ module'["bridge"] # "failed"
  /\ bridge' = bridge /\ faults' \in 0..MaxFaults
  /\ phase' \in [Stream -> {"new", "load", "pipe", "over"}]

LEMMA StreamsKept ==
  ASSUME PipeInv, NEW S \in SUBSET Stream, NEW new, Changed(S, new)
  PROVE  PipeInv'
<1>1. ASSUME NEW s \in Stream PROVE new[s] = IF s \in S THEN new[s] ELSE Pipe!State(s)
  BY DEF Changed
<1>2. ASSUME NEW s \in Stream PROVE new[s] \in Carried
  BY <1>1 DEF Changed, InOrder, PipeInv, StreamInv
<1>3. new \in [Stream -> Carried]
  BY <1>2 DEF Changed
<1>4. /\ came' \in [Stream -> Seq(Pipe!Event)] /\ queue' \in [Stream -> Seq(Pipe!Event)]
      /\ got' \in [Stream -> Seq(Pipe!Event)]
      /\ closed' \in [Stream -> BOOLEAN]
      /\ result' \in [Stream -> Pipe!Terminal \cup {"none", "final"}]
      /\ reader' \in [Stream -> {"busy", "waiting", "over"}]
      /\ \A s \in Stream : Pipe!State(s)' = new[s] /\ closed'[s] = new[s].closed
  BY <1>3, BecomesKept DEF Changed
<1>5. Pipe!TypeOK'
  BY <1>4 DEF Changed, Pipe!TypeOK, PipeInv
<1>6. ASSUME NEW s \in Stream PROVE StreamInv(s)'
  <2>1. Pipe!State(s)' = new[s] /\ closed'[s] = new[s].closed
    BY <1>4
  <2>2. CASE s \in S
    <3>1. InOrder(Pipe!State(s)') /\ (phase'[s] # "over" => Forwarding(Pipe!State(s)'))
      BY <2>1, <2>2 DEF Changed
    <3> QED
      BY <2>2, <3>1 DEF Changed, StreamInv, InOrder, Forwarding
  <2>3. CASE s \notin S
    <3>1. Pipe!State(s)' = Pipe!State(s) /\ closed'[s] = closed[s]
      BY <1>1, <2>1, <2>3 DEF Pipe!State
    <3>2. StreamInv(s)
      BY DEF PipeInv
    <3>3. InOrder(Pipe!State(s)') /\ (phase[s] # "over" => Forwarding(Pipe!State(s)'))
      BY <3>1, <3>2 DEF StreamInv
    <3> QED
      BY <2>3, <3>1, <3>2, <3>3 DEF Changed, StreamInv
  <2> QED
    BY <2>2, <2>3
<1> QED
  BY <1>4, <1>5, <1>6 DEF Changed, PipeInv

LEMMA OpenKept == ASSUME PipeInv, NEW s \in Stream, Pipe!Open(s) PROVE PipeInv'
<1> DEFINE m == module[Pipe!Kind(s)]
           S == IF m = "failed" THEN {s} ELSE {}
           new == [t \in Stream |-> IF t \in S THEN Pipe!Failed(t, Pipe!State(t)) ELSE Pipe!State(t)]
<1>1. /\ phase[s] = "new" /\ bridge' = bridge /\ faults' = faults
      /\ module' = [module EXCEPT ![Pipe!Kind(s)] = IF m = "none" THEN "pending" ELSE m]
      /\ phase' = [phase EXCEPT ![s] = CASE m = "ok" -> "pipe" [] m = "failed" -> "over"
                                         [] OTHER -> "load"]
      /\ Pipe!Becomes(S, Pipe!Failed)
  BY DEF Pipe!Open
<1>2. /\ came' = [t \in Stream |-> new[t].came] /\ queue' = [t \in Stream |-> new[t].queue]
      /\ closed' = [t \in Stream |-> new[t].closed] /\ got' = [t \in Stream |-> new[t].got]
      /\ result' = [t \in Stream |-> new[t].result] /\ reader' = [t \in Stream |-> new[t].reader]
  BY <1>1 DEF Pipe!Becomes
<1>3. /\ Pipe!Kind(s) \in Pipe!Kinds /\ module \in [Pipe!Kinds -> {"none", "pending", "ok", "failed"}]
      /\ phase \in [Stream -> {"new", "load", "pipe", "over"}] /\ faults \in 0..MaxFaults
      /\ module["bridge"] # "failed"
  BY DEF PipeInv, Pipe!TypeOK, Pipe!Kind, Pipe!Kinds
<1>4. /\ module' \in [Pipe!Kinds -> {"none", "pending", "ok", "failed"}]
      /\ phase' \in [Stream -> {"new", "load", "pipe", "over"}] /\ module'["bridge"] # "failed"
  BY <1>1, <1>3
<1>5. \A t \in S : phase'[t] = "over"
  BY <1>1, <1>3
<1>6. \A t \in Stream \ S : \/ phase'[t] = phase[t]
                            \/ phase[t] = "new" /\ phase'[t] \in {"load", "pipe"}
  BY <1>1, <1>3
<1>7. \A t \in S : InOrder(new[t])
  <2>1. ASSUME NEW t \in S PROVE InOrder(Pipe!Failed(t, Pipe!State(t)))
    <3>1. InOrder(Pipe!State(t)) /\ Forwarding(Pipe!State(t))
      BY <1>1 DEF PipeInv, StreamInv
    <3> QED
      BY <3>1, FailedInOrder
  <2> QED
    BY <2>1
<1>8. new = [t \in Stream |-> IF t \in S THEN new[t] ELSE Pipe!State(t)]
  OBVIOUS
<1>9. S \in SUBSET Stream
  OBVIOUS
<1> HIDE DEF S, new
<1>10. Changed(S, new)
  BY <1>1, <1>2, <1>3, <1>4, <1>5, <1>6, <1>7, <1>8 DEF Changed
<1> QED
  BY <1>9, <1>10, StreamsKept

LEMMA LoadFailsKept == ASSUME PipeInv, NEW k \in Pipe!Kinds, Pipe!LoadFails(k) PROVE PipeInv'
<1> DEFINE S == Pipe!Loading(k)
           new == [t \in Stream |-> IF t \in S THEN Pipe!Failed(t, Pipe!State(t)) ELSE Pipe!State(t)]
<1>1. /\ faults < MaxFaults /\ faults' = faults + 1 /\ bridge' = bridge
      /\ module' = [module EXCEPT ![k] = Pipe!AfterFault(k)]
      /\ phase' = [t \in Stream |-> IF t \in S THEN "over" ELSE phase[t]]
      /\ Pipe!Becomes(S, Pipe!Failed)
  BY DEF Pipe!LoadFails
<1>2. /\ came' = [t \in Stream |-> new[t].came] /\ queue' = [t \in Stream |-> new[t].queue]
      /\ closed' = [t \in Stream |-> new[t].closed] /\ got' = [t \in Stream |-> new[t].got]
      /\ result' = [t \in Stream |-> new[t].result] /\ reader' = [t \in Stream |-> new[t].reader]
  BY <1>1 DEF Pipe!Becomes
<1>3. /\ module \in [Pipe!Kinds -> {"none", "pending", "ok", "failed"}]
      /\ phase \in [Stream -> {"new", "load", "pipe", "over"}] /\ faults \in 0..MaxFaults
      /\ module["bridge"] # "failed"
  BY DEF PipeInv, Pipe!TypeOK
<1>4. /\ module' \in [Pipe!Kinds -> {"none", "pending", "ok", "failed"}]
      /\ phase' \in [Stream -> {"new", "load", "pipe", "over"}] /\ module'["bridge"] # "failed"
      /\ faults' \in 0..MaxFaults
  BY <1>1, <1>3, OpencodeAssumption DEF Pipe!AfterFault, Pipe!Kinds
<1>9. S \in SUBSET Stream /\ \A t \in S : phase[t] = "load"
  BY DEF Pipe!Loading
<1>5. \A t \in S : phase'[t] = "over"
  BY <1>1, <1>9
<1>6. \A t \in Stream \ S : phase'[t] = phase[t]
  BY <1>1
<1>7. \A t \in S : InOrder(new[t])
  <2>1. ASSUME NEW t \in S PROVE InOrder(Pipe!Failed(t, Pipe!State(t)))
    <3>1. InOrder(Pipe!State(t)) /\ Forwarding(Pipe!State(t))
      BY <1>9 DEF PipeInv, StreamInv
    <3> QED
      BY <3>1, FailedInOrder
  <2> QED
    BY <1>9, <2>1
<1>8. new = [t \in Stream |-> IF t \in S THEN new[t] ELSE Pipe!State(t)]
  OBVIOUS
<1> HIDE DEF S, new
<1>10. Changed(S, new)
  BY <1>1, <1>2, <1>4, <1>5, <1>6, <1>7, <1>8 DEF Changed
<1> QED
  BY <1>9, <1>10, StreamsKept

LEMMA LoadedKept == ASSUME PipeInv, NEW k \in Pipe!Kinds, Pipe!Loaded(k) PROVE PipeInv'
<1> DEFINE S == Pipe!Loading(k)
<1>1. /\ module' = [module EXCEPT ![k] = "ok"]
      /\ phase' = [t \in Stream |-> IF t \in S THEN "pipe" ELSE phase[t]]
      /\ UNCHANGED <<bridge, came, queue, closed, result, reader, got, faults>>
  BY DEF Pipe!Loaded
<1>2. \A t \in S : phase[t] = "load"
  BY DEF Pipe!Loading
<1> HIDE DEF S
<1>3. Pipe!TypeOK' /\ module'["bridge"] # "failed"
  BY <1>1 DEF PipeInv, Pipe!TypeOK, Pipe!Kinds
<1>4. ASSUME NEW t \in Stream PROVE StreamInv(t)'
  <2>1. /\ Pipe!State(t)' = Pipe!State(t) /\ closed'[t] = closed[t]
        /\ phase'[t] = IF t \in S THEN "pipe" ELSE phase[t]
    BY <1>1 DEF Pipe!State
  <2>2. StreamInv(t)
    BY DEF PipeInv
  <2>3. InOrder(Pipe!State(t)') /\ (phase[t] # "over" => Forwarding(Pipe!State(t)'))
    BY <2>1, <2>2 DEF StreamInv
  <2> QED
    BY <1>2, <2>1, <2>2, <2>3 DEF StreamInv
<1> QED
  BY <1>1, <1>3, <1>4 DEF PipeInv

LEMMA YieldsKept == ASSUME PipeInv, NEW s \in Stream, Pipe!Yields(s) PROVE PipeInv'
<1>0. PICK kind \in {"text", "done", "error"} :
         Pipe!Becomes({s}, LAMBDA t, x : Pipe!Pushed(x, <<kind, Len(x.came)>>))
  BY DEF Pipe!Yields
<1> DEFINE F(x) == Pipe!Pushed(x, <<kind, Len(x.came)>>)
           S == {s}
           new == [t \in Stream |-> IF t \in S THEN F(Pipe!State(t)) ELSE Pipe!State(t)]
<1>1. /\ phase[s] = "pipe" /\ Len(came[s]) < MaxEvents
      /\ bridge' = bridge /\ phase' = phase /\ module' = module /\ faults' = faults
  BY DEF Pipe!Yields
<1>2. /\ came' = [t \in Stream |-> new[t].came] /\ queue' = [t \in Stream |-> new[t].queue]
      /\ closed' = [t \in Stream |-> new[t].closed] /\ got' = [t \in Stream |-> new[t].got]
      /\ result' = [t \in Stream |-> new[t].result] /\ reader' = [t \in Stream |-> new[t].reader]
  BY <1>0 DEF Pipe!Becomes
<1>3. /\ module \in [Pipe!Kinds -> {"none", "pending", "ok", "failed"}]
      /\ phase \in [Stream -> {"new", "load", "pipe", "over"}] /\ faults \in 0..MaxFaults
      /\ module["bridge"] # "failed"
  BY DEF PipeInv, Pipe!TypeOK
<1>4. InOrder(Pipe!State(s)) /\ Forwarding(Pipe!State(s))
  BY <1>1 DEF PipeInv, StreamInv
<1>5. InOrder(F(Pipe!State(s))) /\ Forwarding(F(Pipe!State(s)))
  <2>1. Len(came[s]) \in 0..MaxEvents /\ Pipe!State(s).came = came[s]
    BY <1>1, OpencodeAssumption DEF PipeInv, Pipe!State
  <2>2. <<kind, Len(came[s])>> \in Pipe!Event
    BY <2>1, EventKinds
  <2> QED
    BY <1>4, <2>1, <2>2, PushedInOrder
<1>6. new = [t \in Stream |-> IF t \in S THEN new[t] ELSE Pipe!State(t)]
  OBVIOUS
<1>7. /\ S \in SUBSET Stream
      /\ \A t \in S : phase'[t] = "pipe"
      /\ \A t \in Stream \ S : phase'[t] = phase[t]
      /\ phase' \in [Stream -> {"new", "load", "pipe", "over"}]
  BY <1>1, <1>3
<1> DEFINE z == F(Pipe!State(s))
<1>8. InOrder(z) /\ (phase'[s] # "over" => Forwarding(z)) /\ \A t \in S : t = s /\ new[t] = z
  BY <1>1, <1>3, <1>5
<1> HIDE DEF S, new, F, z
<1>9. \A t \in S : /\ InOrder(new[t])
                   /\ phase'[t] # "over" => Forwarding(new[t])
                   /\ phase'[t] \notin {"new", "load"}
  BY <1>7, <1>8
<1>10. /\ module' \in [Pipe!Kinds -> {"none", "pending", "ok", "failed"}]
       /\ module'["bridge"] # "failed" /\ faults' \in 0..MaxFaults /\ bridge' = bridge
  BY <1>1, <1>3
<1>11. Changed(S, new)
  BY <1>2, <1>6, <1>7, <1>9, <1>10 DEF Changed
<1> QED
  BY <1>7, <1>11, StreamsKept

LEMMA InnerEndsKept == ASSUME PipeInv, NEW s \in Stream, Pipe!InnerEnds(s) PROVE PipeInv'
<1> DEFINE F(x) == Pipe!Ended(s, x, "final")
           S == {s}
           new == [t \in Stream |-> IF t \in S THEN F(Pipe!State(t)) ELSE Pipe!State(t)]
<1>1. /\ phase[s] = "pipe" /\ phase' = [phase EXCEPT ![s] = "over"]
      /\ bridge' = bridge /\ module' = module /\ faults' = faults
  BY DEF Pipe!InnerEnds
<1>0. Pipe!Becomes({s}, LAMBDA t, x : Pipe!Ended(t, x, "final"))
  BY DEF Pipe!InnerEnds
<1>2. /\ came' = [t \in Stream |-> new[t].came] /\ queue' = [t \in Stream |-> new[t].queue]
      /\ closed' = [t \in Stream |-> new[t].closed] /\ got' = [t \in Stream |-> new[t].got]
      /\ result' = [t \in Stream |-> new[t].result] /\ reader' = [t \in Stream |-> new[t].reader]
  BY <1>0 DEF Pipe!Becomes
<1>3. /\ module \in [Pipe!Kinds -> {"none", "pending", "ok", "failed"}]
      /\ phase \in [Stream -> {"new", "load", "pipe", "over"}] /\ faults \in 0..MaxFaults
      /\ module["bridge"] # "failed"
  BY DEF PipeInv, Pipe!TypeOK
<1>4. InOrder(Pipe!State(s)) /\ Forwarding(Pipe!State(s))
  BY <1>1 DEF PipeInv, StreamInv
<1>5. InOrder(F(Pipe!State(s)))
  BY <1>4, EndedInOrder
<1>6. new = [t \in Stream |-> IF t \in S THEN new[t] ELSE Pipe!State(t)]
  OBVIOUS
<1>7. /\ S \in SUBSET Stream
      /\ \A t \in S : phase'[t] = "over"
      /\ \A t \in Stream \ S : phase'[t] = phase[t]
      /\ phase' \in [Stream -> {"new", "load", "pipe", "over"}]
  BY <1>1, <1>3
<1> DEFINE z == F(Pipe!State(s))
<1>8. InOrder(z) /\ (phase'[s] # "over" => Forwarding(z)) /\ \A t \in S : t = s /\ new[t] = z
  BY <1>1, <1>3, <1>5
<1> HIDE DEF S, new, F, z
<1>9. \A t \in S : /\ InOrder(new[t])
                   /\ phase'[t] # "over" => Forwarding(new[t])
                   /\ phase'[t] \notin {"new", "load"}
  BY <1>7, <1>8
<1>10. /\ module' \in [Pipe!Kinds -> {"none", "pending", "ok", "failed"}]
       /\ module'["bridge"] # "failed" /\ faults' \in 0..MaxFaults /\ bridge' = bridge
  BY <1>1, <1>3
<1>11. Changed(S, new)
  BY <1>2, <1>6, <1>7, <1>9, <1>10 DEF Changed
<1> QED
  BY <1>7, <1>11, StreamsKept

LEMMA InnerThrowsKept == ASSUME PipeInv, NEW s \in Stream, Pipe!InnerThrows(s) PROVE PipeInv'
<1> DEFINE F(x) == IF s \notin bridge /\ x.result # "none"
                     THEN Pipe!Ended(s, x, x.result) ELSE Pipe!Failed(s, x)
           S == {s}
           new == [t \in Stream |-> IF t \in S THEN F(Pipe!State(t)) ELSE Pipe!State(t)]
<1>1. /\ phase[s] = "pipe" /\ phase' = [phase EXCEPT ![s] = "over"]
      /\ bridge' = bridge /\ module' = module /\ faults' = faults
  BY DEF Pipe!InnerThrows
<1>0. Pipe!Becomes({s}, LAMBDA t, x : IF t \notin bridge /\ x.result # "none"
                                      THEN Pipe!Ended(t, x, x.result) ELSE Pipe!Failed(t, x))
  BY DEF Pipe!InnerThrows
<1>2. /\ came' = [t \in Stream |-> new[t].came] /\ queue' = [t \in Stream |-> new[t].queue]
      /\ closed' = [t \in Stream |-> new[t].closed] /\ got' = [t \in Stream |-> new[t].got]
      /\ result' = [t \in Stream |-> new[t].result] /\ reader' = [t \in Stream |-> new[t].reader]
  BY <1>0 DEF Pipe!Becomes
<1>3. /\ module \in [Pipe!Kinds -> {"none", "pending", "ok", "failed"}]
      /\ phase \in [Stream -> {"new", "load", "pipe", "over"}] /\ faults \in 0..MaxFaults
      /\ module["bridge"] # "failed"
  BY DEF PipeInv, Pipe!TypeOK
<1>4. InOrder(Pipe!State(s)) /\ Forwarding(Pipe!State(s))
  BY <1>1 DEF PipeInv, StreamInv
<1>5. InOrder(F(Pipe!State(s)))
  <2> DEFINE x == Pipe!State(s)
  <2>1. x.result \in {"done", "error", "final", "none"}
    BY <1>4 DEF InOrder, Carried, Pipe!Terminal
  <2> HIDE DEF x
  <2>2. x.result # "none" => InOrder(Pipe!Ended(s, x, x.result))
    BY <1>4, <2>1, EndedInOrder DEF x
  <2>3. InOrder(Pipe!Failed(s, x))
    BY <1>4, FailedInOrder DEF x
  <2> QED
    BY <2>2, <2>3 DEF x
<1>6. new = [t \in Stream |-> IF t \in S THEN new[t] ELSE Pipe!State(t)]
  OBVIOUS
<1>7. /\ S \in SUBSET Stream
      /\ \A t \in S : phase'[t] = "over"
      /\ \A t \in Stream \ S : phase'[t] = phase[t]
      /\ phase' \in [Stream -> {"new", "load", "pipe", "over"}]
  BY <1>1, <1>3
<1> DEFINE z == F(Pipe!State(s))
<1>8. InOrder(z) /\ (phase'[s] # "over" => Forwarding(z)) /\ \A t \in S : t = s /\ new[t] = z
  BY <1>1, <1>3, <1>5
<1> HIDE DEF S, new, F, z
<1>9. \A t \in S : /\ InOrder(new[t])
                   /\ phase'[t] # "over" => Forwarding(new[t])
                   /\ phase'[t] \notin {"new", "load"}
  BY <1>7, <1>8
<1>10. /\ module' \in [Pipe!Kinds -> {"none", "pending", "ok", "failed"}]
       /\ module'["bridge"] # "failed" /\ faults' \in 0..MaxFaults /\ bridge' = bridge
  BY <1>1, <1>3
<1>11. Changed(S, new)
  BY <1>2, <1>6, <1>7, <1>9, <1>10 DEF Changed
<1> QED
  BY <1>7, <1>11, StreamsKept

LEMMA ReadKept == ASSUME PipeInv, NEW s \in Stream, Pipe!Read(s) PROVE PipeInv'
<1>1. /\ phase' = phase /\ came' = came /\ closed' = closed /\ result' = result
      /\ bridge' = bridge /\ module' = module /\ faults' = faults /\ reader[s] = "busy"
  BY DEF Pipe!Read
<1> DEFINE x == Pipe!State(s)
           y == Pipe!State(s)'
<1>2. /\ Pipe!TypeOK /\ StreamInv(s)
      /\ came \in [Stream -> Seq(Pipe!Event)] /\ queue \in [Stream -> Seq(Pipe!Event)]
      /\ got \in [Stream -> Seq(Pipe!Event)]
  BY DEF PipeInv
<1>3. /\ queue'[s] \in Seq(Pipe!Event) /\ got'[s] \in Seq(Pipe!Event)
      /\ got'[s] \o queue'[s] = got[s] \o queue[s]
      /\ queue' = [queue EXCEPT ![s] = queue'[s]] /\ got' = [got EXCEPT ![s] = got'[s]]
      /\ reader' = [reader EXCEPT ![s] = reader'[s]]
      /\ reader'[s] \in {"busy", "waiting", "over"}
      /\ reader'[s] # "busy" => queue'[s] = <<>>
      /\ reader'[s] = "over" => closed[s]
  <2>0. got[s] \in Seq(Pipe!Event) /\ queue[s] \in Seq(Pipe!Event)
    BY <1>2
  <2>1. CASE queue[s] # <<>>
    <3>1. /\ got' = [got EXCEPT ![s] = Append(@, Head(queue[s]))]
          /\ queue' = [queue EXCEPT ![s] = Tail(@)] /\ reader' = reader
      BY <2>1 DEF Pipe!Read
    <3>2. got'[s] = Append(got[s], Head(queue[s])) /\ queue'[s] = Tail(queue[s]) /\ reader'[s] = "busy"
      BY <1>1, <1>2, <3>1
    <3>3. \A a, b \in Seq(Pipe!Event) :
            b # <<>> => /\ Append(a, Head(b)) \in Seq(Pipe!Event) /\ Tail(b) \in Seq(Pipe!Event)
                        /\ Append(a, Head(b)) \o Tail(b) = a \o b
      BY HeadRead
    <3>4. reader' = [reader EXCEPT ![s] = reader'[s]]
      BY <1>2, <3>1 DEF Pipe!TypeOK
    <3> QED
      BY <2>0, <2>1, <3>1, <3>2, <3>3, <3>4
  <2>2. CASE queue[s] = <<>>
    <3>1. /\ reader' = [reader EXCEPT ![s] = IF closed[s] THEN "over" ELSE "waiting"]
          /\ got' = got /\ queue' = queue
      BY <2>2 DEF Pipe!Read
    <3> QED
      BY <1>2, <2>0, <2>2, <3>1 DEF Pipe!TypeOK
  <2> QED
    BY <2>1, <2>2
<1>4. /\ queue' \in [Stream -> Seq(Pipe!Event)] /\ got' \in [Stream -> Seq(Pipe!Event)]
      /\ reader' \in [Stream -> {"busy", "waiting", "over"}]
  BY <1>2, <1>3 DEF Pipe!TypeOK
<1>5. Pipe!TypeOK'
  BY <1>1, <1>2, <1>4 DEF Pipe!TypeOK
<1>6. ASSUME NEW t \in Stream PROVE StreamInv(t)'
  <2>0. StreamInv(t)
    BY DEF PipeInv
  <2>1. CASE t # s
    <3>1. Pipe!State(t)' = Pipe!State(t) /\ closed'[t] = closed[t] /\ phase'[t] = phase[t]
      BY <1>1, <1>2, <1>3, <2>1 DEF Pipe!State, Pipe!TypeOK
    <3>2. InOrder(Pipe!State(t)') /\ (phase[t] # "over" => Forwarding(Pipe!State(t)'))
      BY <2>0, <3>1 DEF StreamInv
    <3> QED
      BY <2>0, <3>1, <3>2 DEF StreamInv
  <2>2. CASE t = s
    <3>1. /\ y.came = x.came /\ y.closed = x.closed /\ y.result = x.result
          /\ y.queue = queue'[s] /\ y.got = got'[s] /\ y.reader = reader'[s]
          /\ x.queue = queue[s] /\ x.got = got[s] /\ x.closed = closed[s]
      BY <1>1 DEF Pipe!State
    <3>2. y \in Carried
      BY <1>1, <1>2, <1>3 DEF Pipe!State, Carried, Pipe!TypeOK
    <3> HIDE DEF x, y
    <3>3. InOrder(x) /\ (phase[s] # "over" => Forwarding(x))
      BY <1>2 DEF StreamInv, x
    <3>4. InOrder(y) /\ (phase[s] # "over" => Forwarding(y))
      BY <1>3, <3>1, <3>2, <3>3 DEF InOrder, Forwarding
    <3> QED
      BY <1>1, <2>0, <2>2, <3>4 DEF StreamInv, y
  <2> QED
    BY <2>1, <2>2
<1> QED
  BY <1>1, <1>2, <1>4, <1>5, <1>6 DEF PipeInv

LEMMA PipeStarts == Pipe!Init => PipeInv
<1> SUFFICES ASSUME Pipe!Init PROVE PipeInv
  OBVIOUS
<1>1. <<>> \in Seq(Pipe!Event) /\ Len(<<>>) = 0
  BY EmptySeq
<1>2. /\ came = [s \in Stream |-> <<>>] /\ queue = [s \in Stream |-> <<>>]
      /\ got = [s \in Stream |-> <<>>] /\ closed = [s \in Stream |-> FALSE]
      /\ result = [s \in Stream |-> "none"] /\ reader = [s \in Stream |-> "busy"]
  BY DEF Pipe!Init
<1>3. Pipe!TypeOK /\ module["bridge"] # "failed"
  BY <1>1, <1>2, OpencodeAssumption DEF Pipe!Init, Pipe!TypeOK, Pipe!Kinds
<1>4. ~Terminated(<<>>) /\ Pipe!UpToTerminal(<<>>) = <<>>
  <2>1. Pipe!FirstTerminal(<<>>) = 0
    <3> DEFINE c == <<>>
    <3>1. c \in Seq(Pipe!Event) /\ Len(c) = 0
      BY <1>1
    <3> HIDE DEF c
    <3>2. Pipe!FirstTerminal(c) = 0 \/ Pipe!FirstTerminal(c) \in 1..Len(c)
      BY <3>1, FirstOne
    <3>3. Pipe!FirstTerminal(c) = 0
      BY <3>1, <3>2
    <3> QED
      BY <3>3 DEF c
  <2> QED
    BY <2>1 DEF Terminated, Pipe!UpToTerminal
<1>5. <<>> \o <<>> = <<>>
  BY <1>1, ConcatEmptySeq
<1>6. ASSUME NEW s \in Stream PROVE StreamInv(s)
  <2>1. Pipe!State(s) = Blank
    BY <1>2 DEF Pipe!State, Blank
  <2>2. InOrder(Blank) /\ Forwarding(Blank)
    BY <1>1, <1>4, <1>5 DEF InOrder, Forwarding, Blank, Carried
  <2> QED
    BY <1>2, <2>1, <2>2 DEF StreamInv
<1> QED
  BY <1>1, <1>2, <1>3, <1>6 DEF PipeInv

LEMMA PipeStep == PipeInv /\ Pipe!Next => PipeInv'
BY OpenKept, YieldsKept, InnerEndsKept, InnerThrowsKept, ReadKept, LoadedKept, LoadFailsKept
   DEF Pipe!Next

LEMMA PipeStutters == PipeInv /\ UNCHANGED pipeVars => PipeInv'
<1> SUFFICES ASSUME PipeInv, UNCHANGED pipeVars PROVE PipeInv'
  OBVIOUS
<1>1. Pipe!TypeOK' /\ UNCHANGED <<came, queue, got, module, phase, closed>>
  BY DEF PipeInv, pipeVars, Pipe!TypeOK
<1>2. ASSUME NEW s \in Stream PROVE StreamInv(s)'
  <2>1. Pipe!State(s)' = Pipe!State(s) /\ phase'[s] = phase[s] /\ closed'[s] = closed[s]
    BY DEF pipeVars, Pipe!State
  <2>2. InOrder(Pipe!State(s)') /\ (phase[s] # "over" => Forwarding(Pipe!State(s)'))
    BY <2>1 DEF PipeInv, StreamInv
  <2> QED
    BY <2>1, <2>2 DEF PipeInv, StreamInv
<1> QED
  BY <1>1, <1>2 DEF PipeInv

(* A stream that is read to its end has got all that is due. *)
LEMMA AllRead == PipeInv => Pipe!TypeOK /\ Pipe!ReadsAll
<1> SUFFICES ASSUME PipeInv PROVE Pipe!TypeOK /\ Pipe!ReadsAll
  OBVIOUS
<1>1. ASSUME NEW s \in Stream
      PROVE  /\ got[s] \o queue[s] = Pipe!UpToTerminal(came[s])
             /\ reader[s] = "over" => queue[s] = <<>> /\ phase[s] # "load"
             /\ result[s] # "none" /\ Pipe!FirstTerminal(came[s]) > 0
                  => result[s] = came[s][Pipe!FirstTerminal(came[s])][1]
  <2> DEFINE x == Pipe!State(s)
  <2>1. /\ x.came = came[s] /\ x.queue = queue[s] /\ x.got = got[s]
        /\ x.closed = closed[s] /\ x.result = result[s] /\ x.reader = reader[s]
    BY DEF Pipe!State
  <2> HIDE DEF x
  <2>2. InOrder(x) /\ (phase[s] \in {"new", "load"} => ~closed[s])
    BY DEF PipeInv, StreamInv, x
  <2> QED
    BY <2>1, <2>2 DEF InOrder, Terminated
<1> QED
  BY <1>1 DEF PipeInv, Pipe!ReadsAll

(* The bridge's module is never left as failed, so that a bridged stream goes *)
(* over before it has its module only as an import fails.                     *)
LEMMA FreshStep ==
  ASSUME PipeInv, Pipe!Next, NEW s \in bridge, phase[s] \in {"new", "load"}, phase'[s] = "over"
  PROVE  faults' > faults
<1>0. s \in Stream /\ Pipe!Kind(s) = "bridge" /\ module["bridge"] # "failed"
  BY DEF PipeInv, Pipe!TypeOK, Pipe!Kind
<1>1. phase \in [Stream -> {"new", "load", "pipe", "over"}] /\ faults \in 0..MaxFaults
  BY DEF PipeInv, Pipe!TypeOK
<1>2. ASSUME NEW t \in Stream, Pipe!Open(t) PROVE FALSE
  <2> DEFINE m == module[Pipe!Kind(t)]
             p == CASE m = "ok" -> "pipe" [] m = "failed" -> "over" [] OTHER -> "load"
  <2>1. phase' = [phase EXCEPT ![t] = p]
    BY <1>2 DEF Pipe!Open
  <2>2. CASE t = s
    <3>1. p # "over"
      BY <1>0, <2>2
    <3> QED
      BY <1>0, <1>1, <2>1, <2>2, <3>1
  <2>3. CASE t # s
    BY <1>0, <1>1, <2>1, <2>3
  <2> QED
    BY <2>2, <2>3
<1>3. ASSUME NEW t \in Stream, Pipe!Yields(t) \/ Pipe!Read(t) PROVE FALSE
  BY <1>3 DEF Pipe!Yields, Pipe!Read
<1>4. ASSUME NEW t \in Stream, Pipe!InnerEnds(t) \/ Pipe!InnerThrows(t) PROVE FALSE
  <2>1. phase[t] = "pipe" /\ phase' = [phase EXCEPT ![t] = "over"]
    BY <1>4 DEF Pipe!InnerEnds, Pipe!InnerThrows
  <2> QED
    BY <1>0, <1>1, <2>1
<1>5. ASSUME NEW k \in Pipe!Kinds, Pipe!Loaded(k) PROVE FALSE
  <2>1. phase'[s] \in {"pipe", phase[s]}
    BY <1>0, <1>5 DEF Pipe!Loaded
  <2> QED
    BY <2>1
<1>6. ASSUME NEW k \in Pipe!Kinds, Pipe!LoadFails(k) PROVE faults' > faults
  BY <1>1, <1>6, OpencodeAssumption DEF Pipe!LoadFails
<1> QED
  BY <1>2, <1>3, <1>4, <1>5, <1>6 DEF Pipe!Next

----------------------------------------------------------------------------
(* The loader.  A copy that is found serves every entry that it defines, and  *)
(* a root that was kept goes on serving its entry, for only good copies come  *)
(* to replace others; so a load that ends without a copy on disk ended so     *)
(* because no probe finds one.                                                *)
Failure == [entry : Entry, code : {"not found", "not exported"}, recovered : Loader!Outcome]
LoaderInv ==
  /\ Loader!TypeOK /\ Loader!NeverShadowed /\ Loader!ReportedOnce
  /\ copy \in [Loader!Probes -> Loader!Found]
  /\ events \in Seq(Failure)
  /\ \A e \in Entry : roots[e] # Loader!NoRoot => Loader!Candidate(copy[roots[e]], e)

LEMMA ProbesAre ==
  /\ DOMAIN Loader!Probe = 1..5 /\ \A i \in 1..5 : Loader!Probe[i] \in Loader!Probes
  /\ \A p \in Loader!Probes : p # Loader!NoRoot /\ \E i \in 1..5 : p = Loader!Probe[i]
  /\ "walk-up" \in Loader!Probes
<1>1. DOMAIN Loader!Probe = 1..5
  BY DEF Loader!Probe
<1>2. Loader!Probes = {Loader!Probe[i] : i \in 1..5}
  BY <1>1 DEF Loader!Probes, Loader!Range
<1>3. Loader!Probe[1] = "walk-up" /\ \A i \in 1..5 : Loader!Probe[i] # "none"
  BY DEF Loader!Probe
<1> QED
  BY <1>1, <1>2, <1>3 DEF Loader!NoRoot

LEMMA LeastProbe ==
  ASSUME NEW I \in SUBSET (1..5), I # {}
  PROVE  Loader!Min(I) \in I
<1>1. \E n \in I : \A m \in I : n <= m
  <2>1. I \in SUBSET Nat
    OBVIOUS
  <2> QED
    BY <2>1, HasLeast
<1> QED
  BY <1>1 DEF Loader!Min

(* The copies that a probe can find. *)
LEMMA CopiesAre ==
  /\ \A E \in SUBSET Entry : /\ Loader!Serving(E) \in Loader!Copy
                             /\ Loader!Serving(E).exports = E /\ Loader!Serving(E).target = E
                             /\ Loader!Serving(E).dist = E
  /\ Loader!Old \in Loader!Copy /\ ~Loader!Old.recent
  /\ Loader!Foreign \in Loader!Copy /\ ~Loader!Foreign.named
  /\ Loader!Absent \in Loader!Copy /\ ~Loader!Absent.named
<1>1. \A E \in SUBSET Entry : /\ Loader!Serving(E) \in Loader!Copy
                             /\ Loader!Serving(E).exports = E /\ Loader!Serving(E).target = E
                             /\ Loader!Serving(E).dist = E
  BY DEF Loader!Serving, Loader!Copy
<1> DEFINE z == Loader!Serving({})
<1>2. z \in Loader!Copy
  BY <1>1
<1> HIDE DEF z
<1>3. [z EXCEPT !.recent = FALSE] \in Loader!Copy /\ ~[z EXCEPT !.recent = FALSE].recent
  BY <1>2 DEF Loader!Copy
<1> DEFINE f == [z EXCEPT !.named = FALSE, !.map = FALSE]
<1>4. f \in Loader!Copy /\ ~f.named
  BY <1>2 DEF Loader!Copy
<1> HIDE DEF f
<1>5. [f EXCEPT !.here = FALSE] \in Loader!Copy /\ ~[f EXCEPT !.here = FALSE].named
  BY <1>4 DEF Loader!Copy
<1>6. /\ Loader!Old = [z EXCEPT !.recent = FALSE] /\ Loader!Foreign = f
      /\ Loader!Absent = [f EXCEPT !.here = FALSE]
  BY DEF Loader!Old, Loader!Foreign, Loader!Absent, z, f
<1> QED
  BY <1>1, <1>3, <1>4, <1>5, <1>6

LEMMA CopiesServe ==
  ASSUME NEW c \in Loader!Found, NEW e \in Entry, Loader!Candidate(c, e)
  PROVE  Loader!EntryFile(c, e)
<1>1. CASE c \in {Loader!Absent, Loader!Foreign, Loader!Old}
  BY <1>1, CopiesAre DEF Loader!Candidate
<1>2. CASE c \in {Loader!Serving(Entry \ {"compat"}), Loader!Serving(Entry)}
  <2>1. c.exports = c.target
    BY <1>2, CopiesAre
  <2> QED
    BY <2>1 DEF Loader!Candidate, Loader!EntryFile, Loader!DefinesEntry
<1> QED
  BY <1>1, <1>2 DEF Loader!Found, Loader!Stale, Loader!Good

LEMMA FoundAreCopies == Loader!Found \subseteq Loader!Copy /\ Loader!Good \in Loader!Found
<1>1. Entry \in SUBSET Entry /\ Entry \ {"compat"} \in SUBSET Entry
  OBVIOUS
<1> QED
  BY <1>1, CopiesAre DEF Loader!Found, Loader!Stale, Loader!Good

LEMMA GoodServes ==
  ASSUME NEW e \in Entry
  PROVE  Loader!Candidate(Loader!Good, e)
BY DEF Loader!Candidate, Loader!DefinesEntry, Loader!Good, Loader!Serving

(* The root that a search comes to is the place of a copy that serves.        *)
LEMMA RootServes ==
  ASSUME NEW e \in Entry
  PROVE  LET r == Loader!PackageRoot(e)
         IN \/ r = Loader!NoRoot /\ \A p \in Loader!Probes : ~Loader!Candidate(copy[p], e)
            \/ r \in Loader!Probes /\ Loader!Candidate(copy[r], e)
<1> DEFINE hits == {i \in DOMAIN Loader!Probe : Loader!Candidate(copy[Loader!Probe[i]], e)}
<1>1. Loader!PackageRoot(e) = IF hits = {} THEN Loader!NoRoot ELSE Loader!Probe[Loader!Min(hits)]
  BY DEF Loader!PackageRoot
<1>2. CASE hits = {}
  BY <1>1, <1>2, ProbesAre
<1>3. CASE hits # {}
  <2>1. Loader!Min(hits) \in hits
    BY <1>3, ProbesAre, LeastProbe
  <2> QED
    BY <1>1, <1>3, <2>1, ProbesAre
<1> QED
  BY <1>2, <1>3

(* A failure joins the ring once, and the oldest one leaves it.               *)
LEMMA RecordedOnce ==
  ASSUME events \in Seq(Failure), Loader!IsInjective(events), Len(events) <= Loader!EventCap,
         NEW x \in Failure
  PROVE  LET q == Loader!Recorded(x)
         IN q \in Seq(Failure) /\ Loader!IsInjective(q) /\ Len(q) <= Loader!EventCap
<1> DEFINE d == Append(events, x)
<1>1. CASE Loader!Contains(events, x)
  BY <1>1 DEF Loader!Recorded
<1>2. CASE ~Loader!Contains(events, x)
  <2>1. /\ d \in Seq(Failure) /\ Len(d) = Len(events) + 1 /\ d[Len(events) + 1] = x
        /\ \A i \in 1..Len(events) : d[i] = events[i]
        /\ Len(events) \in Nat /\ d # <<>>
    OBVIOUS
  <2>2. \A i \in 1..Len(events) : events[i] # x
    BY <1>2 DEF Loader!Contains
  <2>3. DOMAIN events = 1..Len(events) /\ DOMAIN d = 1..Len(d)
    BY <2>1
  <2> HIDE DEF d
  <2>4. \A a, b \in 1..Len(events) : events[a] = events[b] => a = b
    BY <2>3 DEF Loader!IsInjective
  <2>5. \A a, b \in 1..Len(d) : d[a] = d[b] => a = b
    BY <2>1, <2>2, <2>4
  <2>6. CASE Len(d) > Loader!EventCap
    <3> DEFINE t == Tail(d)
    <3>1. /\ t \in Seq(Failure) /\ Len(t) = Len(d) - 1
          /\ \A i \in 1..Len(t) : t[i] = d[i + 1]
      BY <2>1, HeadTailProperties
    <3>2. DOMAIN t = 1..Len(t) /\ Len(t) \in Nat
      BY <3>1
    <3> HIDE DEF t
    <3>3. \A a, b \in 1..Len(t) : t[a] = t[b] => a = b
      <4> SUFFICES ASSUME NEW a \in 1..Len(t), NEW b \in 1..Len(t), t[a] = t[b] PROVE a = b
        OBVIOUS
      <4>1. a + 1 \in 1..Len(d) /\ b + 1 \in 1..Len(d) /\ d[a + 1] = d[b + 1]
        BY <2>1, <3>1, <3>2
      <4>2. a + 1 = b + 1
        BY <2>5, <4>1
      <4> QED
        BY <4>2, <3>2
    <3>4. Loader!Recorded(x) = t
      BY <1>2, <2>6 DEF Loader!Recorded, d, t
    <3>5. Len(t) <= Loader!EventCap
      BY <2>1, <3>1
    <3> QED
      BY <3>1, <3>2, <3>3, <3>4, <3>5 DEF Loader!IsInjective
  <2>7. CASE ~(Len(d) > Loader!EventCap)
    <3>1. Loader!Recorded(x) = d
      BY <1>2, <2>7 DEF Loader!Recorded, d
    <3> QED
      BY <2>1, <2>3, <2>5, <2>7, <3>1 DEF Loader!IsInjective, Loader!EventCap
  <2> QED
    BY <2>6, <2>7
<1> QED
  BY <1>1, <1>2

LEMMA LoaderStarts == Loader!Init => LoaderInv
<1> SUFFICES ASSUME Loader!Init PROVE LoaderInv
  OBVIOUS
<1>1. /\ copy \in [Loader!Probes -> Loader!Found] /\ copy \in [Loader!Probes -> Loader!Copy]
      /\ vendored \in BOOLEAN /\ roots = [e \in Entry |-> Loader!NoRoot] /\ events = <<>>
      /\ last = [entry |-> "compat", outcome |-> "fast path"]
  BY FoundAreCopies DEF Loader!Init
<1>2. events \in Seq(Failure) /\ Len(events) = 0 /\ DOMAIN events = {}
  <2>1. <<>> \in Seq(Failure) /\ Len(<<>>) = 0
    BY EmptySeq
  <2>2. DOMAIN <<>> = {}
    OBVIOUS
  <2> QED
    BY <1>1, <2>1, <2>2
<1>3. Loader!TypeOK
  <2>1. last \in [entry : Entry, outcome : Loader!Outcome]
    BY <1>1, OpencodeAssumption DEF Loader!Outcome
  <2>2. roots \in [Entry -> Loader!Probes \cup {Loader!NoRoot}]
    BY <1>1
  <2>3. Len(events) <= Loader!EventCap
    BY <1>2 DEF Loader!EventCap
  <2>4. copy \in [Loader!Probes -> Loader!Copy] /\ vendored \in BOOLEAN
    BY <1>1
  <2> QED
    BY <2>1, <2>2, <2>3, <2>4 DEF Loader!TypeOK
<1>4. Loader!NeverShadowed /\ Loader!ReportedOnce
  BY <1>1, <1>2 DEF Loader!NeverShadowed, Loader!ReportedOnce, Loader!IsInjective
<1> QED
  BY <1>1, <1>2, <1>3, <1>4 DEF LoaderInv

LEMMA LoadKept == ASSUME LoaderInv, NEW e \in Entry, Loader!Load(e) PROVE LoaderInv'
<1>1. copy' = copy /\ vendored' = vendored
  BY DEF Loader!Load
<1>2. /\ Loader!TypeOK /\ Loader!ReportedOnce
      /\ copy \in [Loader!Probes -> Loader!Found] /\ events \in Seq(Failure)
      /\ \A f \in Entry : roots[f] # Loader!NoRoot => Loader!Candidate(copy[roots[f]], f)
  BY DEF LoaderInv
<1>3. CASE ~Loader!FallsBack(Loader!Import(e))
  <2> DEFINE o == IF Loader!Import(e) = "imported" THEN "fast path" ELSE "rethrown"
  <2>1. last' = [entry |-> e, outcome |-> o] /\ roots' = roots /\ events' = events
    BY <1>3 DEF Loader!Load
  <2>2. o \in {"fast path", "rethrown"}
    OBVIOUS
  <2> HIDE DEF o
  <2>3. Loader!TypeOK'
    BY <1>1, <1>2, <2>1, <2>2 DEF Loader!TypeOK, Loader!Outcome
  <2>4. Loader!NeverShadowed'
    BY <2>1, <2>2 DEF Loader!NeverShadowed
  <2>5. Loader!ReportedOnce'
    BY <1>2, <2>1 DEF Loader!ReportedOnce
  <2> QED
    BY <1>1, <1>2, <2>1, <2>3, <2>4, <2>5 DEF LoaderInv
<1>4. CASE Loader!FallsBack(Loader!Import(e))
  <2> DEFINE root == IF roots[e] = Loader!NoRoot THEN Loader!PackageRoot(e) ELSE roots[e]
             outcome == IF root # Loader!NoRoot /\ Loader!EntryFile(copy[root], e) THEN "on-disk"
                        ELSE IF vendored THEN "vendored" ELSE "none"
             x == [entry |-> e, code |-> Loader!Import(e), recovered |-> outcome]
  <2>1. /\ roots' = [roots EXCEPT ![e] = root] /\ last' = [entry |-> e, outcome |-> outcome]
        /\ events' = Loader!Recorded(x)
    BY <1>4 DEF Loader!Load
  <2>2. /\ roots[e] \in Loader!Probes \cup {Loader!NoRoot}
        /\ \A f \in Entry : roots[f] \in Loader!Probes \cup {Loader!NoRoot}
    BY <1>2 DEF Loader!TypeOK
  <2>3. \/ Loader!PackageRoot(e) = Loader!NoRoot
           /\ \A p \in Loader!Probes : ~Loader!Candidate(copy[p], e)
        \/ /\ Loader!PackageRoot(e) \in Loader!Probes
           /\ Loader!Candidate(copy[Loader!PackageRoot(e)], e)
    BY RootServes
  <2>4. \A p \in Loader!Probes : Loader!Candidate(copy[p], e) => Loader!EntryFile(copy[p], e)
    BY <1>2, CopiesServe
  <2>5. /\ root \in Loader!Probes \cup {Loader!NoRoot}
        /\ root # Loader!NoRoot => root \in Loader!Probes /\ Loader!Candidate(copy[root], e)
        /\ root = Loader!NoRoot => \A p \in Loader!Probes : ~Loader!Candidate(copy[p], e)
        /\ root = Loader!NoRoot <=> Loader!PackageRoot(e) = Loader!NoRoot
    BY <1>2, <2>2, <2>3, ProbesAre
  <2> HIDE DEF root
  <2>6. /\ outcome \in {"on-disk", "vendored", "none"}
        /\ outcome = "on-disk" <=> root # Loader!NoRoot
        /\ root = Loader!NoRoot => outcome = IF vendored THEN "vendored" ELSE "none"
    BY <2>4, <2>5
  <2>7. outcome = Loader!DoctorSource(e)
    BY <2>3, <2>4, <2>5, <2>6 DEF Loader!DoctorSource
  <2> HIDE DEF outcome
  <2>8. x \in Failure
    <3>1. Loader!Import(e) \in {"not found", "not exported"}
      BY <1>4 DEF Loader!FallsBack
    <3> QED
      BY <2>6, <3>1 DEF Failure, Loader!Outcome
  <2>9. /\ events' \in Seq(Failure) /\ Loader!IsInjective(events') /\ Len(events') <= Loader!EventCap
    <3> HIDE DEF x
    <3>1. Loader!IsInjective(events) /\ Len(events) <= Loader!EventCap
      BY <1>2 DEF Loader!ReportedOnce, Loader!TypeOK
    <3>2. LET q == Loader!Recorded(x)
          IN q \in Seq(Failure) /\ Loader!IsInjective(q) /\ Len(q) <= Loader!EventCap
      BY <1>2, <2>8, <3>1, RecordedOnce
    <3> QED
      BY <2>1, <3>2
  <2>10. /\ last' \in [entry : Entry, outcome : Loader!Outcome]
         /\ last'.entry = e /\ last'.outcome = outcome
    BY <2>1, <2>6 DEF Loader!Outcome
  <2>11. /\ roots' \in [Entry -> Loader!Probes \cup {Loader!NoRoot}]
         /\ \A f \in Entry : roots'[f] # Loader!NoRoot => Loader!Candidate(copy[roots'[f]], f)
    BY <1>2, <2>1, <2>5 DEF Loader!TypeOK
  <2>12. Loader!TypeOK'
    BY <1>1, <1>2, <2>9, <2>10, <2>11 DEF Loader!TypeOK
  <2>13. Loader!NeverShadowed'
    <3>1. Loader!DoctorSource(e)' = Loader!DoctorSource(e)
      BY <1>1 DEF Loader!DoctorSource, Loader!PackageRoot
    <3>2. outcome \in {"vendored", "none"} =>
            \A p \in Loader!Probes : ~Loader!Candidate(copy[p], e)
      BY <2>5, <2>6
    <3>3. last'.outcome \in {"vendored", "none"} =>
            \A p \in Loader!Probes : ~(/\ Loader!Candidate(copy'[p], last'.entry)
                                       /\ Loader!EntryFile(copy'[p], last'.entry))
      BY <1>1, <2>10, <3>2
    <3>4. last'.outcome = Loader!DoctorSource(last.entry)'
      BY <1>1, <2>7, <2>10 DEF Loader!DoctorSource, Loader!PackageRoot
    <3> QED
      BY <3>3, <3>4 DEF Loader!NeverShadowed
  <2>14. Loader!ReportedOnce'
    BY <2>9 DEF Loader!ReportedOnce
  <2> QED
    BY <1>1, <1>2, <2>9, <2>11, <2>12, <2>13, <2>14 DEF LoaderInv
<1> QED
  BY <1>3, <1>4

LEMMA InstallKept == ASSUME LoaderInv, NEW p \in Loader!Probes, Loader!Install(p) PROVE LoaderInv'
<1>1. /\ copy' = [copy EXCEPT ![p] = Loader!Good] /\ last' = [last EXCEPT !.outcome = "fast path"]
      /\ vendored' = vendored /\ roots' = roots /\ events' = events
  BY DEF Loader!Install
<1>2. /\ Loader!TypeOK /\ Loader!ReportedOnce
      /\ copy \in [Loader!Probes -> Loader!Found] /\ events \in Seq(Failure)
      /\ \A e \in Entry : roots[e] # Loader!NoRoot => Loader!Candidate(copy[roots[e]], e)
  BY DEF LoaderInv
<1>3. copy' \in [Loader!Probes -> Loader!Found] /\ copy' \in [Loader!Probes -> Loader!Copy]
  BY <1>1, <1>2, FoundAreCopies
<1>4. last' \in [entry : Entry, outcome : Loader!Outcome] /\ last'.outcome = "fast path"
  BY <1>1, <1>2 DEF Loader!TypeOK, Loader!Outcome
<1>5. Loader!TypeOK'
  BY <1>1, <1>2, <1>3, <1>4 DEF Loader!TypeOK
<1>6. Loader!NeverShadowed'
  BY <1>4 DEF Loader!NeverShadowed
<1>7. Loader!ReportedOnce'
  BY <1>1, <1>2 DEF Loader!ReportedOnce
<1>8. \A e \in Entry : roots'[e] # Loader!NoRoot => Loader!Candidate(copy'[roots'[e]], e)
  <2>1. \A e \in Entry : roots[e] \in Loader!Probes \cup {Loader!NoRoot}
    BY <1>2 DEF Loader!TypeOK
  <2>2. \A q \in Loader!Probes : copy'[q] = IF q = p THEN Loader!Good ELSE copy[q]
    BY <1>1, <1>2
  <2> QED
    BY <1>1, <1>2, <2>1, <2>2, GoodServes
<1> QED
  BY <1>1, <1>2, <1>3, <1>5, <1>6, <1>7, <1>8 DEF LoaderInv

LEMMA LoaderStutters == LoaderInv /\ UNCHANGED loaderVars => LoaderInv'
<1> SUFFICES ASSUME LoaderInv, UNCHANGED loaderVars PROVE LoaderInv'
  OBVIOUS
<1>1. /\ copy' = copy /\ vendored' = vendored /\ roots' = roots /\ events' = events /\ last' = last
  BY DEF loaderVars
<1>2. Loader!TypeOK' /\ Loader!ReportedOnce'
  BY <1>1 DEF LoaderInv, Loader!TypeOK, Loader!ReportedOnce
<1>3. Loader!DoctorSource(last.entry)' = Loader!DoctorSource(last.entry)
  BY <1>1 DEF Loader!DoctorSource, Loader!PackageRoot
<1>4. Loader!NeverShadowed'
  BY <1>1, <1>3 DEF LoaderInv, Loader!NeverShadowed
<1> QED
  BY <1>1, <1>2, <1>4 DEF LoaderInv

----------------------------------------------------------------------------
(* In a step of one part the other two stutter. *)
OpencodeInv == RelayInv /\ PipeInv /\ LoaderInv

LEMMA OpencodeStep == OpencodeInv /\ [MCNext]_allVars => OpencodeInv'
<1> SUFFICES ASSUME OpencodeInv, [MCNext]_allVars PROVE OpencodeInv'
  OBVIOUS
<1>0. RelayInv /\ PipeInv /\ LoaderInv
  BY DEF OpencodeInv
<1>1. \/ Next /\ UNCHANGED <<pipeVars, loaderVars>>
      \/ Pipe!Next /\ UNCHANGED <<vars, loaderVars>>
      \/ Loader!Next /\ UNCHANGED <<vars, pipeVars>>
      \/ UNCHANGED <<vars, pipeVars, loaderVars>>
  BY DEF MCNext, allVars
<1>2. Next \/ UNCHANGED vars => RelayInv'
  BY <1>0, RelayStep
<1>3. Pipe!Next \/ UNCHANGED pipeVars => PipeInv'
  BY <1>0, PipeStep, PipeStutters
<1>4. Loader!Next \/ UNCHANGED loaderVars => LoaderInv'
  BY <1>0, LoadKept, InstallKept, LoaderStutters DEF Loader!Next
<1> QED
  BY <1>1, <1>2, <1>3, <1>4 DEF OpencodeInv

LEMMA OpencodeStarts == MCInit => OpencodeInv
BY RelayStarts, PipeStarts, LoaderStarts DEF MCInit, OpencodeInv

(* On the OpenCode path, for any number of turns, relays, streams, events and *)
(* pi-ai entries: every hold of a relay is given back once, no child outlives *)
(* its relay or is stopped under a stream, one turn at most waits in vain; Pi *)
(* reads in order, once and to its end what an inner stream yields; a stale   *)
(* copy of pi-ai never shadows a good one, and no failure is reported twice.  *)
THEOREM OpencodeIsSafe == MCSpec => []OpencodeSafe
<1>1. OpencodeInv => OpencodeSafe
  BY AllRead DEF OpencodeInv, RelayInv, LoaderInv, OpencodeSafe
<1> QED
  BY OpencodeStarts, OpencodeStep, <1>1, PTL DEF MCSpec

(* A bridged stream fails to load only when an import fails in that step: a   *)
(* failure that is over breaks no later stream of lib/lazy-compat.ts.         *)
THEOREM LoadErrorsAreFresh == MCSpec => LoadErrorIsFresh
<1>1. ASSUME OpencodeInv, [MCNext]_allVars
      PROVE  [\A s \in bridge : phase[s] \in {"new", "load"} /\ phase'[s] = "over"
                                  => faults' > faults]_allVars
  <2>0. PipeInv
    BY <1>1 DEF OpencodeInv
  <2>1. CASE Pipe!Next
    BY <2>0, <2>1, FreshStep
  <2>2. CASE UNCHANGED pipeVars
    BY <2>2 DEF pipeVars
  <2> QED
    BY <1>1, <2>1, <2>2 DEF MCNext, allVars
<1> QED
  BY OpencodeStarts, OpencodeStep, <1>1, PTL DEF MCSpec, LoadErrorIsFresh
============================================================================
