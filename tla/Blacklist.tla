----------------------------- MODULE Blacklist -----------------------------
(* The in-session blacklist of auto-fallback, lib/auto-fallback/blacklist.ts. *)
(* The class keeps one record per "{provider}/{model}" key: the failures of   *)
(* the current streak, when the streak began and when it was last extended.   *)
(* The constant operators are the class's methods as functions of the map;    *)
(* AutoFallback uses them through INSTANCE.  The state machine below runs the *)
(* class on its own against a clock.  `reasons' feeds the history listing     *)
(* only and is left out.                                                      *)
EXTENDS Naturals

CONSTANTS Key,          \* "{provider}/{model}" keys
          TTL,          \* ttlMs
          MaxStrikes,   \* maxStrikes
          MaxTime,      \* bound on the clock
          MaxCount      \* bound on the failures recorded in one streak

ASSUME BlacklistAssumption ==
  /\ TTL \in Nat
  /\ MaxStrikes \in Nat \ {0}
  /\ MaxTime \in Nat
  /\ MaxCount \in Nat

VARIABLES entries,      \* key -> record; a count of 0 is an absent record
          now           \* Date.now(), in units that make TTL small
vars == <<entries, now>>

Entry == [count : Nat, windowStart : Nat, lastFailureAt : Nat]
NoEntry == [count |-> 0, windowStart |-> 0, lastFailureAt |-> 0]

----------------------------------------------------------------------------
(* the methods, as functions of the map and the time *)

Present(e) == e.count > 0

(* bugs: a streak that never ends; one that restarts in its old window *)
StruckNoReset(e, t) ==
  [count |-> e.count + 1, lastFailureAt |-> t,
   windowStart |-> IF Present(e) THEN e.windowStart ELSE t]
StruckOldWindow(e, t) ==
  [count |-> IF t - e.windowStart <= TTL THEN e.count + 1 ELSE 1, lastFailureAt |-> t,
   windowStart |-> IF Present(e) THEN e.windowStart ELSE t]

(* recordFailure's new record: a streak that outlived its window starts over *)
Struck(e, t) ==
  IF Present(e) /\ t - e.windowStart <= TTL
    THEN [e EXCEPT !.count = @ + 1, !.lastFailureAt = t]
    ELSE [count |-> 1, windowStart |-> t, lastFailureAt |-> t]

HardBan(e) == e.count >= MaxStrikes

(* bug: a hard ban that expires with its window *)
IsBannedInWindow(e, t) == Present(e) /\ t - e.windowStart <= TTL

IsBanned(e, t) ==
  /\ Present(e)
  /\ HardBan(e) \/ t - e.windowStart <= TTL

(* every key of S struck at time t, e.g. the candidates a switch skips *)
StruckAll(es, S, t) == [k \in Key |-> IF k \in S THEN Struck(es[k], t) ELSE es[k]]
(* bug: the count zeroed by subtracting more than there is *)
ClearedBelow(es, k) == [es EXCEPT ![k].count = @ - MaxStrikes]
Cleared(es, k) == [es EXCEPT ![k] = NoEntry]
Empty == [k \in Key |-> NoEntry]

----------------------------------------------------------------------------
(* the class under an arbitrary caller *)

Init == entries = Empty /\ now = 0

RecordFailure(k) ==
  /\ entries[k].count < MaxCount
  /\ entries' = [entries EXCEPT ![k] = Struck(@, now)]
  /\ UNCHANGED now

Clear(k) == entries' = Cleared(entries, k) /\ UNCHANGED now

ClearAll == entries' = Empty /\ UNCHANGED now

Tick == now < MaxTime /\ now' = now + 1 /\ UNCHANGED entries

Next == \/ \E k \in Key : RecordFailure(k) \/ Clear(k)
        \/ ClearAll
        \/ Tick

Spec == Init /\ [][Next]_vars

----------------------------------------------------------------------------
(* Types of the map and the clock. *)
TypeOK == entries \in [Key -> Entry] /\ now \in Nat

(* The failures counted in a record all fell into one TTL window, which is in *)
(* the past: counting a late failure into an old window would promote a model *)
(* that fails now and then to a hard ban.                                     *)
WindowHoldsStreak ==
  \A k \in Key : Present(entries[k]) =>
    /\ entries[k].windowStart <= entries[k].lastFailureAt
    /\ entries[k].lastFailureAt <= entries[k].windowStart + TTL
    /\ entries[k].lastFailureAt <= now

(* A model that just failed is banned, however old its earlier record is: the *)
(* switch that follows relies on it to keep the failed model out of the       *)
(* candidates.                                                                *)
FailureBans ==
  [][\A k \in Key : RecordFailure(k) => IsBanned(entries[k], now)']_vars

(* Waiting never lifts a hard ban: only a new failure or a clear touches it.  *)
HardBanOutlastsWindow ==
  [][\A k \in Key : HardBan(entries[k]) /\ ~IsBanned(entries[k], now)'
       => Clear(k) \/ ClearAll]_vars
============================================================================
