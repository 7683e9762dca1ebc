---------------------------- MODULE ConfigAtomic ----------------------------
(* What updateConfig of config.ts does for its callers: every toggle of a     *)
(* provider's view takes effect on the file in one step or not at all, and    *)
(* its caller is told the opposite of what the file had in that step.  When   *)
(* the write fails, which updateConfig logs and keeps to itself, the caller   *)
(* is told so too, although the file stays as it is.                          *)
CONSTANTS Caller,       \* calls of toggleModelViewOverride
          Field,        \* providers with an entry in model_view_overrides
          FieldOf,      \* caller -> the provider it toggles
          InitViews     \* what the file may hold at first

VARIABLES file,         \* provider -> its view
          told          \* caller -> "pending", "dropped" or the view it is told
vars == <<file, told>>

View == {"free", "all"}
Flip(v) == IF v = "free" THEN "all" ELSE "free"

Init == file \in InitViews /\ told = [c \in Caller |-> "pending"]

Toggle(c) ==
  /\ told[c] = "pending"
  /\ file' = [file EXCEPT ![FieldOf[c]] = Flip(@)]
  /\ told' = [told EXCEPT ![c] = Flip(file[FieldOf[c]])]

(* the file cannot be written *)
Lose(c) ==
  /\ told[c] = "pending"
  /\ told' = [told EXCEPT ![c] = Flip(file[FieldOf[c]])]
  /\ UNCHANGED file

(* one call times out or is given up, or all calls of a killed process *)
Drop(C) ==
  /\ \A c \in C : told[c] = "pending"
  /\ told' = [c \in Caller |-> IF c \in C THEN "dropped" ELSE told[c]]
  /\ UNCHANGED file

Next == \/ \E c \in Caller : Toggle(c) \/ Lose(c)
        \/ \E C \in SUBSET Caller : Drop(C)

Spec == Init /\ [][Next]_vars
============================================================================
