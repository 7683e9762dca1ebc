----------------------------- MODULE MCStores -----------------------------
(* The JSON stores (extended; symmetric in processes, calls and keys) and the *)
(* memoised config, which share no state: a behaviour is one of either, and   *)
(* the other stays as it began.                                               *)
EXTENDS JsonStore, TLC

CONSTANTS FineClock, MaxVersion

VARIABLES part, file, now, cached, load, got
memoVars == <<file, now, cached, load, got>>

allVars == <<part, vars, memoVars>>

Memo == INSTANCE ConfigMemo WITH memo <- cached

MCInit ==
  /\ part \in {"stores", "memo"}
  /\ Init /\ Memo!Init
  /\ part # "stores" => style = "probes" /\ \A k \in Key : disk[k] = "none"

MCNext == \/ part = "stores" /\ Next /\ UNCHANGED <<part, memoVars>>
          \/ part = "memo" /\ Memo!Next /\ UNCHANGED <<part, vars>>

MCSpec == MCInit /\ [][MCNext]_allVars

(* A load of the config returns the file as it was when the load began, or    *)
(* newer, whatever other processes write between the stat and the read.       *)
LoadIsFresh == Memo!TypeOK /\ Memo!LoadIsFresh

Symmetry == Permutations(Process) \cup Permutations(Call) \cup Permutations(Key)
============================================================================
