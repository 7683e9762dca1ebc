---------------------------- MODULE MCOpencode ----------------------------
(* Three parts of the OpenCode path that share no state, checked in one run:  *)
(* a behaviour is one of the relay (extended), of the stream pipes or of the  *)
(* loader, and the other two stay in one of their initial states.             *)
EXTENDS OpencodeRelay

CONSTANTS Stream, MaxEvents, MaxFaults, Entry, MaxLoads, MaxInstalls

ASSUME OpencodeAssumption ==
  /\ MaxEvents \in Nat /\ MaxFaults \in Nat /\ MaxLoads \in Nat /\ MaxInstalls \in Nat
  /\ "compat" \in Entry

VARIABLES part, bridge, phase, came, queue, closed, result, reader, got, module, faults,
          copy, vendored, roots, events, last, loads, installs
pipeVars == <<bridge, phase, came, queue, closed, result, reader, got, module, faults>>
loaderVars == <<copy, vendored, roots, events, last, loads, installs>>
allVars == <<part, vars, pipeVars, loaderVars>>

Pipe == INSTANCE EventPipe
Loader == INSTANCE PiAiLoader

MCInit ==
  /\ part \in {"relay", "pipe", "loader"}
  /\ Init /\ Pipe!Init /\ Loader!Init
  /\ part # "relay" => ~enabled
  /\ part # "pipe" => bridge = {}
  /\ part # "loader" => ~vendored /\ \A p \in Loader!Probes : copy[p] = Loader!Absent

MCNext ==
  \/ part = "relay" /\ Next /\ UNCHANGED <<part, pipeVars, loaderVars>>
  \/ part = "pipe" /\ Pipe!Next /\ UNCHANGED <<part, vars, loaderVars>>
  \/ part = "loader" /\ Loader!Next /\ UNCHANGED <<part, vars, pipeVars>>

(* none of the fair actions is enabled in a part that has not begun *)
MCSpec == MCInit /\ [][MCNext]_allVars /\ Fairness /\ Pipe!Fairness

(* Each part has its types; every hold of the relay is given back once, no    *)
(* child is orphaned or stopped under a stream, one turn at most waits in     *)
(* vain; Pi reads what an inner stream yields in order, once and to its end;  *)
(* and a stale copy of pi-ai never shadows a good one, nor is a failure       *)
(* reported twice.                                                            *)
OpencodeSafe ==
  /\ TypeOK /\ RelaySafe
  /\ Pipe!TypeOK /\ Pipe!ReadsAll
  /\ Loader!TypeOK /\ Loader!NeverShadowed /\ Loader!ReportedOnce

(* "A transient load error must not break every later stream": a bridged      *)
(* stream fails to load only when an import fails, not because one did.       *)
LoadErrorIsFresh ==
  [][\A s \in bridge : phase[s] \in {"new", "load"} /\ phase'[s] = "over" => faults' > faults]_allVars

(* No turn waits for ever, a child that nothing holds is used or stopped, and *)
(* a stream that was handed out comes to its end for Pi.                      *)
OpencodeEnds == RelayEnds /\ Pipe!StreamsEnd
============================================================================
