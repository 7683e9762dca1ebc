----------------------------- MODULE EventPipe -----------------------------
(* The streams that pi-free hands to Pi before it has the stream they will    *)
(* carry: the shell of lib/assistant-message-event-stream.ts with the bridge  *)
(* of lib/lazy-compat.ts, and DeferredAssistantMessageEventStream with        *)
(* pipeStream in providers/opencode-session.ts.  A stream waits for a module  *)
(* that many streams load together, then forwards what the inner stream       *)
(* yields, while Pi reads at its own pace.                                    *)
EXTENDS Naturals, Sequences, SequencesExt

CONSTANTS Stream,       \* streams handed out
          MaxEvents,    \* bound on what an inner stream yields before its end
          MaxFaults     \* bound on failing imports

VARIABLES bridge,       \* the streams of lazy-compat; the others are OpenCode's
          phase,        \* stream -> how far its async body is
          came,         \* what the body has pushed, as long as nobody looked at `done'
          queue,        \* events that wait for the reader
          closed,       \* the stream's own `done'
          result,       \* what result() resolves with
          reader,       \* Pi's loop: "busy", "waiting" in next(), or "over"
          got,          \* what it has read
          module,       \* cached import promise per kind: compatPromise, piAiSubpathCache
          faults        \* imports that have failed
vars == <<bridge, phase, came, queue, closed, result, reader, got, module, faults>>

Kinds == {"bridge", "subpath"}
Kind(s) == IF s \in bridge THEN "bridge" ELSE "subpath"
Terminal == {"done", "error"}
Event == {"start", "text", "done", "error"} \X (0..MaxEvents)
Is(e, kinds) == e[1] \in kinds

Init ==
  /\ bridge \in SUBSET Stream
  /\ phase = [s \in Stream |-> "new"] /\ came = [s \in Stream |-> <<>>]
  /\ queue = [s \in Stream |-> <<>>] /\ closed = [s \in Stream |-> FALSE]
  /\ result = [s \in Stream |-> "none"] /\ reader = [s \in Stream |-> "busy"]
  /\ got = [s \in Stream |-> <<>>]
  /\ module = [k \in Kinds |-> "none"] /\ faults = 0

----------------------------------------------------------------------------
(* push and end, as functions of one stream's state *)

State(s) == [came |-> came[s], queue |-> queue[s], closed |-> closed[s],
             result |-> result[s], reader |-> reader[s], got |-> got[s]]

(* bug: a waiting reader gets the event, and the queue too *)
DeliveredTwice(x, e) ==
  [x EXCEPT !.queue = Append(@, e), !.reader = "busy",
            !.got = IF x.reader = "waiting" THEN Append(@, e) ELSE @]

(* to the reader that waits, or into the queue *)
Delivered(x, e) ==
  IF x.reader = "waiting" THEN [x EXCEPT !.reader = "busy", !.got = Append(@, e)]
                          ELSE [x EXCEPT !.queue = Append(@, e)]

Settled(x, r) == [x EXCEPT !.result = IF @ = "none" THEN r ELSE @]

Pushed(x, e) ==
  LET y == [x EXCEPT !.came = Append(@, e)]
  IN IF x.closed THEN y
     ELSE IF Is(e, Terminal) THEN Delivered(Settled([y EXCEPT !.closed = TRUE], e[1]), e)
          ELSE Delivered(y, e)

(* bug: a reader that waits is not woken *)
EndedSilently(s, x, r) == Settled([x EXCEPT !.closed = TRUE], r)

(* the deferred stream's end does nothing once it is done *)
Ended(s, x, r) ==
  IF x.closed /\ s \notin bridge THEN x
  ELSE Settled([x EXCEPT !.closed = TRUE,
                         !.reader = IF @ = "waiting" THEN "over" ELSE @], r)

(* the state of every stream in S becomes what f makes of it *)
Becomes(S, f(_, _)) ==
  LET new == [s \in Stream |-> IF s \in S THEN f(s, State(s)) ELSE State(s)]
  IN /\ came' = [s \in Stream |-> new[s].came] /\ queue' = [s \in Stream |-> new[s].queue]
     /\ closed' = [s \in Stream |-> new[s].closed] /\ got' = [s \in Stream |-> new[s].got]
     /\ result' = [s \in Stream |-> new[s].result]
     /\ reader' = [s \in Stream |-> new[s].reader]

(* the catch of the body; OpenCode's begins with a start event *)
Failed(s, x) == IF s \in bridge THEN Pushed(x, <<"error", 0>>)
                ELSE Pushed(Pushed(x, <<"start", 0>>), <<"error", 0>>)

----------------------------------------------------------------------------
(* loadPiAiCompat, importPiAiSubpath *)

(* bug: the failed import of the bridge is kept *)
AfterFaultKept(k) == "failed"
(* the bridge forgets a failed import, the subpath cache keeps the promise *)
AfterFault(k) == IF k = "bridge" THEN "none" ELSE "failed"

Open(s) ==
  /\ phase[s] = "new"
  /\ LET m == module[Kind(s)] IN
     /\ module' = [module EXCEPT ![Kind(s)] = IF m = "none" THEN "pending" ELSE m]
     /\ phase' = [phase EXCEPT ![s] = CASE m = "ok" -> "pipe" [] m = "failed" -> "over"
                                        [] OTHER -> "load"]
     /\ Becomes(IF m = "failed" THEN {s} ELSE {}, Failed)
  /\ UNCHANGED <<bridge, faults>>

Loading(k) == {s \in Stream : phase[s] = "load" /\ Kind(s) = k}

Loaded(k) ==
  /\ module[k] = "pending"
  /\ module' = [module EXCEPT ![k] = "ok"]
  /\ phase' = [s \in Stream |-> IF s \in Loading(k) THEN "pipe" ELSE phase[s]]
  /\ UNCHANGED <<bridge, came, queue, closed, result, reader, got, faults>>

LoadFails(k) ==
  /\ module[k] = "pending" /\ faults < MaxFaults
  /\ faults' = faults + 1
  /\ module' = [module EXCEPT ![k] = AfterFault(k)]
  /\ phase' = [s \in Stream |-> IF s \in Loading(k) THEN "over" ELSE phase[s]]
  /\ Becomes(Loading(k), Failed)
  /\ UNCHANGED bridge

----------------------------------------------------------------------------
(* the loop over the inner stream: lazyCompatStream, pipeStream *)

Yields(s) ==
  /\ phase[s] = "pipe" /\ Len(came[s]) < MaxEvents
  /\ \E kind \in {"text", "done", "error"} :
       Becomes({s}, LAMBDA t, x : Pushed(x, <<kind, Len(x.came)>>))
  /\ UNCHANGED <<bridge, phase, module, faults>>

(* the inner stream ends; end takes its result, whatever was pushed *)
InnerEnds(s) ==
  /\ phase[s] = "pipe"
  /\ phase' = [phase EXCEPT ![s] = "over"]
  /\ Becomes({s}, LAMBDA t, x : Ended(t, x, "final"))
  /\ UNCHANGED <<bridge, module, faults>>

(* it throws; after a terminal event OpenCode's body has its final message *)
InnerThrows(s) ==
  /\ phase[s] = "pipe"
  /\ phase' = [phase EXCEPT ![s] = "over"]
  /\ Becomes({s}, LAMBDA t, x : IF t \notin bridge /\ x.result # "none"
                                  THEN Ended(t, x, x.result) ELSE Failed(t, x))
  /\ UNCHANGED <<bridge, module, faults>>

----------------------------------------------------------------------------
(* the async iterator, one reader per stream *)

Read(s) ==
  /\ phase[s] # "new" /\ reader[s] = "busy"
  /\ \/ /\ queue[s] # <<>>
        /\ got' = [got EXCEPT ![s] = Append(@, Head(queue[s]))]
        /\ queue' = [queue EXCEPT ![s] = Tail(@)]
        /\ UNCHANGED reader
     \/ /\ queue[s] = <<>>
        /\ reader' = [reader EXCEPT ![s] = IF closed[s] THEN "over" ELSE "waiting"]
        /\ UNCHANGED <<got, queue>>
  /\ UNCHANGED <<bridge, phase, came, closed, result, module, faults>>

Next == \/ \E s \in Stream : Open(s) \/ Yields(s) \/ InnerEnds(s) \/ InnerThrows(s) \/ Read(s)
        \/ \E k \in Kinds : Loaded(k) \/ LoadFails(k)

(* imports settle, inner streams end or throw, Pi keeps reading *)
Fairness == /\ \A s \in Stream : WF_vars(Read(s)) /\ WF_vars(InnerEnds(s) \/ InnerThrows(s))
            /\ \A k \in Kinds : WF_vars(Loaded(k) \/ LoadFails(k))
Spec == Init /\ [][Next]_vars /\ Fairness

----------------------------------------------------------------------------
(* Types of the streams' state. *)
TypeOK ==
  /\ bridge \in SUBSET Stream
  /\ phase \in [Stream -> {"new", "load", "pipe", "over"}]
  /\ module \in [Kinds -> {"none", "pending", "ok", "failed"}] /\ faults \in 0..MaxFaults
  /\ closed \in [Stream -> BOOLEAN] /\ result \in [Stream -> Terminal \cup {"none", "final"}]
  /\ reader \in [Stream -> {"busy", "waiting", "over"}]
  /\ \A s \in Stream : {came[s], queue[s], got[s]} \subseteq Seq(Event)

FirstTerminal(q) == SelectInSeq(q, LAMBDA e : Is(e, Terminal))
UpToTerminal(q) == IF FirstTerminal(q) = 0 THEN q ELSE SubSeq(q, 1, FirstTerminal(q))

(* What Pi has read and what still waits for it is what the inner stream      *)
(* yielded, in order, once, up to the first terminal event; its loop ends     *)
(* only when it has read all of that.                                         *)
ReadsAll ==
  \A s \in Stream : /\ got[s] \o queue[s] = UpToTerminal(came[s])
                    /\ reader[s] = "over" => queue[s] = <<>> /\ phase[s] # "load"
                    /\ result[s] # "none" /\ FirstTerminal(came[s]) > 0
                         => result[s] = came[s][FirstTerminal(came[s])][1]

(* Once a stream is handed out, Pi's loop over it ends and result() resolves. *)
StreamsEnd ==
  \A s \in Stream : phase[s] # "new" ~> reader[s] = "over" /\ result[s] # "none"
============================================================================
