---------------------------- MODULE PiAiLoader ----------------------------
(* lib/pi-ai-loader.ts: an entry of pi-ai is imported by its bare specifier,  *)
(* else from the first copy on disk that serves it, in a fixed order of       *)
(* probes, else from the vendored bundle.  The directory lookups are data: a  *)
(* probe finds a copy or nothing.  Installs and upgrades change what they     *)
(* find while the process runs.                                               *)
EXTENDS Naturals, Sequences, SequencesExt, FiniteSets

CONSTANTS Entry,        \* "compat" and "providers/all"
          MaxLoads, MaxInstalls

VARIABLES copy,         \* probe -> the copy it finds
          vendored,     \* dist/vendor was built
          roots,        \* resolvedPiAiRoots: entry -> probe whose root is kept
          events,       \* _resolutionEvents
          last,         \* what the last load came to
          loads, installs
vars == <<copy, vendored, roots, events, last, loads, installs>>

(* the order of resolvePiAiPackageRoot; Windows' global root is left out *)
Probe == <<"walk-up", "agent-nested", "host-entry", "home-npm", "exec">>
Probes == Range(Probe)

(* what is looked at in a package root: that it is there, name and version,   *)
(* whether it has an exports map, the entries that map defines and those whose *)
(* target is there, the known dist files                                       *)
Copy == [here : BOOLEAN, named : BOOLEAN, recent : BOOLEAN, map : BOOLEAN,
         exports : SUBSET Entry, target : SUBSET Entry, dist : SUBSET Entry]
Serving(E) == [here |-> TRUE, named |-> TRUE, recent |-> TRUE, map |-> TRUE,
               exports |-> E, target |-> E, dist |-> E]
Good == Serving(Entry)
(* exports that predate "compat" *)
Stale == Serving(Entry \ {"compat"})
Old == [Serving({}) EXCEPT !.recent = FALSE]
Foreign == [Serving({}) EXCEPT !.named = FALSE, !.map = FALSE]
Absent == [Foreign EXCEPT !.here = FALSE]
Found == {Absent, Foreign, Old, Stale, Good}

NoRoot == "none"
Outcome == {"fast path", "rethrown", "on-disk", "vendored", "none"}

Init ==
  /\ copy \in [Probes -> Found] /\ vendored \in BOOLEAN
  /\ roots = [e \in Entry |-> NoRoot] /\ events = <<>>
  /\ last = [entry |-> "compat", outcome |-> "fast path"]
  /\ loads = 0 /\ installs = 0

----------------------------------------------------------------------------
(* findExportTarget, piAiRootDefinesEntry, resolvePiAiEntryFile *)
DefinesEntry(c, e) == e \in c.exports \/ e \in c.dist
EntryFile(c, e) == (e \in c.exports /\ e \in c.target) \/ e \in c.dist

(* bug: the search does not ask for the entry, as before #581 *)
CandidateAnyEntry(c, e) == c.named /\ c.recent
Candidate(c, e) == c.named /\ c.recent /\ DefinesEntry(c, e)

(* resolvePiAiPackageRoot *)
PackageRoot(e) ==
  LET hits == {i \in DOMAIN Probe : Candidate(copy[Probe[i]], e)}
  IN IF hits = {} THEN NoRoot ELSE Probe[Min(hits)]

(* what the import of the bare specifier comes to: Node sees the walk-up copy  *)
(* only, and looks neither at name nor at version                              *)
Import(e) ==
  LET c == copy["walk-up"]
  IN IF ~c.here THEN "not found"
     ELSE IF c.map /\ e \notin c.exports THEN "not exported"
     ELSE IF c.map /\ e \in c.target THEN "imported" ELSE "broken"
(* isPiAiNotFoundError: a breakage inside the copy is not masked *)
FallsBack(code) == code \in {"not found", "not exported"}

(* recordResolutionEvent: one per distinct failure, the newest PI_AI_EVENT_CAP *)
EventCap == 8
(* bug: every failure is recorded *)
RecordedAll(x) == LET q == Append(events, x) IN SubSeq(q, IF Len(q) > EventCap THEN 2 ELSE 1, Len(q))
Recorded(x) ==
  IF Contains(events, x) THEN events
  ELSE LET q == Append(events, x) IN IF Len(q) > EventCap THEN Tail(q) ELSE q

(* loadPiAiEntry; the root is kept as soon as it is found *)
Load(e) ==
  /\ loads < MaxLoads /\ loads' = loads + 1
  /\ \/ /\ ~FallsBack(Import(e))
        /\ last' = [entry |-> e,
                    outcome |-> IF Import(e) = "imported" THEN "fast path" ELSE "rethrown"]
        /\ UNCHANGED <<roots, events>>
     \/ /\ FallsBack(Import(e))
        /\ LET root == IF roots[e] = NoRoot THEN PackageRoot(e) ELSE roots[e]
               outcome == IF root # NoRoot /\ EntryFile(copy[root], e) THEN "on-disk"
                          ELSE IF vendored THEN "vendored" ELSE "none"
           IN /\ roots' = [roots EXCEPT ![e] = root]
              /\ last' = [entry |-> e, outcome |-> outcome]
              /\ events' = Recorded([entry |-> e, code |-> Import(e), recovered |-> outcome])
  /\ UNCHANGED <<copy, vendored, installs>>

(* an install or upgrade brings a good copy to a place of its own choice *)
Install(p) ==
  /\ installs < MaxInstalls /\ installs' = installs + 1
  /\ copy' = [copy EXCEPT ![p] = Good]
  /\ last' = [last EXCEPT !.outcome = "fast path"]
  /\ UNCHANGED <<vendored, roots, events, loads>>

Next == (\E e \in Entry : Load(e)) \/ (\E p \in Probes : Install(p))
Spec == Init /\ [][Next]_vars

----------------------------------------------------------------------------
(* describePiAiResolution: what the doctor says of an entry *)
DoctorSource(e) ==
  LET root == PackageRoot(e)
  IN IF root # NoRoot /\ EntryFile(copy[root], e) THEN "on-disk"
     ELSE IF vendored THEN "vendored" ELSE "none"

(* Types of the loader's state. *)
TypeOK ==
  /\ copy \in [Probes -> Copy] /\ vendored \in BOOLEAN
  /\ roots \in [Entry -> Probes \cup {NoRoot}]
  /\ last \in [entry : Entry, outcome : Outcome] /\ Len(events) <= EventCap

(* "A stale copy never shadows a good one further down the probe order", also *)
(* after other entries have been loaded from it: a load ends without a copy   *)
(* on disk only if no probe finds one that serves the entry, and the doctor   *)
(* names the source that the load came from.                                  *)
NeverShadowed ==
  /\ last.outcome \in {"vendored", "none"} =>
       \A p \in Probes : ~(Candidate(copy[p], last.entry) /\ EntryFile(copy[p], last.entry))
  /\ last.outcome \notin {"fast path", "rethrown"} => last.outcome = DoctorSource(last.entry)

(* A failure is reported once: no two events of the ring are the same.        *)
ReportedOnce == IsInjective(events)
============================================================================
