------------------------------ MODULE FileLock ------------------------------
(* withFileLock of lib/atomic-file.ts: the lock directory "<file>.lock" that  *)
(* guards one state file across processes, and the promise chain that queues  *)
(* the callers of one process.  Every file-system call is a step of its own,  *)
(* since processes interleave there; within a process only the head of the    *)
(* chain is past `await previous'.  Time is abstract: a waiter's deadline may *)
(* have passed at any poll, and a live holder's lock may be older than        *)
(* STALE_MS only if Suspend allows it (a stopped or slept machine).           *)
EXTENDS Naturals, Sequences

CONSTANTS Proc,         \* processes, by pid
          Caller,       \* calls of withFileLock
          ProcOf,       \* caller -> its process
          Crashable,    \* processes that may be killed
          Suspend,      \* a holder may outlive STALE_MS
          None          \* no process, no caller

ASSUME FileLockAssumption ==
  /\ ProcOf \in [Caller -> Proc]
  /\ Crashable \subseteq Proc
  /\ Suspend \in BOOLEAN
  /\ None \notin Proc \cup Caller

VARIABLES pc,           \* caller -> where it is
          chain,        \* process -> its queued callers, _chains
          dir,          \* the lock directory, with the caller that made it
          dead          \* killed processes
lockVars == <<pc, chain, dir, dead>>

NoDir == [made |-> FALSE, info |-> None, owner |-> None]
Dir == [made : BOOLEAN, info : Proc \cup {None}, owner : Caller \cup {None}]
Final == {"done", "failed", "killed"}
Where == {"idle", "chained", "mkdir", "info", "look", "bust", "sleep", "critical"} \cup Final

LockInit ==
  /\ pc = [c \in Caller |-> "idle"]
  /\ chain = [p \in Proc |-> <<>>]
  /\ dir = NoDir
  /\ dead = {}

Goto(c, l) == pc' = [pc EXCEPT ![c] = l]
Alive(c) == ProcOf[c] \notin dead
At(c, l) == pc[c] = l /\ Alive(c)

(* bug: only a call that ran its function hands the chain on *)
FinishDoneOnly(c, l) ==
  /\ Goto(c, l)
  /\ chain' = IF l = "done" THEN [chain EXCEPT ![ProcOf[c]] = Tail(@)] ELSE chain

(* the finally blocks hand the chain to the next caller *)
Finish(c, l) ==
  /\ Goto(c, l)
  /\ chain' = [chain EXCEPT ![ProcOf[c]] = Tail(@)]

----------------------------------------------------------------------------
(* withFileLock *)

(* bug: the chain queues the process *)
CallByProcess(c) ==
  /\ At(c, "idle")
  /\ Goto(c, "chained")
  /\ chain' = [chain EXCEPT ![ProcOf[c]] = Append(@, ProcOf[c])]
  /\ UNCHANGED <<dir, dead>>

Call(c) ==
  /\ At(c, "idle")
  /\ Goto(c, "chained")
  /\ chain' = [chain EXCEPT ![ProcOf[c]] = Append(@, c)]
  /\ UNCHANGED <<dir, dead>>

Start(c) ==
  /\ At(c, "chained") /\ Head(chain[ProcOf[c]]) = c
  /\ Goto(c, "mkdir")
  /\ UNCHANGED <<chain, dir, dead>>

(* bug: mkdir with { recursive: true }, which never throws EEXIST *)
MkdirRecursive(c) ==
  /\ At(c, "mkdir")
  /\ dir' = IF dir.made THEN dir ELSE [made |-> TRUE, info |-> None, owner |-> c]
  /\ Goto(c, "info")
  /\ UNCHANGED <<chain, dead>>

Mkdir(c) ==
  /\ At(c, "mkdir")
  /\ \/ /\ ~dir.made
        /\ dir' = [made |-> TRUE, info |-> None, owner |-> c]
        /\ Goto(c, "info")
     \/ dir.made /\ Goto(c, "look") /\ UNCHANGED dir
  /\ UNCHANGED <<chain, dead>>

(* the marker goes into whatever directory is there; with none it throws *)
WriteInfo(c) ==
  /\ At(c, "info")
  /\ \/ /\ dir.made
        /\ dir' = [dir EXCEPT !.info = ProcOf[c]]
        /\ Goto(c, "critical") /\ UNCHANGED chain
     \/ ~dir.made /\ Finish(c, "failed") /\ UNCHANGED dir
  /\ UNCHANGED dead

(* bug: an info-less lock counts as residue *)
StaleWithoutInfo == dir.info = None \/ dir.info \in dead \/ Suspend
Stale == dir.info # None /\ (dir.info \in dead \/ Suspend)

(* an info-less lock is held; a stale one will be busted *)
Look(c) ==
  /\ At(c, "look")
  /\ \/ Stale /\ Goto(c, "bust")
     \/ ~(dir.info # None /\ dir.info \in dead) /\ Goto(c, "sleep")
  /\ UNCHANGED <<chain, dir, dead>>

Bust(c) ==
  /\ At(c, "bust")
  /\ dir' = NoDir
  /\ Goto(c, "mkdir")
  /\ UNCHANGED <<chain, dead>>

Wake(c) ==
  /\ At(c, "sleep")
  /\ Goto(c, "mkdir")
  /\ UNCHANGED <<chain, dir, dead>>

(* the deadline is tested before each sleep *)
TimeOut(c) ==
  /\ At(c, "sleep")
  /\ Finish(c, "failed")
  /\ UNCHANGED <<dir, dead>>

(* the directory goes, whoever made it *)
Release(c) ==
  /\ At(c, "critical")
  /\ dir' = NoDir
  /\ Finish(c, "done")
  /\ UNCHANGED dead

(* a killed process leaves the directory as it is *)
Crash(p) ==
  /\ p \in Crashable \ dead
  /\ dead' = dead \cup {p}
  /\ pc' = [c \in Caller |-> IF ProcOf[c] = p /\ pc[c] \notin Final THEN "killed" ELSE pc[c]]
  /\ chain' = [chain EXCEPT ![p] = <<>>]
  /\ UNCHANGED dir

Acquire(c) == \/ Call(c) \/ Start(c) \/ Mkdir(c) \/ WriteInfo(c) \/ Look(c)
              \/ Bust(c) \/ Wake(c) \/ TimeOut(c)

Next == \/ \E c \in Caller : Acquire(c) \/ Release(c)
        \/ \E p \in Proc : Crash(p)

Spec == LockInit /\ [][Next]_lockVars

(* a process runs its code, and a deadline passes in the end *)
Fairness == \A c \in Caller : /\ WF_lockVars(Acquire(c) \/ Release(c))
                              /\ SF_lockVars(TimeOut(c))
FairSpec == Spec /\ Fairness

----------------------------------------------------------------------------
(* Types of the lock's state. *)
TypeOK ==
  /\ pc \in [Caller -> Where]
  /\ chain \in [Proc -> Seq(Caller)]
  /\ dir \in Dir
  /\ dead \in SUBSET Proc

(* At most one caller, over all processes, runs its function at a time.       *)
Mutex == \A c, d \in Caller : pc[c] = "critical" /\ pc[d] = "critical" => c = d

(* A caller that runs its function still owns the directory it made, so that  *)
(* no other process can get in while it does.                                 *)
HolderOwnsDir == \A c \in Caller : pc[c] = "critical" => dir.made /\ dir.owner = c

(* Every call ends: with the function run, or with a timeout; none hangs.     *)
Ends == \A c \in Caller : pc[c] = "chained" ~> pc[c] \in Final
============================================================================
