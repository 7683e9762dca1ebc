-------------------------- MODULE ConfigStoreProofs --------------------------
(* Proofs about the file lock and the config file that it guards, for any     *)
(* number of processes and callers.  The types of the lock rest on how the    *)
(* chain follows the callers of a process, exclusion on who owns the          *)
(* directory.  ConfigStore implements ConfigAtomic, whatever file is found,   *)
(* as long as nothing disturbs the lock (nobody is suspended, and whoever is  *)
(* killed leaves at most one process behind) and no process starts up in the  *)
(* middle of another one's update: ensureConfigFile takes no lock.            *)
EXTENDS ConfigStore, TLAPS

-----------------------------------------------------------------------------
(* the lock *)

Active == {"mkdir", "info", "look", "bust", "sleep", "critical"}
ChainOf(c) == chain[ProcOf[c]]

(* whoever waits is queued, whoever is past `await previous' is the head *)
QueueInv ==
  /\ \A c \in Caller : pc[c] = "chained" =>
       \E i \in 1 .. Len(ChainOf(c)) : ChainOf(c)[i] = c
  /\ \A c \in Caller : pc[c] \in Active => ChainOf(c) # <<>> /\ Head(ChainOf(c)) = c

TypeInv == TypeOK /\ QueueInv

----------------------------------------------------------------------------
(* Taking the head off a queue keeps everyone else in it. *)
LEMMA TailKeeps ==
  ASSUME NEW S, NEW s \in Seq(S), s # <<>>, NEW e, e # Head(s),
         NEW i \in 1 .. Len(s), s[i] = e
  PROVE  \E j \in 1 .. Len(Tail(s)) : Tail(s)[j] = e
<1>1. i # 1 /\ i - 1 \in 1 .. Len(Tail(s))
  OBVIOUS
<1>2. Tail(s)[i - 1] = e
  BY <1>1
<1> QED
  BY <1>1, <1>2

(* Adding to a queue keeps everyone in it, and the head in front. *)
LEMMA AppendKeeps ==
  ASSUME NEW S, NEW s \in Seq(S), NEW x \in S
  PROVE  /\ Append(s, x) \in Seq(S)
         /\ Append(s, x) # <<>>
         /\ s # <<>> => Head(Append(s, x)) = Head(s)
         /\ \A i \in 1 .. Len(s) : i \in 1 .. Len(Append(s, x)) /\ Append(s, x)[i] = s[i]
         /\ Len(s) + 1 \in 1 .. Len(Append(s, x)) /\ Append(s, x)[Len(s) + 1] = x
<1>1. /\ Append(s, x) \in Seq(S) /\ Len(Append(s, x)) = Len(s) + 1
      /\ Append(s, x)[Len(s) + 1] = x
      /\ \A i \in 1 .. Len(s) : Append(s, x)[i] = s[i]
  OBVIOUS
<1>2. Append(s, x) # <<>>
  BY <1>1
<1>3. ASSUME s # <<>>
      PROVE  Head(Append(s, x)) = Head(s)
  BY <1>1, <1>2, <1>3
<1> QED
  BY <1>1, <1>2, <1>3

(* A step that moves the head of a chain on, and leaves the chains alone.     *)
LEMMA MoveKeepsQueue ==
  ASSUME TypeInv, NEW c \in Caller, NEW l \in Active, Goto(c, l), UNCHANGED chain,
         pc[c] \in Active
  PROVE  /\ pc' \in [Caller -> Where] /\ chain' \in [Proc -> Seq(Caller)]
         /\ QueueInv'
<1> USE DEF TypeInv, TypeOK, QueueInv, Goto, ChainOf, Active, Where, Final
<1>1. pc' \in [Caller -> Where] /\ chain' \in [Proc -> Seq(Caller)]
  OBVIOUS
<1>2. QueueInv'
  OBVIOUS
<1> QED
  BY <1>1, <1>2

(* A step that ends a call hands the chain to the next caller. *)
LEMMA FinishKeepsQueue ==
  ASSUME FileLockAssumption, TypeInv, NEW c \in Caller, NEW l \in Final,
         pc[c] \in Active, Finish(c, l)
  PROVE  /\ pc' \in [Caller -> Where] /\ chain' \in [Proc -> Seq(Caller)]
         /\ QueueInv'
<1> USE DEF TypeInv, TypeOK, ChainOf, Where, Final
<1>0. /\ ProcOf[c] \in Proc /\ ChainOf(c) \in Seq(Caller)
      /\ ChainOf(c) # <<>> /\ Head(ChainOf(c)) = c
  BY DEF FileLockAssumption, QueueInv
<1>1. pc' \in [Caller -> Where] /\ chain' \in [Proc -> Seq(Caller)]
  BY <1>0 DEF Finish, Goto
<1>2. ASSUME NEW d \in Caller, pc'[d] = "chained"
      PROVE  \E i \in 1 .. Len(ChainOf(d)') : ChainOf(d)'[i] = d
  <2>1. d # c /\ pc[d] = "chained"
    BY <1>2 DEF Finish, Goto
  <2>2. PICK i \in 1 .. Len(ChainOf(d)) : ChainOf(d)[i] = d
    BY <2>1 DEF QueueInv
  <2>3. CASE ProcOf[d] = ProcOf[c]
    <3>0. ChainOf(d) = ChainOf(c)
      BY <2>3
    <3>1. \E j \in 1 .. Len(Tail(ChainOf(c))) : Tail(ChainOf(c))[j] = d
      <4> DEFINE s == ChainOf(c)
      <4>1. s \in Seq(Caller) /\ s # <<>> /\ d # Head(s)
        BY <1>0, <2>1
      <4>2. i \in 1 .. Len(s) /\ s[i] = d
        BY <2>2, <3>0
      <4>3. \E j \in 1 .. Len(Tail(s)) : Tail(s)[j] = d
        <5> HIDE DEF s
        <5> QED
          BY <4>1, <4>2, TailKeeps
      <4> QED
        BY <4>3
    <3> QED
      BY <1>0, <2>3, <3>0, <3>1 DEF Finish
  <2>4. CASE ProcOf[d] # ProcOf[c]
    BY <1>0, <2>2, <2>4 DEF Finish, FileLockAssumption
  <2> QED
    BY <2>3, <2>4
<1>3. ASSUME NEW d \in Caller, pc'[d] \in Active
      PROVE  ChainOf(d)' # <<>> /\ Head(ChainOf(d)') = d
  <2>1. d # c /\ pc[d] \in Active
    BY <1>3 DEF Finish, Goto, Active
  <2>2. ChainOf(d) # <<>> /\ Head(ChainOf(d)) = d
    BY <2>1 DEF QueueInv
  <2>3. ProcOf[d] # ProcOf[c]
    BY <1>0, <2>1, <2>2
  <2> QED
    BY <2>2, <2>3 DEF Finish, FileLockAssumption
<1> QED
  BY <1>1, <1>2, <1>3 DEF QueueInv

LEMMA TypeInit == FileLockAssumption /\ LockInit => TypeInv
  BY DEF FileLockAssumption, LockInit, TypeInv, TypeOK, QueueInv, NoDir, Dir, Where,
         Final, Active

LEMMA TypeStep == FileLockAssumption /\ TypeInv /\ [Next]_lockVars => TypeInv'
<1> SUFFICES ASSUME FileLockAssumption, TypeInv, [Next]_lockVars
             PROVE  TypeInv'
  OBVIOUS
<1>0. /\ ProcOf \in [Caller -> Proc] /\ dir \in Dir /\ dead \in SUBSET Proc
      /\ None \notin Proc /\ NoDir \in Dir
  BY DEF FileLockAssumption, TypeInv, TypeOK, NoDir, Dir
<1>1. ASSUME NEW c \in Caller, Call(c)
      PROVE  TypeInv'
  <2>1. /\ ChainOf(c) \in Seq(Caller) /\ ProcOf[c] \in Proc
        /\ chain' = [chain EXCEPT ![ProcOf[c]] = Append(ChainOf(c), c)]
    BY <1>0, <1>1 DEF Call, ChainOf, TypeInv, TypeOK
  <2>2. TypeOK'
    BY <1>1, <2>1, AppendKeeps DEF Call, Goto, TypeInv, TypeOK, Where
  <2>3. ASSUME NEW d \in Caller, pc'[d] = "chained"
        PROVE  \E i \in 1 .. Len(ChainOf(d)') : ChainOf(d)'[i] = d
    <3>1. CASE d = c
      <4>1. ChainOf(d)' = Append(ChainOf(c), c)
        BY <2>1, <3>1 DEF ChainOf, TypeInv, TypeOK
      <4> QED
        BY <2>1, <3>1, <4>1, AppendKeeps
    <3>2. CASE d # c
      <4>1. PICK i \in 1 .. Len(ChainOf(d)) : ChainOf(d)[i] = d
        BY <1>1, <2>3, <3>2 DEF Call, Goto, TypeInv, TypeOK, QueueInv
      <4>2. CASE ProcOf[d] = ProcOf[c]
        <5>1. ChainOf(d)' = Append(ChainOf(c), c) /\ ChainOf(d) = ChainOf(c)
          BY <2>1, <4>2 DEF ChainOf, TypeInv, TypeOK
        <5> QED
          BY <2>1, <4>1, <5>1, AppendKeeps
      <4>3. CASE ProcOf[d] # ProcOf[c]
        BY <1>0, <2>1, <4>1, <4>3 DEF ChainOf, TypeInv, TypeOK
      <4> QED
        BY <4>2, <4>3
    <3> QED
      BY <3>1, <3>2
  <2>4. ASSUME NEW d \in Caller, pc'[d] \in Active
        PROVE  ChainOf(d)' # <<>> /\ Head(ChainOf(d)') = d
    <3>1. ChainOf(d) # <<>> /\ Head(ChainOf(d)) = d
      BY <1>1, <2>4 DEF Call, Goto, TypeInv, TypeOK, QueueInv, Active
    <3>2. CASE ProcOf[d] = ProcOf[c]
      <4>1. ChainOf(d)' = Append(ChainOf(c), c) /\ ChainOf(d) = ChainOf(c)
        BY <2>1, <3>2 DEF ChainOf, TypeInv, TypeOK
      <4> QED
        BY <2>1, <3>1, <4>1, AppendKeeps
    <3>3. CASE ProcOf[d] # ProcOf[c]
      BY <1>0, <2>1, <3>1, <3>3 DEF ChainOf, TypeInv, TypeOK
    <3> QED
      BY <3>2, <3>3
  <2> QED
    BY <2>2, <2>3, <2>4 DEF TypeInv, QueueInv
<1>2. ASSUME NEW c \in Caller, Start(c)
      PROVE  TypeInv'
  <2>1. pc' = [pc EXCEPT ![c] = "mkdir"] /\ UNCHANGED <<chain, dir, dead>>
    BY <1>2 DEF Start, Goto
  <2>2. ChainOf(c) # <<>> /\ Head(ChainOf(c)) = c
    BY <1>0, <1>2 DEF Start, At, ChainOf, TypeInv, TypeOK, QueueInv
  <2> QED
    BY <2>1, <2>2 DEF TypeInv, TypeOK, QueueInv, Where, Active, ChainOf
<1>3. ASSUME NEW c \in Caller, Mkdir(c)
      PROVE  TypeInv'
  <2>1. /\ pc[c] \in Active /\ chain' = chain /\ dead' = dead
        /\ \E l \in Active : Goto(c, l)
    BY <1>3 DEF Mkdir, At, Active
  <2>2. [made |-> TRUE, info |-> None, owner |-> c] \in Dir
    BY DEF Dir
  <2>3. dir' \in Dir
    BY <1>0, <1>3, <2>2 DEF Mkdir
  <2> QED
    BY <1>0, <2>1, <2>3, MoveKeepsQueue DEF TypeInv, TypeOK
<1>4. ASSUME NEW c \in Caller, WriteInfo(c)
      PROVE  TypeInv'
  <2>1. pc[c] \in Active /\ dead' = dead /\ dir' \in Dir
    BY <1>0, <1>4 DEF WriteInfo, At, Active, Dir
  <2>2. CASE Goto(c, "critical") /\ UNCHANGED chain
    BY <1>0, <2>1, <2>2, MoveKeepsQueue DEF TypeInv, TypeOK, Active
  <2>3. CASE Finish(c, "failed")
    BY <1>0, <2>1, <2>3, FinishKeepsQueue DEF TypeInv, TypeOK, Final
  <2> QED
    BY <1>4, <2>2, <2>3 DEF WriteInfo
<1>5. ASSUME NEW c \in Caller, Look(c) \/ Bust(c) \/ Wake(c)
      PROVE  TypeInv'
  <2>1. /\ pc[c] \in Active /\ chain' = chain /\ dead' = dead /\ dir' \in Dir
        /\ \E l \in Active : Goto(c, l)
    BY <1>0, <1>5 DEF Look, Bust, Wake, At, Active
  <2> QED
    BY <1>0, <2>1, MoveKeepsQueue DEF TypeInv, TypeOK
<1>6. ASSUME NEW c \in Caller, TimeOut(c) \/ Release(c)
      PROVE  TypeInv'
  <2>1. /\ pc[c] \in Active /\ dead' = dead /\ dir' \in Dir
        /\ \E l \in Final : Finish(c, l)
    BY <1>0, <1>6 DEF TimeOut, Release, At, Active, Final
  <2> QED
    BY <1>0, <2>1, FinishKeepsQueue DEF TypeInv, TypeOK
<1>7. ASSUME NEW p \in Proc, Crash(p)
      PROVE  TypeInv'
  <2>1. TypeOK'
    BY <1>0, <1>7 DEF Crash, TypeInv, TypeOK, Where, Final
  <2>2. \A d \in Caller : pc'[d] \in Active \cup {"chained"} =>
          pc'[d] = pc[d] /\ ProcOf[d] # p /\ ChainOf(d)' = ChainOf(d)
    BY <1>0, <1>7 DEF Crash, TypeInv, TypeOK, Active, Final, ChainOf
  <2> QED
    BY <2>1, <2>2 DEF TypeInv, QueueInv
<1>8. CASE UNCHANGED lockVars
  BY <1>8 DEF lockVars, TypeInv, TypeOK, QueueInv, ChainOf
<1> QED
  BY <1>1, <1>2, <1>3, <1>4, <1>5, <1>6, <1>7, <1>8 DEF Next, Acquire

LEMMA TypeInvariance == Spec => []TypeInv
BY FileLockAssumption, TypeInit, TypeStep, PTL DEF Spec

(* Every reachable state has the types of TypeOK, for any processes, any of   *)
(* which may be killed.                                                       *)
THEOREM Typing == Spec => []TypeOK
<1>1. TypeInv => TypeOK
  BY DEF TypeInv
<1> QED
  BY <1>1, TypeInvariance, PTL

----------------------------------------------------------------------------
(* Whoever may be killed would leave at most one process behind: either none  *)
(* is killed, however many there are, or there are two.                       *)
OneSurvivor == \A r \in Crashable : \A a, b \in Proc \ {r} : a = b

(* A lock is busted only after a kill, then by the one caller that the last   *)
(* process has past its chain; so the directory stays with the caller that    *)
(* made it until that one releases it or is killed.                           *)
OwnerInv ==
  /\ dead \subseteq Crashable
  /\ \A c \in Caller : ProcOf[c] \in dead => pc[c] \in Final
  /\ \A c \in Caller : pc[c] = "bust" => dead # {}
  /\ \A c \in Caller : pc[c] \in {"info", "critical"} => dir.made /\ dir.owner = c

(* After a kill nobody but the caller that busts is past its chain. *)
LEMMA BusterIsAlone ==
  ASSUME OneSurvivor, TypeInv, OwnerInv, dead # {},
         NEW c \in Caller, NEW d \in Caller, pc[c] \in Active, pc[d] \in Active
  PROVE  c = d
<1>1. PICK r \in dead : r \in Crashable
  BY DEF OwnerInv
<1>2. ProcOf[c] \in Proc \ {r} /\ ProcOf[d] \in Proc \ {r}
  BY <1>1, FileLockAssumption DEF OwnerInv, Active, Final
<1>3. ProcOf[c] = ProcOf[d]
  BY <1>1, <1>2 DEF OneSurvivor
<1>4. Head(ChainOf(c)) = c /\ Head(ChainOf(d)) = d
  BY DEF TypeInv, QueueInv
<1> QED
  BY <1>3, <1>4 DEF ChainOf

LEMMA OwnerStep ==
  ASSUME OneSurvivor, ~Suspend, TypeInv, OwnerInv, [Next]_lockVars
  PROVE  OwnerInv'
<1> USE DEF TypeInv, TypeOK, OwnerInv, Dir, NoDir, Goto, At, Alive, Finish
<1>1. ASSUME NEW c \in Caller, Call(c) \/ Start(c) \/ Wake(c) \/ TimeOut(c)
      PROVE  OwnerInv'
  BY <1>1 DEF Call, Start, Wake, TimeOut, Final
<1>2. ASSUME NEW c \in Caller, Mkdir(c)
      PROVE  OwnerInv'
  <2>1. CASE dir.made
    BY <1>2, <2>1 DEF Mkdir, Final
  <2>2. CASE ~dir.made
    <3>1. dir'.made /\ dir'.owner = c /\ \A d \in Caller : pc[d] \notin {"info", "critical"}
      BY <1>2, <2>2 DEF Mkdir
    <3>2. pc' = [pc EXCEPT ![c] = "info"] /\ dead' = dead /\ ProcOf[c] \notin dead
      BY <1>2, <2>2 DEF Mkdir
    <3> QED
      BY <3>1, <3>2 DEF Final
  <2> QED
    BY <2>1, <2>2
<1>3. ASSUME NEW c \in Caller, WriteInfo(c)
      PROVE  OwnerInv'
  BY <1>3, ZenonT(40) DEF WriteInfo, Final
<1>4. ASSUME NEW c \in Caller, Look(c)
      PROVE  OwnerInv'
  BY <1>4 DEF Look, Stale, Final
<1>5. ASSUME NEW c \in Caller, Bust(c)
      PROVE  OwnerInv'
  <2>1. pc[c] = "bust" /\ dead # {}
    BY <1>5 DEF Bust
  <2>2. \A d \in Caller : pc[d] \in Active => d = c
    BY <2>1, BusterIsAlone DEF Active
  <2> QED
    BY <1>5, <2>1, <2>2 DEF Bust, Active, Final
<1>6. ASSUME NEW c \in Caller, Release(c)
      PROVE  OwnerInv'
  BY <1>6 DEF Release, Final
<1>7. ASSUME NEW p \in Proc, Crash(p)
      PROVE  OwnerInv'
  <2>1. /\ dead' = dead \cup {p} /\ p \in Crashable /\ dir' = dir
        /\ \A c \in Caller : pc'[c] = IF ProcOf[c] = p /\ pc[c] \notin Final
                                       THEN "killed" ELSE pc[c]
    BY <1>7 DEF Crash
  <2> QED
    BY <2>1 DEF Final
<1>8. CASE UNCHANGED lockVars
  BY <1>8 DEF lockVars
<1> QED
  BY <1>1, <1>2, <1>3, <1>4, <1>5, <1>6, <1>7, <1>8 DEF Next, Acquire

LEMMA Ownership ==
  ASSUME OneSurvivor, ~Suspend
  PROVE  Spec => []OwnerInv
<1>1. LockInit => OwnerInv
  BY DEF LockInit, OwnerInv
<1>2. TypeInv /\ OwnerInv /\ [Next]_lockVars => OwnerInv'
  BY OwnerStep
<1> QED
  BY <1>1, <1>2, TypeInvariance, PTL DEF Spec

(* As long as no process is suspended, and whoever is killed leaves at most   *)
(* one behind, a caller that runs its function owns the lock directory, and   *)
(* no other caller runs.  With two left behind both may bust (lock_bust).     *)
THEOREM Exclusion ==
  ASSUME OneSurvivor, ~Suspend
  PROVE  Spec => [](HolderOwnsDir /\ Mutex)
<1>1. OwnerInv => HolderOwnsDir /\ Mutex
  BY DEF OwnerInv, HolderOwnsDir, Mutex
<1> QED
  BY <1>1, Ownership, PTL

-----------------------------------------------------------------------------
(* the config file *)

(* a read is followed by its write, under the same lock or in a quiet         *)
(* start-up, unless the process is killed in between                          *)
FreshInv ==
  /\ disk.form = "none" => disk.view = Template.view
  /\ \A p \in Proc : Merging(p) => copy[p].view = disk.view
  /\ \A p \in Proc, c \in Caller : Merging(p) => ~Updating(c)
  /\ \A c \in Caller : Updating(c) => copy[c] = disk
  /\ \A c \in Caller : step[c] = "read" => pc[c] \in {"critical", "killed"}
  /\ \A c \in Caller : step[c] \in {"written", "lost"} => pc[c] \in {"critical", "done", "killed"}

Undisturbed == OneSurvivor /\ ~Suspend /\ ~Overlap

Inv == TypeOK /\ OwnerInv /\ ConfigTypeOK /\ FreshInv

----------------------------------------------------------------------
(* The composition moves the lock as FileLock does. *)
LEMMA LockStep == [NextConfig]_vars => [Next]_lockVars
<1> SUFFICES ASSUME [NextConfig]_vars
             PROVE  [Next]_lockVars
  OBVIOUS
<1>1. ASSUME NEW p \in Proc, BootRead(p) \/ BootWrite(p) \/ Kill(p)
      PROVE  [Next]_lockVars
  BY <1>1 DEF BootRead, BootWrite, Kill, Next
<1>2. ASSUME NEW c \in Caller, Update(c)
      PROVE  [Next]_lockVars
  BY <1>2 DEF Update, Lock, Read, Write, WriteFails, Unlock, Next
<1>3. CASE UNCHANGED vars
  BY <1>3 DEF vars
<1> QED
  BY <1>1, <1>2, <1>3 DEF NextConfig

LEMMA ConfigImpliesLock == ConfigSpec => Spec
<1>1. Init => LockInit
  BY DEF Init
<1> QED
  BY <1>1, LockStep, PTL DEF ConfigSpec, Spec

----------------------------------------------------------------------------
(* What an update makes of a file; one that is missing is taken for the       *)
(* template.                                                                  *)
LEMMA UpdatedView ==
  ASSUME NEW d \in File, d.form = "none" => d.view = Template.view, NEW f \in Field
  PROVE  /\ Updated(d, f).form # "none"
         /\ Updated(d, f).view = [d.view EXCEPT ![f] = Flip(d.view[f])]
         /\ Updated(d, f).view[f] = Flip(d.view[f])
<1>1. Base(d).view = d.view /\ Base(d).form # "none"
  BY DEF Base, Template
<1>2. d.view \in [Field -> View]
  BY DEF File
<1> QED
  BY <1>1, <1>2 DEF Updated

(* An update of a file of any form is a file. *)
LEMMA UpdatedType ==
  ASSUME NEW d \in File, NEW f \in Field
  PROVE  Updated(d, f) \in File
<1>1. Base(d) \in File
  BY DEF Base, Template, File, View
<1> QED
  BY <1>1 DEF File, View, Flip, Updated

(* Only c moves in a step of the lock towards c's critical section. *)
LEMMA AcquireMoves ==
  ASSUME TypeOK, NEW c \in Caller, Acquire(c)
  PROVE  /\ pc[c] \notin {"critical"} \cup Final /\ dead' = dead
         /\ \A d \in Caller : d # c => pc'[d] = pc[d]
  BY DEF TypeOK, Acquire, Call, Start, Mkdir, WriteInfo, Look, Bust, Wake, TimeOut,
         At, Goto, Finish, Final

(* A kill ends the calls of its process that have not ended, and no others. *)
LEMMA KillMoves ==
  ASSUME TypeOK, NEW p \in Proc, Kill(p)
  PROVE  /\ dead' = dead \cup {p} /\ UNCHANGED <<disk, copy, step, boot>>
         /\ \A c \in Caller : pc'[c] = IF ProcOf[c] = p /\ pc[c] \notin Final
                                       THEN "killed" ELSE pc[c]
         /\ \A c \in Caller : Updating(c)' => Updating(c)
         /\ \A r \in Proc : Merging(r)' => Merging(r)
<1>1. /\ dead' = dead \cup {p} /\ UNCHANGED <<disk, copy, step, boot>>
      /\ \A c \in Caller : pc'[c] = IF ProcOf[c] = p /\ pc[c] \notin Final
                                    THEN "killed" ELSE pc[c]
  BY DEF Kill, Crash, configVars
<1> QED
  BY <1>1 DEF Updating, Merging, At, Alive

----------------------------------------------------------------------------
(* the types, whoever is killed or suspended, and whatever overlaps *)

LEMMA InitTypes == Init => ConfigTypeOK
<1>1. Template \in File
  BY DEF Template, File, View
<1> QED
  BY <1>1 DEF Init, ConfigTypeOK

LEMMA StepTypes == TypeOK /\ ConfigTypeOK /\ [NextConfig]_vars => ConfigTypeOK'
<1> SUFFICES ASSUME TypeOK, ConfigTypeOK, [NextConfig]_vars
             PROVE  ConfigTypeOK'
  OBVIOUS
<1>1. ASSUME NEW p \in Proc, BootRead(p)
      PROVE  ConfigTypeOK'
  BY <1>1 DEF BootRead, ConfigTypeOK
<1>2. ASSUME NEW p \in Proc, BootWrite(p)
      PROVE  ConfigTypeOK'
  <2>1. copy[p] \in File
    BY DEF ConfigTypeOK
  <2>2. disk' \in File
    BY <1>2, <2>1 DEF BootWrite, File, ConfigTypeOK
  <2> QED
    BY <1>2, <2>2 DEF BootWrite, ConfigTypeOK
<1>3. ASSUME NEW c \in Caller, Read(c) \/ WriteFails(c)
      PROVE  ConfigTypeOK'
  BY <1>3 DEF Read, WriteFails, ConfigTypeOK
<1>4. ASSUME NEW c \in Caller, Write(c)
      PROVE  ConfigTypeOK'
  <2>1. copy[c] \in File /\ FieldOf[c] \in Field
    BY ConfigStoreAssumption DEF ConfigTypeOK
  <2> QED
    BY <1>4, <2>1, UpdatedType DEF Write, ConfigTypeOK
<1>5. ASSUME UNCHANGED configVars
      PROVE  ConfigTypeOK'
  BY <1>5 DEF configVars, ConfigTypeOK
<1> QED
  BY <1>1, <1>2, <1>3, <1>4, <1>5 DEF NextConfig, Update, Lock, Unlock, Kill, vars

(* The file is always one that some process wrote as a whole, with a view for *)
(* every provider, and so is what anyone has read of it; with kills, suspends *)
(* and start-ups at any time.                                                 *)
THEOREM ConfigTyping == ConfigSpec => []ConfigTypeOK
BY InitTypes, StepTypes, Typing, ConfigImpliesLock, PTL DEF ConfigSpec

----------------------------------------------------------------------------
(* what nothing disturbs *)

LEMMA InitInv == Init => FreshInv
BY DEF Init, FreshInv, Merging, Updating

(* An update that has read the file is alone with it until it has written. *)
LEMMA StepInv ==
  ASSUME Undisturbed, Inv, ConfigTypeOK', [NextConfig]_vars
  PROVE  FreshInv'
<1> USE DEF Inv
<1>0. ASSUME NEW c \in Caller
      PROVE  FieldOf[c] \in Field /\ c \in Caller \cup Proc
  BY ConfigStoreAssumption
<1>1. ASSUME NEW p \in Proc, BootRead(p)
      PROVE  FreshInv'
  <2>1. \A c \in Caller : copy'[c] = copy[c]
    BY <1>1, ConfigStoreAssumption DEF BootRead, ConfigTypeOK
  <2>2. \A c \in Caller : ~Updating(c)
    BY <1>1 DEF BootRead, Undisturbed
  <2>3. copy'[p] = disk
    BY <1>1 DEF BootRead, ConfigTypeOK
  <2>4. \A r \in Proc : r # p => copy'[r] = copy[r] /\ boot'[r] = boot[r]
    BY <1>1 DEF BootRead, ConfigTypeOK
  <2>5. disk' = disk /\ step' = step /\ pc' = pc /\ dead' = dead
    BY <1>1 DEF BootRead, lockVars
  <2>6. \A r \in Proc : Merging(r)' => copy'[r].view = disk'.view
    BY <2>3, <2>4, <2>5 DEF FreshInv, Merging
  <2>7. \A c \in Caller : ~Updating(c)'
    BY <2>2, <2>5 DEF Updating, At, Alive
  <2> QED
    BY <2>5, <2>6, <2>7 DEF FreshInv
<1>2. ASSUME NEW p \in Proc, BootWrite(p)
      PROVE  FreshInv'
  <2>1. Merging(p) /\ copy[p].view = disk.view /\ copy[p] \in File
    BY <1>2 DEF BootWrite, FreshInv, ConfigTypeOK
  <2>2. /\ disk'.view = disk.view
        /\ disk'.form = "none" => disk.form = "none"
    BY <1>2, <2>1 DEF BootWrite, File, ConfigTypeOK
  <2>3. /\ \A r \in Proc : Merging(r)' => Merging(r)
        /\ copy' = copy /\ step' = step /\ pc' = pc /\ dead' = dead
    BY <1>2 DEF BootWrite, Merging, ConfigTypeOK, lockVars
  <2>4. \A c \in Caller : ~Updating(c)'
    BY <2>1, <2>3 DEF FreshInv, Updating, At, Alive
  <2> QED
    BY <2>2, <2>3, <2>4 DEF FreshInv
<1>3. ASSUME NEW p \in Proc, Kill(p)
      PROVE  FreshInv'
  BY <1>3, KillMoves DEF FreshInv, Final
<1>4. ASSUME NEW c \in Caller, Lock(c)
      PROVE  FreshInv'
  <2>1. /\ pc[c] \notin {"critical"} \cup Final /\ dead' = dead
        /\ \A d \in Caller : d # c => pc'[d] = pc[d]
        /\ UNCHANGED <<disk, copy, step, boot>>
    BY <1>4, AcquireMoves DEF Lock, configVars
  <2>2. step[c] \notin {"read", "written", "lost"}
    BY <2>1 DEF FreshInv, Final
  <2>3. /\ \A d \in Caller : Updating(d)' => Updating(d)
        /\ \A p \in Proc : Merging(p)' = Merging(p)
    BY <2>1, <2>2 DEF Updating, Merging, At, Alive
  <2> QED
    BY <2>1, <2>2, <2>3 DEF FreshInv
<1>5. ASSUME NEW c \in Caller, Read(c)
      PROVE  FreshInv'
  <2>1. /\ copy'[c] = disk /\ disk' = disk /\ boot' = boot
        /\ pc' = pc /\ dead' = dead /\ pc[c] = "critical"
    BY <1>0, <1>5 DEF Read, At, lockVars, ConfigTypeOK
  <2>2. \A p \in Proc : ~Merging(p)
    BY <1>5 DEF Read, Undisturbed
  <2>3. \A p \in Proc : ~Merging(p)'
    BY <2>1, <2>2 DEF Merging
  <2>4. \A d \in Caller : d # c => step'[d] = step[d] /\ copy'[d] = copy[d]
    BY <1>0, <1>5 DEF Read, ConfigTypeOK
  <2>5. step'[c] = "read"
    BY <1>5 DEF Read, ConfigTypeOK
  <2>6. \A d \in Caller : Updating(d)' => d = c \/ Updating(d)
    BY <2>1, <2>4 DEF Updating, At, Alive
  <2> QED
    BY <2>1, <2>3, <2>4, <2>5, <2>6 DEF FreshInv
<1>6. ASSUME NEW c \in Caller, Write(c)
      PROVE  FreshInv'
  <2>0. At(c, "critical") /\ step[c] = "read"
    BY <1>6 DEF Write, Updating
  <2>1. copy[c] = disk /\ copy[c] \in File
    BY <1>0, <1>6 DEF Write, ConfigTypeOK, FreshInv
  <2>2. disk'.form # "none"
    BY <1>0, <1>6, <2>1, UpdatedView DEF Write, FreshInv
  <2>3. \A d \in Caller : ~Updating(d)'
    BY <1>6, <2>0 DEF Write, Updating, At, lockVars, ConfigTypeOK, OwnerInv
  <2>4. \A d \in Caller : step'[d] \in {"written", "lost"} => pc'[d] \in {"critical", "done", "killed"}
    BY <1>6, <2>0 DEF Write, At, lockVars, ConfigTypeOK, FreshInv
  <2>5. \A p \in Proc : ~Merging(p)'
    BY <1>6 DEF Write, Merging, FreshInv, lockVars
  <2>6. \A d \in Caller : step'[d] = "read" => pc'[d] \in {"critical", "killed"}
    BY <1>6 DEF Write, lockVars, ConfigTypeOK, FreshInv
  <2> QED
    BY <2>2, <2>3, <2>4, <2>5, <2>6 DEF FreshInv
<1>7. ASSUME NEW c \in Caller, WriteFails(c)
      PROVE  FreshInv'
  <2>1. /\ \A d \in Caller : Updating(d)' => Updating(d)
        /\ \A p \in Proc : Merging(p)' = Merging(p)
    BY <1>7 DEF WriteFails, Updating, Merging, At, Alive, lockVars, ConfigTypeOK
  <2> QED
    BY <1>7, <2>1 DEF WriteFails, Updating, At, lockVars, ConfigTypeOK, FreshInv
<1>8. ASSUME NEW c \in Caller, Unlock(c)
      PROVE  FreshInv'
  <2>1. /\ step[c] \in {"written", "lost"} /\ pc'[c] = "done" /\ dead' = dead
        /\ \A d \in Caller : d # c => pc'[d] = pc[d]
        /\ UNCHANGED <<disk, copy, step, boot>>
    BY <1>8 DEF Unlock, Release, Finish, Goto, configVars, TypeOK
  <2>2. /\ \A d \in Caller : Updating(d)' => Updating(d)
        /\ \A p \in Proc : Merging(p)' = Merging(p)
    BY <2>1 DEF Updating, Merging, At, Alive
  <2> QED
    BY <2>1, <2>2 DEF FreshInv
<1>9. CASE UNCHANGED vars
  BY <1>9 DEF vars, lockVars, configVars, FreshInv, Updating, Merging, At, Alive
<1> QED
  BY <1>1, <1>2, <1>3, <1>4, <1>5, <1>6, <1>7, <1>8, <1>9 DEF NextConfig, Update

LEMMA Invariance ==
  ASSUME Undisturbed
  PROVE  ConfigSpec => []Inv
<1>0. OneSurvivor /\ ~Suspend
  BY DEF Undisturbed
<1>1. Spec => []OwnerInv
  BY <1>0, Ownership
<1>2. TypeOK /\ OwnerInv /\ ConfigTypeOK /\ ConfigTypeOK' /\ FreshInv /\ [NextConfig]_vars
        => FreshInv'
  BY StepInv DEF Inv
<1> QED
  BY <1>1, <1>2, InitInv, ConfigTyping, Typing, ConfigImpliesLock, PTL DEF ConfigSpec, Inv

(* Between an update's read and its write nobody changes the file, if nothing *)
(* disturbs the lock and no start-up falls in between.                        *)
THEOREM ReadsStayFresh ==
  ASSUME Undisturbed
  PROVE  ConfigSpec => []ReadIsFresh
<1>1. Inv => ReadIsFresh
  BY DEF Inv, FreshInv, ReadIsFresh
<1> QED
  BY <1>1, Invariance, PTL

----------------------------------------------------------------------------
(* Each step of the processes is a toggle, one that is lost, a drop or        *)
(* nothing to the file and what the callers were told.                        *)
LEMMA StepAtomic ==
  ASSUME Undisturbed, Inv, [NextConfig]_vars
  PROVE  [Atomic!Next]_(Atomic!vars)
<1> USE DEF Inv
<1>0. ASSUME NEW c \in Caller
      PROVE  FieldOf[c] \in Field /\ c \in Caller \cup Proc
  BY ConfigStoreAssumption
<1> DEFINE Same == disk'.view = disk.view /\ \A c \in Caller : Told(c)' = Told(c)
           Dropped(C) == /\ disk'.view = disk.view
                         /\ \A c \in C : Told(c) = "pending" /\ Told(c)' = "dropped"
                         /\ \A c \in Caller \ C : Told(c)' = Told(c)
           Answered(c) == /\ Told(c) = "pending" /\ Told(c)' = Flip(disk.view[FieldOf[c]])
                          /\ \A d \in Caller : d # c => Told(d)' = Told(d)
<1>a. ASSUME Same
      PROVE  [Atomic!Next]_(Atomic!vars)
  BY <1>a DEF Atomic!vars
<1>b. ASSUME NEW C \in SUBSET Caller, Dropped(C)
      PROVE  [Atomic!Next]_(Atomic!vars)
  <2>1. Atomic!Drop(C)
    BY <1>b DEF Atomic!Drop
  <2> QED
    BY <2>1 DEF Atomic!Next
<1> HIDE DEF Same, Dropped, Answered
<1>1. ASSUME NEW p \in Proc, BootRead(p)
      PROVE  Same
  <2>1. \A c \in Caller : copy'[c] = copy[c]
    BY <1>1, ConfigStoreAssumption DEF BootRead, ConfigTypeOK
  <2> QED
    BY <1>1, <2>1 DEF BootRead, Same, Told, lockVars
<1>2. ASSUME NEW p \in Proc, BootWrite(p)
      PROVE  Same
  <2>1. copy[p].view = disk.view /\ copy[p] \in File
    BY <1>2 DEF BootWrite, FreshInv, ConfigTypeOK
  <2>2. disk'.view = disk.view
    BY <1>2, <2>1 DEF BootWrite, File
  <2> QED
    BY <1>2, <2>2 DEF BootWrite, Same, Told, lockVars
<1>2a. ASSUME NEW p \in Proc, Kill(p)
      PROVE  Dropped({c \in Caller : /\ ProcOf[c] = p /\ pc[c] \notin Final
                                     /\ step[c] \notin {"written", "lost"}})
  BY <1>2a, KillMoves DEF Dropped, Told, Final
<1>3. ASSUME NEW c \in Caller, Lock(c)
      PROVE  Same \/ Dropped({c})
  <2>1. \A d \in Caller : d # c => Told(d)' = Told(d)
    BY <1>3, AcquireMoves DEF Lock, configVars, Told
  <2>2. step[c] = "none" /\ pc[c] \notin Final
    BY <1>3, AcquireMoves DEF Lock, ConfigTypeOK, FreshInv, Acquire, Call, Start, Mkdir,
      WriteInfo, Look, Bust, Wake, TimeOut, At, Final
  <2>3. Told(c) = "pending" /\ Told(c)' \in {"pending", "dropped"}
    BY <1>3, <2>2 DEF Lock, configVars, Told, Final
  <2> QED
    BY <1>3, <2>1, <2>3 DEF Lock, configVars, Same, Dropped
<1>4. ASSUME NEW c \in Caller, Read(c)
      PROVE  Same
  BY <1>0, <1>4 DEF Read, At, Same, Told, lockVars, ConfigTypeOK
<1>c. ASSUME NEW c \in Caller, Updating(c), UNCHANGED <<lockVars, copy, boot>>,
             \E s \in {"written", "lost"} : step' = [step EXCEPT ![c] = s]
      PROVE  /\ Answered(c) /\ copy[c] = disk /\ disk \in File /\ FieldOf[c] \in Field
             /\ disk.form = "none" => disk.view = Template.view
  <2>0. At(c, "critical") /\ step[c] = "read" /\ step'[c] \in {"written", "lost"}
    BY <1>c DEF Updating, ConfigTypeOK
  <2>1. /\ copy[c] = disk /\ disk \in File /\ FieldOf[c] \in Field
        /\ disk.form = "none" => disk.view = Template.view
    BY <1>0, <1>c DEF ConfigTypeOK, FreshInv
  <2>2. Updated(copy[c], FieldOf[c]).view[FieldOf[c]] = Flip(disk.view[FieldOf[c]])
    BY <2>1, UpdatedView
  <2>3. Told(c) = "pending"
    BY <2>0 DEF At, Told
  <2>4. copy'[c] = copy[c]
    BY <1>c
  <2>5. Told(c)' = Updated(copy[c], FieldOf[c]).view[FieldOf[c]]
    BY <2>0, <2>4 DEF Told
  <2>6. \A d \in Caller : d # c => Told(d)' = Told(d)
    BY <1>c DEF Told, lockVars, ConfigTypeOK
  <2> QED
    BY <2>1, <2>2, <2>3, <2>5, <2>6 DEF Answered
<1>5. ASSUME NEW c \in Caller, Write(c)
      PROVE  Atomic!Toggle(c)
  <2>1. /\ Answered(c) /\ copy[c] = disk /\ disk \in File /\ FieldOf[c] \in Field
        /\ disk.form = "none" => disk.view = Template.view
    BY <1>5, <1>c DEF Write
  <2>2. disk'.view = [disk.view EXCEPT ![FieldOf[c]] = Flip(disk.view[FieldOf[c]])]
    BY <1>5, <2>1, UpdatedView DEF Write
  <2> QED
    BY <2>1, <2>2 DEF Answered, Atomic!Toggle, Atomic!Flip, Flip
<1>6. ASSUME NEW c \in Caller, WriteFails(c)
      PROVE  Atomic!Lose(c)
  <2>1. Answered(c) /\ disk' = disk
    BY <1>6, <1>c DEF WriteFails
  <2> QED
    BY <2>1 DEF Answered, Atomic!Lose, Atomic!Flip, Flip
<1>7. ASSUME NEW c \in Caller, Unlock(c)
      PROVE  Same
  BY <1>7 DEF Unlock, Release, Finish, Goto, At, configVars, Same, Told, TypeOK
<1>8. ASSUME UNCHANGED vars
      PROVE  Same
  BY <1>8 DEF vars, lockVars, configVars, Same, Told
<1> QED
  BY <1>a, <1>b, <1>1, <1>2, <1>2a, <1>3, <1>4, <1>5, <1>6, <1>7, <1>8
    DEF NextConfig, Update, Atomic!Next

(* The processes' updates take effect one at a time: none is undone by one    *)
(* that read the file before it, and each caller is told the view its update  *)
(* has stored, or would have stored had the write not failed.                 *)
THEOREM Refinement ==
  ASSUME Undisturbed
  PROVE  ConfigSpec => UpdatesAreAtomic
<1>1. Init => Atomic!Init
  BY DEF Init, LockInit, Atomic!Init, Told, File
<1>2. Inv /\ [NextConfig]_vars => [Atomic!Next]_(Atomic!vars)
  BY StepAtomic
<1> QED
  BY <1>1, <1>2, Invariance, PTL DEF ConfigSpec, UpdatesAreAtomic, Atomic!Spec
============================================================================
