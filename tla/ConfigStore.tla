---------------------------- MODULE ConfigStore ----------------------------
(* The config file ~/.pi/free.json under the processes that share it          *)
(* (config.ts): each process merges the template into the file when it loads  *)
(* the module, without the lock, and its later updates read, change and write *)
(* the file inside withFileLock.  The updates are the calls of                *)
(* toggleModelViewOverride, the update that depends most on what it has read. *)
(* Reading and writing are steps of their own: other processes run between    *)
(* them.  A write is tmp file + rename, so it happens as a whole or not at    *)
(* all.  A file that is missing and one that does not parse are the same      *)
(* here; the backup made of the latter is left out.                           *)
EXTENDS FileLock

CONSTANTS Field,        \* providers with a view in the file
          FieldOf,      \* caller -> the provider it toggles
          Legacy,       \* providers with a "<id>_show_paid" template key
          InitForm,     \* forms the file may have at first
          Overlap       \* a start-up may overlap another process's update

ASSUME ConfigStoreAssumption ==
  /\ Caller \cap Proc = {}
  /\ FieldOf \in [Caller -> Field]
  /\ Legacy \subseteq Field
  /\ InitForm \subseteq {"none", "lacking", "full"}
  /\ Overlap \in BOOLEAN

VARIABLES disk,         \* the file
          copy,         \* caller or starting process -> what it has read
          step,         \* caller -> how far its update is
          boot          \* process -> how far ensureConfigFile is
configVars == <<disk, copy, step, boot>>
vars == <<lockVars, configVars>>

View == {"free", "all"}
(* bug: a name that no reader of the file knows *)
FlipPaid(v) == IF v = "free" THEN "paid" ELSE "free"
Flip(v) == IF v = "free" THEN "all" ELSE "free"

(* "lacking": some key of the template is missing from the file *)
File == [form : {"none", "lacking", "full"}, view : [Field -> View]]
Template == [form |-> "full", view |-> [f \in Field |-> "free"]]

Init ==
  /\ LockInit
  /\ disk \in {d \in File : d.form \in InitForm /\ (d.form = "none" => d.view = Template.view)}
  /\ copy = [x \in Caller \cup Proc |-> Template]
  /\ step = [c \in Caller |-> "none"]
  /\ boot = [p \in Proc |-> "off"]

----------------------------------------------------------------------------
(* ensureConfigFile, on loading the module.  Nothing in the code keeps it     *)
(* apart from an update of another process: without Overlap the schedule does *)

Merging(p) == boot[p] = "merge" /\ p \notin dead
Updating(c) == At(c, "critical") /\ step[c] = "read"

BootRead(p) ==
  /\ boot[p] = "off" /\ p \notin dead
  /\ Overlap \/ \A c \in Caller : ~Updating(c)
  /\ copy' = [copy EXCEPT ![p] = disk]
  /\ boot' = [boot EXCEPT ![p] = IF disk.form = "full" THEN "up" ELSE "merge"]
  /\ UNCHANGED <<lockVars, disk, step>>

(* { ...CONFIG_TEMPLATE, ...existing }; a failing write is logged *)
BootWrite(p) ==
  /\ Merging(p)
  /\ boot' = [boot EXCEPT ![p] = "up"]
  /\ disk' = [copy[p] EXCEPT !.form = "full"] \/ UNCHANGED disk
  /\ UNCHANGED <<lockVars, copy, step>>

----------------------------------------------------------------------------
(* updateConfig *)

Lock(c) ==
  /\ boot[ProcOf[c]] = "up"
  /\ Acquire(c)
  /\ UNCHANGED configVars

(* bug: the updater sees the config as it was when the call was made *)
ReadMemo(c) ==
  /\ boot[ProcOf[c]] = "up"
  /\ step[c] = "none" /\ pc[c] = "chained" /\ Alive(c)
  /\ copy' = [copy EXCEPT ![c] = disk]
  /\ step' = [step EXCEPT ![c] = "read"]
  /\ UNCHANGED <<lockVars, disk, boot>>

Read(c) ==
  /\ At(c, "critical") /\ step[c] = "none"
  /\ Overlap \/ \A p \in Proc : ~Merging(p)
  /\ copy' = [copy EXCEPT ![c] = disk]
  /\ step' = [step EXCEPT ![c] = "read"]
  /\ UNCHANGED <<lockVars, disk, boot>>

Base(d) == IF d.form = "none" THEN Template ELSE d

(* the updater flips what it was given and erases the legacy key *)
Updated(d, f) ==
  [form |-> IF f \in Legacy THEN "lacking" ELSE Base(d).form,
   view |-> [Base(d).view EXCEPT ![f] = Flip(@)]]

Write(c) ==
  /\ Updating(c)
  /\ disk' = Updated(copy[c], FieldOf[c])
  /\ step' = [step EXCEPT ![c] = "written"]
  /\ UNCHANGED <<lockVars, copy, boot>>

(* the write throws; updateConfig logs it and returns as usual, and so its     *)
(* caller returns the view that it meant to store                             *)
WriteFails(c) ==
  /\ Updating(c)
  /\ step' = [step EXCEPT ![c] = "lost"]
  /\ UNCHANGED <<lockVars, disk, copy, boot>>

Unlock(c) ==
  /\ step[c] \in {"written", "lost"}
  /\ Release(c)
  /\ UNCHANGED configVars

Kill(p) == Crash(p) /\ UNCHANGED configVars

Update(c) == Lock(c) \/ Read(c) \/ Write(c) \/ WriteFails(c) \/ Unlock(c)

NextConfig ==
  \/ \E p \in Proc : BootRead(p) \/ BootWrite(p) \/ Kill(p)
  \/ \E c \in Caller : Update(c)

ConfigSpec == Init /\ [][NextConfig]_vars

----------------------------------------------------------------------------
(* Types of the file and of what has been read of it. *)
ConfigTypeOK ==
  /\ disk \in File
  /\ copy \in [Caller \cup Proc -> File]
  /\ step \in [Caller -> {"none", "read", "written", "lost"}]
  /\ boot \in [Proc -> {"off", "merge", "up"}]

(* Whoever is about to write the file has read it as it is: nobody else's     *)
(* change is in between.                                                      *)
ReadIsFresh == \A c \in Caller : Updating(c) => copy[c] = disk

(* what the caller is told: `applied`, which the updater has set before the   *)
(* write, whatever became of that; the call is dropped if it never got there  *)
Told(c) ==
  CASE step[c] \in {"written", "lost"} -> Updated(copy[c], FieldOf[c]).view[FieldOf[c]]
    [] step[c] \notin {"written", "lost"} /\ pc[c] \in {"failed", "killed"} -> "dropped"
    [] OTHER -> "pending"

Atomic == INSTANCE ConfigAtomic
            WITH file <- disk.view, told <- [c \in Caller |-> Told(c)],
                 InitViews <- [Field -> View]

(* The processes' updates take effect one at a time, none of them undoing     *)
(* another, and each caller learns the view that its update has stored, or    *)
(* would have stored had the write not failed.                                *)
UpdatesAreAtomic == Atomic!Spec
============================================================================
