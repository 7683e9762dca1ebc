----------------------------- MODULE ConfigMemo -----------------------------
(* loadConfigFile of config.ts: the parsed config is kept with the mtime that *)
(* the file had, and parsed again when the mtime differs.  A load is a stat   *)
(* and, without a hit, a read; other processes write in between.  A version   *)
(* number stands for the content; a file that is gone is a version too, which *)
(* is read as the empty config and never kept.  A file that does not parse is *)
(* treated like one that is gone.                                             *)
EXTENDS Integers

CONSTANTS FineClock,    \* every write gets an mtime of its own
          MaxVersion    \* bound on the versions

VARIABLES file,         \* there, version and mtime
          now,          \* the clock that mtimes are taken from
          memo,         \* cachedConfig with cachedConfigMtime
          load,         \* the load underway
          got           \* what the last load returned, and the version at its start
vars == <<file, now, memo, load, got>>

NoMemo == [version |-> -1, mtime |-> -1]
NoLoad == [on |-> FALSE, mtime |-> -1, floor |-> 0]

Init ==
  /\ file = [there |-> TRUE, version |-> 0, mtime |-> 0] /\ now = 0
  /\ memo = NoMemo /\ load = NoLoad
  /\ got = [version |-> 0, floor |-> 0]

(* a write through any process, or the file's removal; the rename gives the   *)
(* file the mtime of the tmp file                                             *)
Change ==
  /\ file.version < MaxVersion
  /\ now' = now + 1 \/ (~FineClock /\ now' = now)
  /\ \E there \in BOOLEAN :
       file' = [there |-> there, version |-> file.version + 1, mtime |-> now']
  /\ UNCHANGED <<memo, load, got>>

Hit == file.there /\ memo.version >= 0 /\ memo.mtime = file.mtime

Stat ==
  /\ ~load.on
  /\ \/ /\ Hit
        /\ got' = [version |-> memo.version, floor |-> file.version]
        /\ UNCHANGED <<memo, load>>
     \/ /\ ~Hit
        /\ load' = [on |-> TRUE, mtime |-> IF file.there THEN file.mtime ELSE -1,
                    floor |-> file.version]
        /\ memo' = IF file.there THEN memo ELSE [memo EXCEPT !.version = -1]
        /\ UNCHANGED got
  /\ UNCHANGED <<file, now>>

(* bug: an age is kept in place of the mtime *)
KeptAge == load.mtime - file.mtime
KeptMtime == load.mtime

(* bug: the last good config is returned when the read fails *)
ReadKeepsMemo ==
  /\ load.on
  /\ memo' = IF file.there THEN [version |-> file.version, mtime |-> KeptMtime] ELSE memo
  /\ got' = [version |-> IF file.there \/ memo.version < 0 THEN file.version ELSE memo.version,
             floor |-> load.floor]
  /\ load' = NoLoad
  /\ UNCHANGED <<file, now>>

Read ==
  /\ load.on
  /\ memo' = IF file.there THEN [version |-> file.version, mtime |-> KeptMtime] ELSE NoMemo
  /\ got' = [version |-> file.version, floor |-> load.floor]
  /\ load' = NoLoad
  /\ UNCHANGED <<file, now>>

Next == Change \/ Stat \/ Read

Spec == Init /\ [][Next]_vars

----------------------------------------------------------------------------
(* Types of the file, the memo and the load. *)
TypeOK ==
  /\ file \in [there : BOOLEAN, version : Nat, mtime : Nat] /\ now \in Nat
  /\ memo \in [version : Nat \cup {-1}, mtime : Nat \cup {-1}]
  /\ load \in [on : BOOLEAN, mtime : Nat \cup {-1}, floor : Nat]
  /\ got \in [version : Nat, floor : Nat]

(* A load returns the file as it was when the load began, or newer, whatever  *)
(* other processes write between the stat and the read.                       *)
LoadIsFresh == got.version >= got.floor
============================================================================
