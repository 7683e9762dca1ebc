--------------------------- MODULE CatalogProofs ---------------------------
(* Proofs about the catalogs, for any providers, models, captures, commands,  *)
(* probes and sessions: the views that commands choose, the catalogs that are *)
(* probed, the capture of a built-in catalog and the restore of a saved model.*)
EXTENDS MCCatalogs, Integers, TLAPS

----------------------------------------------------------------------------
(* The views.  An update or a continuation still to come may change what a    *)
(* provider should show, so that ViewsAgree is kept by no step on its own: a  *)
(* provider that does not show its view has a continuation due that registers *)
(* it anew, and the file has the flag, or the last save in the queue does.    *)
Refits(work, id) == work.kind \in {"clear", "hide"} \/ (work.kind = "toggle" /\ work.id = id)
ShownInv ==
  \A id \in Provider :
    \/ shown[id] = Views!Visible(file, id, globalFreeOnly)
    \/ \E i \in DOMAIN continued : Refits(continued[i], id)

LastSave(i) ==
  /\ i \in DOMAIN queue /\ queue[i].kind = "save"
  /\ \A j \in DOMAIN queue : queue[j].kind = "save" => j <= i
FlagInv ==
  ~failed => \/ /\ \A i \in DOMAIN queue : queue[i].kind # "save"
                /\ file.free = globalFreeOnly
             \/ \E i \in DOMAIN queue : LastSave(i) /\ queue[i].free = globalFreeOnly

ViewInv == Views!TypeOK /\ ShownInv /\ FlagInv

File == [free : BOOLEAN, hidden : SUBSET Provider,
         override : [Provider -> {"none", "free", "all"}],
         legacy : [Provider -> {"none", "true", "false"}]]

LEMMA VisibleType ==
  ASSUME NEW d \in File, NEW id \in Provider, NEW f \in BOOLEAN
  PROVE  Views!Visible(d, id, f) \in {"hidden", "free", "all"}
BY DEF File, Views!Visible, Views!Resolve

LEMMA WriteKinds ==
  ASSUME NEW w \in Views!ConfigWrite
  PROVE  /\ w.kind \in {"clear", "save", "toggle", "hide"}
         /\ w.kind \in {"clear", "save"} => w.free \in BOOLEAN
         /\ w.kind \in {"toggle", "hide"} => w.id \in Provider
BY DEF Views!ConfigWrite

(* An update of the file changes the view of no provider but those that its   *)
(* continuation registers anew, and the saved flag only if it is a save.      *)
LEMMA PatchedFile ==
  ASSUME NEW d \in File, NEW w \in Views!ConfigWrite
  PROVE  /\ Views!Patched(d, w) \in File
         /\ w.kind # "save" => Views!Patched(d, w).free = d.free
         /\ w.kind = "save" => Views!Patched(d, w).free = w.free
         /\ \A id \in Provider, f \in BOOLEAN :
              ~Refits(w, id) => Views!Visible(Views!Patched(d, w), id, f) = Views!Visible(d, id, f)
<1>1. CASE w.kind = "clear"
  <2>1. Views!Patched(d, w) = [d EXCEPT !.override = Views!Untouched, !.legacy = Views!Untouched]
    BY <1>1 DEF Views!Patched
  <2>2. /\ Views!Untouched \in [Provider -> {"none", "free", "all"}]
        /\ Views!Untouched \in [Provider -> {"none", "true", "false"}]
    BY DEF Views!Untouched
  <2>3. Views!Patched(d, w) \in File /\ Views!Patched(d, w).free = d.free
    BY <2>1, <2>2 DEF File
  <2> QED
    BY <1>1, <2>3 DEF Refits
<1>2. CASE w.kind = "save"
  <2>1. Views!Patched(d, w) = [d EXCEPT !.free = w.free] /\ w.free \in BOOLEAN
    BY <1>2, WriteKinds DEF Views!Patched
  <2> QED
    BY <1>2, <2>1 DEF File, Views!Visible, Views!Resolve
<1>3. CASE w.kind = "hide"
  <2>1. Views!Patched(d, w) = [d EXCEPT !.hidden = IF w.hidden THEN d.hidden \cup {w.id}
                                                              ELSE d.hidden \ {w.id}]
    BY <1>3 DEF Views!Patched, File
  <2> QED
    BY <1>3, <2>1, WriteKinds DEF File, Refits
<1>4. CASE w.kind = "toggle"
  <2> DEFINE v == Views!Flip(Views!Resolve(d, w.id, d.free))
  <2>1. Views!Patched(d, w) = [d EXCEPT !.override = [d.override EXCEPT ![w.id] = v],
                                        !.legacy = [d.legacy EXCEPT ![w.id] = "none"]]
    BY <1>4 DEF Views!Patched, File
  <2>2. v \in {"free", "all"} /\ w.id \in Provider
    BY <1>4, WriteKinds DEF Views!Flip
  <2> HIDE DEF v
  <2>3. ASSUME NEW id \in Provider, NEW f \in BOOLEAN, id # w.id
        PROVE  Views!Visible(Views!Patched(d, w), id, f) = Views!Visible(d, id, f)
    <3>1. /\ Views!Patched(d, w).override[id] = d.override[id]
          /\ Views!Patched(d, w).legacy[id] = d.legacy[id]
          /\ Views!Patched(d, w).hidden = d.hidden
      BY <2>1, <2>3 DEF File
    <3> QED
      BY <3>1 DEF Views!Visible, Views!Resolve
  <2>4. Views!Patched(d, w) \in File /\ Views!Patched(d, w).free = d.free
    <3>1. /\ [d.override EXCEPT ![w.id] = v] \in [Provider -> {"none", "free", "all"}]
          /\ [d.legacy EXCEPT ![w.id] = "none"] \in [Provider -> {"none", "true", "false"}]
      BY <2>2 DEF File
    <3> QED
      BY <2>1, <3>1 DEF File
  <2> QED
    BY <1>4, <2>3, <2>4 DEF Refits
<1> QED
  BY <1>1, <1>2, <1>3, <1>4, WriteKinds

LEMMA ViewInit == Views!Init => ViewInv
<1> SUFFICES ASSUME Views!Init PROVE ViewInv
  OBVIOUS
<1>1. PICK f \in BOOLEAN :
        /\ file = [free |-> f, override |-> Views!Untouched, legacy |-> Views!Template, hidden |-> {}]
        /\ globalFreeOnly = f
        /\ shown = [id \in Provider |-> Views!Visible(file, id, f)]
  BY DEF Views!Init
<1>2. file \in File
  BY <1>1 DEF File, Views!Untouched, Views!Template
<1>3. queue = <<>> /\ continued = <<>>
  BY DEF Views!Init
<1> QED
  BY <1>1, <1>2, <1>3, VisibleType DEF ViewInv, Views!TypeOK, File, ShownInv, FlagInv

(* An update at the end of the queue that is no save, or a save of the flag. *)
LEMMA Queued ==
  ASSUME ViewInv, NEW w \in Views!ConfigWrite, NEW f \in BOOLEAN,
         queue' = Append(queue, w), file' = file, failed' = failed, globalFreeOnly' = f,
         \/ w.kind # "save" /\ f = globalFreeOnly
         \/ w.kind = "save" /\ w.free = f
  PROVE  queue' \in Seq(Views!ConfigWrite) /\ FlagInv'
<1>1. queue \in Seq(Views!ConfigWrite)
  BY DEF ViewInv, Views!TypeOK
<1>2. /\ queue' \in Seq(Views!ConfigWrite)
      /\ DOMAIN queue' = 1 .. Len(queue) + 1 /\ DOMAIN queue = 1 .. Len(queue)
      /\ \A i \in 1 .. Len(queue) : queue'[i] = queue[i]
      /\ queue'[Len(queue) + 1] = w /\ Len(queue) \in Nat
  BY <1>1
<1> SUFFICES ASSUME ~failed' PROVE FlagInv'
  BY <1>2 DEF FlagInv
<1>3. CASE w.kind = "save"
  <2>1. PICK n \in Nat : n = Len(queue) + 1
    BY <1>2
  <2>2. LastSave(n)' /\ n \in DOMAIN queue' /\ queue'[n] = w
    BY <1>2, <1>3, <2>1 DEF LastSave
  <2> QED
    BY <1>3, <2>2 DEF FlagInv
<1>4. CASE w.kind # "save"
  <2>1. CASE \A i \in DOMAIN queue : queue[i].kind # "save"
    BY <1>2, <1>4, <2>1 DEF FlagInv, ViewInv, LastSave
  <2>2. CASE \E i \in DOMAIN queue : queue[i].kind = "save"
    <3>1. PICK i \in DOMAIN queue : LastSave(i) /\ queue[i].free = globalFreeOnly
      BY <2>2 DEF ViewInv, FlagInv
    <3>2. LastSave(i)'
      BY <1>2, <1>4, <3>1 DEF LastSave
    <3> QED
      BY <1>2, <1>4, <3>1, <3>2 DEF FlagInv
  <2> QED
    BY <2>1, <2>2
<1> QED
  BY <1>3, <1>4

LEMMA CommandKeeps ==
  ASSUME ViewInv, Views!Issued, NEW w \in Views!ConfigWrite, w.kind # "save",
         queue' = Append(queue, w)
  PROVE  ViewInv'
<1>1. UNCHANGED <<file, globalFreeOnly, continued, shown, failed>>
  BY DEF Views!Issued
<1>2. globalFreeOnly \in BOOLEAN
  BY DEF ViewInv, Views!TypeOK
<1>3. queue' \in Seq(Views!ConfigWrite) /\ FlagInv'
  BY <1>1, <1>2, Queued
<1> QED
  BY <1>1, <1>3 DEF ViewInv, Views!TypeOK, ShownInv

LEMMA UpdateKeeps ==
  ASSUME ViewInv, Views!Update
  PROVE  ViewInv'
<1> DEFINE w == Head(queue)
<1>1. /\ queue \in Seq(Views!ConfigWrite) /\ queue # <<>> /\ file \in File
      /\ continued \in Seq(Views!ConfigWrite)
  BY DEF ViewInv, Views!TypeOK, Views!Update, File
<1>2. /\ w \in Views!ConfigWrite /\ w = queue[1] /\ queue' \in Seq(Views!ConfigWrite)
      /\ DOMAIN queue = 1 .. Len(queue) /\ Len(queue) \in Nat \ {0}
      /\ DOMAIN queue' = 1 .. Len(queue) - 1
      /\ \A i \in 1 .. Len(queue) - 1 : queue'[i] = queue[i + 1]
  BY <1>1 DEF Views!Update
<1>3. /\ globalFreeOnly' = globalFreeOnly /\ shown' = shown
      /\ globalFreeOnly \in BOOLEAN
      /\ continued' = IF w.kind = "save" THEN continued ELSE Append(continued, w)
      /\ (file' = Views!Patched(file, w) /\ failed' = failed) \/ (file' = file /\ failed' = TRUE)
  BY DEF Views!Update, ViewInv, Views!TypeOK
<1> HIDE DEF w
<1>4. file' \in File
  BY <1>1, <1>2, <1>3, PatchedFile
<1>5. /\ continued' \in Seq(Views!ConfigWrite)
      /\ \A i \in DOMAIN continued : i \in DOMAIN continued' /\ continued'[i] = continued[i]
      /\ w.kind # "save" => \E i \in DOMAIN continued' : continued'[i] = w
  <2>1. CASE w.kind = "save"
    BY <1>1, <1>3, <2>1
  <2>2. CASE w.kind # "save"
    <3>1. continued' = Append(continued, w)
      BY <1>3, <2>2
    <3>2. /\ Len(continued) + 1 \in DOMAIN continued' /\ continued'[Len(continued) + 1] = w
          /\ continued' \in Seq(Views!ConfigWrite)
          /\ \A i \in DOMAIN continued : i \in DOMAIN continued' /\ continued'[i] = continued[i]
      BY <1>1, <1>2, <3>1
    <3> QED
      BY <3>2
  <2> QED
    BY <2>1, <2>2
<1>6. Views!TypeOK'
  BY <1>2, <1>3, <1>4, <1>5 DEF ViewInv, Views!TypeOK, File
<1>7. ShownInv'
  <2> SUFFICES ASSUME NEW id \in Provider
               PROVE  \/ shown'[id] = Views!Visible(file', id, globalFreeOnly')
                      \/ \E i \in DOMAIN continued' : Refits(continued'[i], id)
    BY DEF ShownInv
  <2>1. CASE Refits(w, id)
    BY <1>2, <1>5, <2>1, WriteKinds DEF Refits
  <2>2. CASE ~Refits(w, id)
    <3>1. Views!Visible(file', id, globalFreeOnly) = Views!Visible(file, id, globalFreeOnly)
      BY <1>1, <1>2, <1>3, <2>2, PatchedFile
    <3> QED
      BY <1>3, <1>5, <3>1 DEF ViewInv, ShownInv
  <2> QED
    BY <2>1, <2>2
<1>8. FlagInv'
  <2> SUFFICES ASSUME ~failed' PROVE FlagInv'
    BY DEF FlagInv
  <2>1. ~failed /\ file' = Views!Patched(file, w)
    BY <1>3
  <2>2. CASE \A i \in DOMAIN queue : queue[i].kind # "save"
    <3>0. w.kind # "save" /\ \A i : ~LastSave(i)
      BY <1>2, <2>2 DEF LastSave
    <3>1. file'.free = file.free /\ file.free = globalFreeOnly
      BY <1>1, <1>2, <2>1, <3>0, PatchedFile DEF ViewInv, FlagInv
    <3>2. \A i \in DOMAIN queue' : queue'[i].kind # "save"
      BY <1>2, <2>2
    <3> QED
      BY <1>3, <3>1, <3>2 DEF FlagInv
  <2>3. CASE ~\A i \in DOMAIN queue : queue[i].kind # "save"
    <3>1. PICK i \in DOMAIN queue : LastSave(i) /\ queue[i].free = globalFreeOnly
      BY <2>1, <2>3 DEF ViewInv, FlagInv
    <3>2. CASE i = 1
      <4>1. file'.free = globalFreeOnly
        BY <1>1, <1>2, <2>1, <3>1, <3>2, PatchedFile DEF LastSave
      <4>2. \A j \in DOMAIN queue' : queue'[j].kind # "save"
        BY <1>2, <3>1, <3>2 DEF LastSave
      <4> QED
        BY <1>3, <4>1, <4>2 DEF FlagInv
    <3>3. CASE i # 1
      <4>1. i - 1 \in DOMAIN queue' /\ queue'[i - 1] = queue[i]
        BY <1>2, <3>1, <3>3
      <4>2. LastSave(i - 1)'
        BY <1>2, <3>1, <4>1 DEF LastSave
      <4> QED
        BY <1>3, <3>1, <4>1, <4>2 DEF FlagInv
    <3> QED
      BY <3>2, <3>3
  <2> QED
    BY <2>2, <2>3
<1> QED
  BY <1>6, <1>7, <1>8 DEF ViewInv

LEMMA ResumeKeeps ==
  ASSUME ViewInv, Views!Resume
  PROVE  ViewInv'
<1> DEFINE w == Head(continued)
<1>1. /\ continued \in Seq(Views!ConfigWrite) /\ continued # <<>> /\ file \in File
      /\ queue \in Seq(Views!ConfigWrite) /\ globalFreeOnly \in BOOLEAN
  BY DEF ViewInv, Views!TypeOK, Views!Resume, File
<1>2. /\ w \in Views!ConfigWrite /\ w = continued[1] /\ continued' \in Seq(Views!ConfigWrite)
      /\ DOMAIN continued = 1 .. Len(continued) /\ Len(continued) \in Nat \ {0}
      /\ DOMAIN continued' = 1 .. Len(continued) - 1
      /\ \A i \in 1 .. Len(continued) - 1 : continued'[i] = continued[i + 1]
  BY <1>1 DEF Views!Resume
<1>3. /\ file' = file /\ failed' = failed
      /\ \/ w.kind = "clear" /\ Views!ApplyGlobalFilter(w.free)
         \/ w.kind = "hide" /\ Views!ApplyGlobalFilter(globalFreeOnly)
         \/ /\ w.kind = "toggle"
            /\ shown' = [shown EXCEPT ![w.id] = Views!Visible(file, w.id, globalFreeOnly)]
            /\ UNCHANGED <<globalFreeOnly, queue>>
  BY DEF Views!Resume
<1> HIDE DEF w
<1>4. ASSUME NEW f \in BOOLEAN, Views!ApplyGlobalFilter(f)
      PROVE  ViewInv'
  <2> DEFINE save == [kind |-> "save", free |-> f]
  <2>1. /\ queue' = Append(queue, save) /\ globalFreeOnly' = f
        /\ shown' = [id \in Provider |-> Views!Visible(file, id, f)]
    BY <1>4 DEF Views!ApplyGlobalFilter, Views!RefilterAll
  <2>2. save \in Views!ConfigWrite /\ save.kind = "save" /\ save.free = f
    BY DEF Views!ConfigWrite
  <2> HIDE DEF save
  <2>3. queue' \in Seq(Views!ConfigWrite) /\ FlagInv'
    BY <1>3, <2>1, <2>2, Queued
  <2>4. shown' \in [Provider -> {"hidden", "free", "all"}]
    BY <1>1, <2>1, VisibleType
  <2>5. ShownInv'
    BY <1>3, <2>1 DEF ShownInv
  <2> QED
    BY <1>1, <1>2, <1>3, <2>1, <2>3, <2>4, <2>5 DEF ViewInv, Views!TypeOK, File
<1>5. CASE w.kind = "toggle"
  <2>1. /\ shown' = [shown EXCEPT ![w.id] = Views!Visible(file, w.id, globalFreeOnly)]
        /\ globalFreeOnly' = globalFreeOnly /\ queue' = queue
    BY <1>3, <1>5
  <2>2. shown \in [Provider -> {"hidden", "free", "all"}] /\ w.id \in Provider
    BY <1>2, <1>5, WriteKinds DEF ViewInv, Views!TypeOK
  <2>3. Views!TypeOK'
    BY <1>1, <1>2, <1>3, <2>1, <2>2, VisibleType DEF ViewInv, Views!TypeOK, File
  <2>4. ShownInv'
    <3> SUFFICES ASSUME NEW id \in Provider
                 PROVE  \/ shown'[id] = Views!Visible(file', id, globalFreeOnly')
                        \/ \E i \in DOMAIN continued' : Refits(continued'[i], id)
      BY DEF ShownInv
    <3>1. CASE id = w.id
      BY <1>3, <2>1, <2>2, <3>1
    <3>2. CASE id # w.id
      <4>1. shown'[id] = shown[id] /\ ~Refits(w, id)
        BY <1>5, <2>1, <2>2, <3>2 DEF Refits
      <4>2. CASE shown[id] = Views!Visible(file, id, globalFreeOnly)
        BY <1>3, <2>1, <4>1, <4>2
      <4>3. CASE \E i \in DOMAIN continued : Refits(continued[i], id)
        <5>1. PICK i \in DOMAIN continued : Refits(continued[i], id)
          BY <4>3
        <5>2. i # 1
          BY <1>2, <4>1, <5>1
        <5>3. i - 1 \in DOMAIN continued' /\ continued'[i - 1] = continued[i]
          BY <1>2, <5>1, <5>2
        <5> QED
          BY <5>1, <5>3
      <4> QED
        BY <4>2, <4>3 DEF ViewInv, ShownInv
    <3> QED
      BY <3>1, <3>2
  <2>5. FlagInv'
    BY <1>3, <2>1 DEF ViewInv, FlagInv, LastSave
  <2> QED
    BY <2>3, <2>4, <2>5 DEF ViewInv
<1>6. w.kind = "clear" => w.free \in BOOLEAN
  BY <1>2, WriteKinds
<1> QED
  BY <1>1, <1>3, <1>4, <1>5, <1>6

LEMMA RestartedViews ==
  ASSUME ViewInv, Views!Restart
  PROVE  /\ ViewInv'
         /\ \A id \in Provider : shown'[id] = Views!Visible(file', id, file.free)
         /\ file' \in File /\ file'.hidden = file.hidden /\ file'.override = file.override
         /\ \A id \in Provider :
              file'.legacy[id] = IF file.legacy[id] = "none" THEN Views!Template[id]
                                                             ELSE file.legacy[id]
<1> DEFINE merged == [id \in Provider |-> IF file.legacy[id] = "none" THEN Views!Template[id]
                                                                      ELSE file.legacy[id]]
<1>1. file \in File
  BY DEF ViewInv, Views!TypeOK, File
<1>2. file' = [file EXCEPT !.legacy = merged]
  BY <1>1 DEF Views!Restart, File
<1>3. merged \in [Provider -> {"none", "true", "false"}]
  BY <1>1 DEF File, Views!Template
<1> HIDE DEF merged
<1>4. /\ file' \in File /\ file'.hidden = file.hidden /\ file'.override = file.override
      /\ file'.legacy = merged /\ file'.free = file.free
  BY <1>1, <1>2, <1>3 DEF File
<1>5. /\ globalFreeOnly' = file.free /\ queue' = <<>> /\ continued' = <<>>
      /\ shown' = [id \in Provider |-> Views!Visible(file', id, file.free)]
      /\ file.free \in BOOLEAN
  BY <1>1 DEF Views!Restart, File
<1>6. shown' \in [Provider -> {"hidden", "free", "all"}]
  BY <1>4, <1>5, VisibleType
<1>7. Views!TypeOK'
  BY <1>4, <1>5, <1>6 DEF Views!TypeOK, File
<1>8. ShownInv' /\ FlagInv'
  BY <1>4, <1>5 DEF ShownInv, FlagInv
<1>9. \A id \in Provider :
        file'.legacy[id] = IF file.legacy[id] = "none" THEN Views!Template[id]
                                                       ELSE file.legacy[id]
  BY <1>4 DEF merged
<1> QED
  BY <1>4, <1>5, <1>7, <1>8, <1>9 DEF ViewInv

THEOREM ViewStep == ViewInv /\ [Views!Next]_(Views!vars) => ViewInv'
<1> SUFFICES ASSUME ViewInv, [Views!Next]_(Views!vars) PROVE ViewInv'
  OBVIOUS
<1>1. CASE UNCHANGED Views!vars
  BY <1>1 DEF Views!vars, ViewInv, Views!TypeOK, ShownInv, FlagInv, LastSave
<1>2. CASE Views!ToggleFree
  <2>1. [kind |-> "clear", free |-> ~globalFreeOnly] \in Views!ConfigWrite
    BY DEF Views!ConfigWrite, ViewInv, Views!TypeOK
  <2> QED
    BY <1>2, <2>1, CommandKeeps DEF Views!ToggleFree
<1>3. ASSUME NEW id \in Provider, Views!ToggleProvider(id) PROVE ViewInv'
  <2>1. [kind |-> "toggle", id |-> id] \in Views!ConfigWrite
    BY DEF Views!ConfigWrite
  <2> QED
    BY <1>3, <2>1, CommandKeeps DEF Views!ToggleProvider
<1>4. ASSUME NEW id \in Provider, NEW h \in BOOLEAN, Views!SetProviderVisibility(id, h)
      PROVE  ViewInv'
  <2>1. [kind |-> "hide", id |-> id, hidden |-> h] \in Views!ConfigWrite
    BY DEF Views!ConfigWrite
  <2> QED
    BY <1>4, <2>1, CommandKeeps DEF Views!SetProviderVisibility
<1> QED
  BY <1>1, <1>2, <1>3, <1>4, UpdateKeeps, ResumeKeeps, RestartedViews DEF Views!Next

LEMMA ViewsRun == [MCNext]_allVars => [Views!Next]_(Views!vars)
BY DEF MCNext, allVars, viewVars, Views!vars

LEMMA ViewInvHolds == MCSpec => []ViewInv
<1>1. MCInit => ViewInv
  BY ViewInit DEF MCInit
<1> QED
  BY <1>1, ViewStep, ViewsRun, PTL DEF MCSpec

(* Once all commands are through, every provider shows what its effective     *)
(* view and its hiding call for, and the file holds the flag in memory, for   *)
(* any number of providers and commands however they overlapped               *)
(* (registry.ts, applyGlobalFilter; config.ts, updateConfig).                 *)
THEOREM ViewsAgreeAtRest == MCSpec => []ViewsAgree
<1>1. ViewInv => ViewsAgree
  <2> SUFFICES ASSUME ViewInv PROVE ViewsAgree
    OBVIOUS
  <2>1. Views!ShownAtRest
    BY DEF ViewInv, ShownInv, Views!ShownAtRest, Views!AtRest
  <2>2. Views!FlagSavedAtRest
    BY DEF ViewInv, FlagInv, Views!FlagSavedAtRest, Views!AtRest
  <2> QED
    BY <2>1, <2>2 DEF ViewInv, ViewsAgree, Views!ViewsAgree
<1> QED
  BY <1>1, ViewInvHolds, PTL

(* At a restart with nothing underway every provider shows what it showed,    *)
(* but for a key that only the template gives back (ensureConfigFile).        *)
THEOREM RestartsKeepViews == MCSpec => RestartKeepsViews
<1>1. ASSUME ViewInv, Views!Restart, Views!AtRest, ~failed, NEW id \in Provider,
             shown'[id] # shown[id]
      PROVE  id \in DefaultsTrue /\ file.override[id] = "none" /\ file.legacy[id] = "none"
  <2>1. shown[id] = Views!Visible(file, id, globalFreeOnly) /\ file.free = globalFreeOnly
    BY <1>1 DEF ViewInv, ShownInv, FlagInv, Views!AtRest
  <2>2. /\ shown'[id] = Views!Visible(file', id, file.free)
        /\ file'.hidden = file.hidden /\ file'.override = file.override
        /\ file'.legacy[id] = IF file.legacy[id] = "none" THEN Views!Template[id]
                                                          ELSE file.legacy[id]
    BY <1>1, RestartedViews
  <2>3. Views!Resolve(file', id, file.free) # Views!Resolve(file, id, file.free)
    BY <1>1, <2>1, <2>2 DEF Views!Visible
  <2> QED
    BY <2>2, <2>3 DEF Views!Resolve, Views!Template
<1>2. ViewInv /\ [Views!Next]_(Views!vars) =>
        [Views!Restart /\ Views!AtRest /\ ~failed =>
           \A id \in Provider : shown'[id] # shown[id] =>
             id \in DefaultsTrue /\ file.override[id] = "none" /\ file.legacy[id] = "none"]_(Views!vars)
  BY <1>1
<1> QED
  BY <1>2, ViewInvHolds, ViewsRun, PTL DEF MCSpec, RestartKeepsViews, Views!RestartKeepsViews

----------------------------------------------------------------------------
(* The probed catalogs.  A list that is to be saved passed the guard against  *)
(* the cache of its time, a list that is to be published is not empty, and of *)
(* Ollama's tasks only Pi's refresh publishes.  KeepsHealthy alone says       *)
(* nothing of the lists that are still on their way.                          *)
Tasks == {"none", "refresh", "native", "probe", "start"}
Stages == {"batch", "record", "hide", "fetch", "save", "publish", "over"}
JobRecord == [task : Tasks, stage : Stages, todo : SUBSET Model, broken : SUBSET Model,
              ok : SUBSET Model, seen : SUBSET Model, was : SUBSET Model, list : SUBSET Model]
ProbeType ==
  /\ Probes!TypeOK /\ kind \in {"ollama", "gateway"}
  /\ job \in [Job -> JobRecord]
  /\ {jobs, edits, ticks, restarts} \subseteq Nat
Sound(r) ==
  /\ r.stage = "save" =>
       /\ r.list # {}
       /\ 2 * Probes!Cardinality(r.list) >= Probes!Cardinality(r.was)
  /\ r.stage = "publish" => r.list # {} /\ (kind = "ollama" => r.task = "native")
ListInv == \A j \in Job : Sound(job[j])
ProbeInv == ProbeType /\ ListInv

LEMMA BegunJob ==
  ASSUME ProbeType, NEW t \in Tasks, NEW s \in Stages, NEW todo \in SUBSET Model
  PROVE  /\ Probes!Begun(t, s, todo) \in JobRecord
         /\ Probes!Begun(t, s, todo).stage = s /\ Probes!Begun(t, s, todo).task = t
         /\ Probes!Begun(t, s, todo).todo = todo
BY DEF ProbeType, Probes!TypeOK, Probes!Begun, Probes!NoJob, JobRecord, Tasks, Stages

LEMMA NoJobSound == Probes!NoJob \in JobRecord /\ Sound(Probes!NoJob) /\ Probes!NoJob.stage = "over"
BY DEF Probes!NoJob, JobRecord, Sound, Tasks, Stages

LEMMA JobKept ==
  ASSUME ProbeInv, NEW j \in Job, NEW r \in JobRecord, Sound(r),
         job' = [job EXCEPT ![j] = r], kind' = kind
  PROVE  job' \in [Job -> JobRecord] /\ ListInv'
BY DEF ProbeInv, ProbeType, ListInv, Sound

(* a task begins; nothing else happens *)
LEMMA BeginKeeps ==
  ASSUME ProbeInv, NEW j \in Job, NEW r \in JobRecord, r.stage \in {"batch", "fetch"},
         Probes!Begin(j, r)
  PROVE  ProbeInv'
<1>1. /\ jobs' = jobs + 1 /\ job' = [job EXCEPT ![j] = r] /\ kind' = kind
      /\ UNCHANGED <<hidden, cache, all, free, captured, checked, edits, ticks, restarts>>
  BY DEF Probes!Begin
<1>2. job' \in [Job -> JobRecord] /\ ListInv'
  BY <1>1, JobKept DEF Sound
<1>3. Probes!TypeOK'
  BY <1>1, <1>2 DEF ProbeInv, ProbeType, Probes!TypeOK, JobRecord, Stages
<1> QED
  BY <1>1, <1>2, <1>3 DEF ProbeInv, ProbeType

(* a task goes on *)
LEMMA TaskKeeps ==
  ASSUME ProbeInv, NEW j \in Job, NEW r \in JobRecord, Sound(r), Probes!Keep(j, r),
         hidden' \in SUBSET Model, cache' \in SUBSET Model, all' \in SUBSET Model,
         free' \in SUBSET all', checked' \in [Model -> {"never", "ok", "stale", "broken"}]
  PROVE  ProbeInv'
<1>1. /\ job' = [job EXCEPT ![j] = r]
      /\ UNCHANGED <<kind, captured, autoDone, jobs, edits, ticks, restarts>>
  BY DEF Probes!Keep, Probes!bounds
<1>2. job' \in [Job -> JobRecord] /\ ListInv'
  BY <1>1, JobKept
<1>3. Probes!TypeOK'
  BY <1>1, <1>2 DEF ProbeInv, ProbeType, Probes!TypeOK, JobRecord, Stages
<1> QED
  BY <1>1, <1>2, <1>3 DEF ProbeInv, ProbeType

LEMMA ProbeTypes ==
  ASSUME ProbeInv
  PROVE  /\ hidden \in SUBSET Model /\ cache \in SUBSET Model /\ all \in SUBSET Model
         /\ free \in SUBSET all /\ captured \in SUBSET Model /\ job \in [Job -> JobRecord]
         /\ checked \in [Model -> {"never", "ok", "stale", "broken"}]
         /\ \A j \in Job : job[j] \in JobRecord /\ Sound(job[j])
BY DEF ProbeInv, ProbeType, ListInv, Probes!TypeOK

LEMMA BatchKeeps ==
  ASSUME ProbeInv, NEW j \in Job, Probes!Batch(j)
  PROVE  ProbeInv'
<1>2. job[j] \in JobRecord /\ job[j].todo \subseteq Model
  BY ProbeTypes DEF JobRecord
<1>1. PICK some \in SUBSET Model, broken \in SUBSET Model, ok \in SUBSET Model :
        Probes!Keep(j, [job[j] EXCEPT !.todo = @ \ some, !.broken = @ \cup broken, !.ok = @ \cup ok,
                                      !.stage = IF some = job[j].todo THEN "record" ELSE "batch"])
  BY <1>2 DEF Probes!Batch
<1> DEFINE next == IF some = job[j].todo THEN "record" ELSE "batch"
           r == [job[j] EXCEPT !.todo = @ \ some, !.broken = @ \cup broken, !.ok = @ \cup ok,
                               !.stage = next]
<1>3. next \in {"record", "batch"}
  OBVIOUS
<1> HIDE DEF next
<1>4. r \in JobRecord /\ r.stage = next
  BY <1>2, <1>3 DEF JobRecord, Stages
<1>5. Sound(r)
  BY <1>3, <1>4 DEF Sound
<1>6. Probes!Keep(j, r)
  BY <1>1 DEF next
<1> HIDE DEF r
<1>7. UNCHANGED <<hidden, cache, all, free, checked>>
  BY DEF Probes!Batch
<1> QED
  BY <1>4, <1>5, <1>6, <1>7, ProbeTypes, TaskKeeps

LEMMA RecordKeeps ==
  ASSUME ProbeInv, NEW j \in Job, Probes!Record(j)
  PROVE  ProbeInv'
<1>1. job[j] \in JobRecord
  BY ProbeTypes
<1> DEFINE r == [[job[j] EXCEPT !.stage = "hide"] EXCEPT !.ok = {}]
<1>2. r \in JobRecord /\ Sound(r)
  BY <1>1 DEF JobRecord, Stages, Sound
<1>3. Probes!Keep(j, Probes!NoJob) \/ Probes!Keep(j, r)
  BY DEF Probes!Record, Probes!Over, Probes!At
<1> HIDE DEF r
<1>4. checked' \in [Model -> {"never", "ok", "stale", "broken"}]
  BY ProbeTypes DEF Probes!Record
<1>5. UNCHANGED <<hidden, cache, all, free>>
  BY DEF Probes!Record
<1> QED
  BY <1>2, <1>3, <1>4, <1>5, ProbeTypes, TaskKeeps, NoJobSound

LEMMA HideKeeps ==
  ASSUME ProbeInv, NEW j \in Job, Probes!Hide(j)
  PROVE  ProbeInv'
<1>1. hidden' \in SUBSET Model
  BY ProbeTypes DEF Probes!Hide, Probes!HiddenAfter, JobRecord
<1> DEFINE r == Probes!Begun("probe", "fetch", {})
<1>2. r \in JobRecord /\ Sound(r)
  BY BegunJob DEF ProbeInv, Sound, Tasks, Stages
<1>3. Probes!Keep(j, r) \/ Probes!Keep(j, Probes!NoJob)
  BY DEF Probes!Hide, Probes!Over
<1> HIDE DEF r
<1>4. UNCHANGED <<cache, all, free, checked>>
  BY DEF Probes!Hide
<1> QED
  BY <1>1, <1>2, <1>3, <1>4, ProbeTypes, TaskKeeps, NoJobSound

LEMMA FetchKeeps ==
  ASSUME ProbeInv, NEW j \in Job, Probes!Fetch(j)
  PROVE  ProbeInv'
<1>1. PICK offered \in SUBSET Model, detailed \in SUBSET Model :
        LET list == Probes!Fetched(j, offered, detailed)
            ready == [Probes!NoJob EXCEPT !.task = job[j].task, !.list = list, !.was = cache]
        IN Probes!Keep(j, CASE Probes!MayApply(j, list) -> [ready EXCEPT !.stage = "save"]
                            [] ~Probes!MayApply(j, list) /\ job[j].task = "native" /\ list # {} ->
                                 [ready EXCEPT !.stage = "publish"]
                            [] OTHER -> Probes!Over(j))
  BY DEF Probes!Fetch
<1> DEFINE list == Probes!Fetched(j, offered, detailed)
           ready == [Probes!NoJob EXCEPT !.task = job[j].task, !.list = list, !.was = cache]
<1>2. list \in SUBSET Model /\ job[j] \in JobRecord
  BY ProbeTypes DEF Probes!Fetched
<1> HIDE DEF list
<1>3. /\ ready \in JobRecord /\ ready.list = list /\ ready.was = cache
      /\ ready.task = job[j].task
  BY <1>2, NoJobSound, ProbeTypes DEF JobRecord
<1> HIDE DEF ready
<1>4. UNCHANGED <<hidden, cache, all, free, checked>>
  BY DEF Probes!Fetch
<1>5. CASE Probes!MayApply(j, list)
  <2>1. Probes!Keep(j, [ready EXCEPT !.stage = "save"])
    BY <1>1, <1>5 DEF list, ready
  <2>2. [ready EXCEPT !.stage = "save"] \in JobRecord
    BY <1>3 DEF JobRecord, Stages
  <2>3. list # {} /\ 2 * Probes!Cardinality(list) >= Probes!Cardinality(cache)
    BY <1>5 DEF Probes!MayApply, Probes!Guarded
  <2>4. /\ [ready EXCEPT !.stage = "save"].list = list
        /\ [ready EXCEPT !.stage = "save"].was = cache
        /\ [ready EXCEPT !.stage = "save"].stage = "save"
    BY <1>3 DEF JobRecord
  <2>5. Sound([ready EXCEPT !.stage = "save"])
    BY <2>3, <2>4, Zenon DEF Sound
  <2> QED
    BY <1>4, <2>1, <2>2, <2>5, ProbeTypes, TaskKeeps
<1>6. CASE ~Probes!MayApply(j, list) /\ job[j].task = "native" /\ list # {}
  <2>1. Probes!Keep(j, [ready EXCEPT !.stage = "publish"])
    BY <1>1, <1>6 DEF list, ready
  <2>2. /\ [ready EXCEPT !.stage = "publish"] \in JobRecord
        /\ Sound([ready EXCEPT !.stage = "publish"])
    BY <1>3, <1>6 DEF JobRecord, Stages, Sound
  <2> QED
    BY <1>4, <2>1, <2>2, ProbeTypes, TaskKeeps
<1>7. CASE ~Probes!MayApply(j, list) /\ ~(job[j].task = "native" /\ list # {})
  <2>1. Probes!Keep(j, Probes!NoJob)
    BY <1>1, <1>7 DEF list, Probes!Over
  <2> QED
    BY <1>4, <2>1, NoJobSound, ProbeTypes, TaskKeeps
<1> QED
  BY <1>5, <1>6, <1>7

LEMMA ListKeeps ==
  ASSUME ProbeInv, NEW j \in Job,
         Probes!FetchFails(j) \/ Probes!GatewayFetch(j) \/ Probes!Save(j) \/ Probes!Publish(j)
  PROVE  ProbeInv'
<1>1. job[j] \in JobRecord /\ Sound(job[j]) /\ job[j].list \in SUBSET Model
  BY ProbeTypes DEF JobRecord
<1>2. CASE Probes!FetchFails(j)
  BY <1>2, ProbeTypes, TaskKeeps, NoJobSound DEF Probes!FetchFails, Probes!Over
<1>3. CASE Probes!GatewayFetch(j)
  <2>1. PICK offered \in (SUBSET Model) \ {{}} :
          Probes!Keep(j, [[job[j] EXCEPT !.stage = "publish"] EXCEPT !.list = offered])
    BY <1>3 DEF Probes!GatewayFetch, Probes!At
  <2> DEFINE r == [[job[j] EXCEPT !.stage = "publish"] EXCEPT !.list = offered]
  <2>2. kind = "gateway" /\ UNCHANGED <<hidden, cache, all, free, checked>>
    BY <1>3 DEF Probes!GatewayFetch
  <2>5. r \in JobRecord /\ r.stage = "publish" /\ r.list = offered
    BY <1>1 DEF JobRecord, Stages
  <2>4. Probes!Keep(j, r)
    BY <2>1
  <2> HIDE DEF r
  <2>3. Sound(r)
    BY <2>2, <2>5 DEF Sound
  <2> QED
    BY <2>2, <2>3, <2>4, <2>5, ProbeTypes, TaskKeeps
<1>4. CASE Probes!Save(j)
  <2> DEFINE r == [[job[j] EXCEPT !.stage = "publish"] EXCEPT !.was = {}]
  <2>1. /\ job[j].stage = "save" /\ cache' = job[j].list
        /\ UNCHANGED <<hidden, checked>>
        /\ \/ job[j].task = "native" /\ Probes!Keep(j, r) /\ UNCHANGED <<all, free>>
           \/ Probes!Keep(j, Probes!NoJob) /\ all' = job[j].list /\ free' = all'
    BY <1>4 DEF Probes!Save, Probes!At, Probes!Over
  <2>2. CASE job[j].task = "native" /\ Probes!Keep(j, r) /\ UNCHANGED <<all, free>>
    <3>1. r \in JobRecord /\ Sound(r)
      BY <1>1, <2>1, <2>2 DEF JobRecord, Stages, Sound
    <3> HIDE DEF r
    <3> QED
      BY <1>1, <2>1, <2>2, <3>1, ProbeTypes, TaskKeeps
  <2>3. CASE Probes!Keep(j, Probes!NoJob) /\ all' = job[j].list /\ free' = all'
    BY <1>1, <2>1, <2>3, ProbeTypes, TaskKeeps, NoJobSound
  <2> QED
    BY <2>1, <2>2, <2>3
<1>5. CASE Probes!Publish(j)
  <2>1. /\ all' = job[j].list /\ free' \in SUBSET all' /\ Probes!Keep(j, Probes!NoJob)
        /\ UNCHANGED <<hidden, cache, checked>>
    BY <1>5 DEF Probes!Publish, Probes!Classified, Probes!Over
  <2> QED
    BY <1>1, <2>1, ProbeTypes, TaskKeeps, NoJobSound
<1> QED
  BY <1>2, <1>3, <1>4, <1>5

LEMMA StartKeeps ==
  ASSUME ProbeInv, NEW j \in Job,
         \/ Probes!Refresh(j) \/ Probes!NativeRefresh(j)
         \/ Probes!ProbeCommand(j) \/ Probes!SessionStart(j)
  PROVE  ProbeInv'
<1>1. CASE Probes!Refresh(j)
  BY <1>1, BegunJob, BeginKeeps DEF Probes!Refresh, ProbeInv, Tasks, Stages
<1>2. CASE Probes!NativeRefresh(j)
  BY <1>2, BegunJob, BeginKeeps DEF Probes!NativeRefresh, ProbeInv, Tasks, Stages
<1>3. CASE Probes!ProbeCommand(j)
  BY <1>3, BegunJob, BeginKeeps, ProbeTypes DEF Probes!ProbeCommand, ProbeInv, Tasks, Stages
<1>4. CASE Probes!SessionStart(j)
  <2> DEFINE due == Probes!Due(Probes!StartModels)
  <2>1. due \in SUBSET Model
    BY ProbeTypes DEF Probes!Due, Probes!StartModels
  <2>2. CASE due = {}
    <3>1. UNCHANGED <<kind, hidden, cache, all, free, captured, checked, job, jobs, edits, ticks,
                      restarts>>
      BY <1>4, <2>2 DEF Probes!SessionStart, Probes!Begin, Probes!bounds
    <3> QED
      BY <3>1 DEF ProbeInv, ProbeType, Probes!TypeOK, ListInv, Sound
  <2>3. CASE due # {}
    BY <1>4, <2>1, <2>3, BegunJob, BeginKeeps DEF Probes!SessionStart, ProbeInv, Tasks, Stages
  <2> QED
    BY <2>2, <2>3
<1> QED
  BY <1>1, <1>2, <1>3, <1>4

LEMMA LoadedModels ==
  ASSUME NEW c \in SUBSET Model
  PROVE  Probes!Loaded(c) \in SUBSET Model
BY CatalogsAssumption DEF Probes!Loaded

LEMMA OutsideKeeps ==
  ASSUME ProbeInv, Probes!Unhide \/ Probes!Tick \/ Probes!Restart
  PROVE  ProbeInv'
<1>1. CASE Probes!Unhide
  BY <1>1 DEF Probes!Unhide, ProbeInv, ProbeType, Probes!TypeOK, ListInv, Sound
<1>2. CASE Probes!Tick
  <2>1. checked' \in [Model -> {"never", "ok", "stale", "broken"}]
    BY <1>2, ProbeTypes DEF Probes!Tick
  <2> QED
    BY <1>2, <2>1 DEF Probes!Tick, ProbeInv, ProbeType, Probes!TypeOK, ListInv, Sound
<1>3. CASE Probes!Restart
  <2>1. /\ all' \in SUBSET Model /\ free' = all' /\ captured' = free'
        /\ job' = [j \in Job |-> Probes!NoJob] /\ restarts' = restarts + 1
        /\ UNCHANGED <<kind, hidden, cache, checked, jobs, edits, ticks>>
    BY <1>3, ProbeTypes, LoadedModels DEF Probes!Restart
  <2> QED
    BY <2>1, NoJobSound DEF ProbeInv, ProbeType, Probes!TypeOK, ListInv, Sound
<1> QED
  BY <1>1, <1>2, <1>3

THEOREM ProbeStep == ProbeInv /\ [Probes!Next]_(Probes!vars) => ProbeInv'
<1>1. ProbeInv /\ UNCHANGED Probes!vars => ProbeInv'
  BY DEF Probes!vars, Probes!bounds, ProbeInv, ProbeType, Probes!TypeOK, ListInv, Sound
<1> QED
  BY <1>1, StartKeeps, BatchKeeps, RecordKeeps, HideKeeps, FetchKeeps, ListKeeps, OutsideKeeps
  DEF Probes!Next

LEMMA ProbesRun == [MCNext]_allVars => [Probes!Next]_(Probes!vars)
BY DEF MCNext, allVars, probeVars, Probes!vars, Probes!bounds

LEMMA ProbeInvHolds == MCSpec => []ProbeInv
<1>1. MCInit => ProbeInv
  <2> SUFFICES ASSUME MCInit PROVE ProbeInv
    OBVIOUS
  <2>1. Probes!Init
    BY DEF MCInit
  <2>2. all \in SUBSET Model /\ cache \in SUBSET Model
    BY <2>1, LoadedModels DEF Probes!Init
  <2>3. job \in [Job -> JobRecord] /\ ListInv
    BY <2>1, NoJobSound DEF Probes!Init, ListInv
  <2> QED
    BY <2>1, <2>2, <2>3, NoJobSound DEF Probes!Init, ProbeInv, ProbeType, Probes!TypeOK
<1> QED
  BY <1>1, ProbeStep, ProbesRun, PTL DEF MCSpec

(* what the three promises of ProbesSound say of a step *)
LEMMA HidesStep ==
  ASSUME ProbeInv, [Probes!Next]_(Probes!vars)
  PROVE  hidden \subseteq hidden' \/ edits' > edits
<1>1. CASE Probes!Unhide
  BY <1>1 DEF Probes!Unhide, ProbeInv, ProbeType
<1>2. CASE \E j \in Job : Probes!Hide(j)
  BY <1>2 DEF Probes!Hide, Probes!HiddenAfter
<1>3. CASE ~Probes!Unhide /\ ~\E j \in Job : Probes!Hide(j)
  <2>1. ASSUME NEW j \in Job,
               \/ Probes!Refresh(j) \/ Probes!NativeRefresh(j) \/ Probes!ProbeCommand(j)
               \/ Probes!SessionStart(j)
        PROVE  hidden' = hidden
    BY <2>1 DEF Probes!Refresh, Probes!NativeRefresh, Probes!ProbeCommand, Probes!SessionStart,
       Probes!Begin
  <2>2. ASSUME NEW j \in Job,
               \/ Probes!Batch(j) \/ Probes!Record(j) \/ Probes!Fetch(j) \/ Probes!FetchFails(j)
               \/ Probes!GatewayFetch(j) \/ Probes!Save(j) \/ Probes!Publish(j)
        PROVE  hidden' = hidden
    BY <2>2 DEF Probes!Batch, Probes!Record, Probes!Fetch, Probes!FetchFails,
       Probes!GatewayFetch, Probes!Save, Probes!Publish
  <2>3. Probes!Tick \/ Probes!Restart \/ UNCHANGED Probes!vars => hidden' = hidden
    BY DEF Probes!Tick, Probes!Restart, Probes!vars
  <2> QED
    BY <1>3, <2>1, <2>2, <2>3 DEF Probes!Next
<1> QED
  BY <1>1, <1>2, <1>3

(* only a start begins a task named for it *)
LEMMA BrokenStep ==
  ASSUME ProbeInv, [Probes!Next]_(Probes!vars), NEW j \in Job, kind = "ollama",
         job'[j].task = "start", job[j].stage = "over", job'[j].stage = "batch"
  PROVE  {m \in all \ hidden : checked[m] = "broken"} \subseteq job'[j].todo
<1>1. job \in [Job -> JobRecord] /\ Probes!NoJob.stage = "over"
  BY ProbeTypes, NoJobSound
<1>2. job'[j] # job[j]
  OBVIOUS
<1>3. CASE Probes!SessionStart(j)
  <2>2. Probes!Begin(j, Probes!Begun("start", "batch", Probes!Due(all)))
    BY <1>2, <1>3 DEF Probes!SessionStart, Probes!StartModels
  <2>3. job'[j].todo = Probes!Due(all)
    BY <1>1, <2>2 DEF Probes!Begin, Probes!Begun, Probes!NoJob
  <2> QED
    BY <2>3 DEF Probes!Due
<1>4. ASSUME NEW i \in Job, i # j,
             \/ Probes!Refresh(i) \/ Probes!NativeRefresh(i) \/ Probes!ProbeCommand(i)
             \/ Probes!SessionStart(i)
      PROVE  job'[j] = job[j]
  BY <1>1, <1>4 DEF Probes!Refresh, Probes!NativeRefresh, Probes!ProbeCommand,
     Probes!SessionStart, Probes!Begin
<1>5. ASSUME Probes!Refresh(j) \/ Probes!NativeRefresh(j) \/ Probes!ProbeCommand(j)
      PROVE  job'[j].task # "start"
  <2>1. PICK t \in {"refresh", "native", "probe"}, s \in Stages, todo \in SUBSET Model :
          job' = [job EXCEPT ![j] = Probes!Begun(t, s, todo)]
    BY <1>5, ProbeTypes DEF Probes!Refresh, Probes!NativeRefresh, Probes!ProbeCommand,
       Probes!Begin, Stages
  <2> QED
    BY <1>1, <2>1, BegunJob DEF ProbeInv, Tasks
<1>6. ASSUME NEW i \in Job,
             \/ Probes!Batch(i) \/ Probes!Record(i) \/ Probes!Hide(i) \/ Probes!Fetch(i)
             \/ Probes!FetchFails(i) \/ Probes!GatewayFetch(i) \/ Probes!Save(i)
             \/ Probes!Publish(i)
      PROVE  job'[j] = job[j]
  <2>1. job[i].stage # "over" /\ \E r : Probes!Keep(i, r)
    BY <1>6 DEF Probes!Batch, Probes!Record, Probes!Hide, Probes!Fetch, Probes!FetchFails,
       Probes!GatewayFetch, Probes!Save, Probes!Publish
  <2> QED
    BY <1>1, <2>1 DEF Probes!Keep
<1>7. Probes!Unhide \/ Probes!Tick \/ UNCHANGED Probes!vars => job' = job
  BY DEF Probes!Unhide, Probes!Tick, Probes!vars
<1>8. Probes!Restart => job'[j].stage = "over"
  BY <1>1 DEF Probes!Restart
<1> QED
  BY <1>2, <1>3, <1>4, <1>5, <1>6, <1>7, <1>8 DEF Probes!Next

LEMMA HealthyStep ==
  ASSUME ProbeInv, [Probes!Next]_(Probes!vars)
  PROVE  /\ cache' # cache =>
              /\ cache' # {}
              /\ \/ 2 * Probes!Cardinality(cache') >= Probes!Cardinality(cache)
                 \/ \E j \in Job : job[j].stage = "save" /\ job[j].list = cache' /\ job[j].was # cache
         /\ kind = "ollama" /\ all' # all /\ restarts' = restarts =>
              /\ all' # {}
              /\ all' = cache' \/ \E j \in Job : job[j].task = "native" /\ job[j].stage = "publish"
<1>1. ASSUME NEW j \in Job, Probes!Save(j)
      PROVE  /\ cache' # {}
             /\ \/ 2 * Probes!Cardinality(cache') >= Probes!Cardinality(cache)
                \/ job[j].stage = "save" /\ job[j].list = cache' /\ job[j].was # cache
             /\ all' = all \/ all' = cache'
  <2>1. /\ cache' = job[j].list /\ job[j].stage = "save" /\ Sound(job[j])
        /\ all' = all \/ all' = job[j].list
    BY <1>1, ProbeTypes DEF Probes!Save
  <2>2. cache' # {} /\ 2 * Probes!Cardinality(cache') >= Probes!Cardinality(job[j].was)
    BY <2>1, Zenon DEF Sound
  <2>3. CASE job[j].was = cache
    <3>1. 2 * Probes!Cardinality(cache') >= Probes!Cardinality(cache)
      BY <2>2, <2>3, Zenon
    <3> QED
      BY <2>1, <2>2, <3>1
  <2>4. CASE job[j].was # cache
    BY <2>1, <2>2, <2>4
  <2> QED
    BY <2>3, <2>4
<1>2. ASSUME NEW j \in Job, Probes!Publish(j)
      PROVE  /\ cache' = cache /\ all' # {} /\ job[j].stage = "publish"
             /\ kind = "ollama" => job[j].task = "native"
  BY <1>2, ProbeTypes DEF Probes!Publish, Sound
<1>3. ASSUME NEW j \in Job,
             \/ Probes!Refresh(j) \/ Probes!NativeRefresh(j) \/ Probes!ProbeCommand(j)
             \/ Probes!SessionStart(j)
      PROVE  cache' = cache /\ all' = all
  BY <1>3 DEF Probes!Refresh, Probes!NativeRefresh, Probes!ProbeCommand,
     Probes!SessionStart, Probes!Begin
<1>4. ASSUME NEW j \in Job,
             \/ Probes!Batch(j) \/ Probes!Record(j) \/ Probes!Hide(j) \/ Probes!Fetch(j)
             \/ Probes!FetchFails(j) \/ Probes!GatewayFetch(j)
      PROVE  cache' = cache /\ all' = all
  BY <1>4 DEF Probes!Batch, Probes!Record, Probes!Hide, Probes!Fetch, Probes!FetchFails,
     Probes!GatewayFetch
<1>5. Probes!Unhide \/ Probes!Tick \/ UNCHANGED Probes!vars => cache' = cache /\ all' = all
  BY DEF Probes!Unhide, Probes!Tick, Probes!vars
<1>6. Probes!Restart => cache' = cache /\ restarts' # restarts
  BY DEF Probes!Restart, ProbeInv, ProbeType
<1> QED
  BY <1>1, <1>2, <1>3, <1>4, <1>5, <1>6 DEF Probes!Next

(* Nothing but the user's edit shows again what a probe has hidden; a model   *)
(* found broken and not hidden is probed at the next start; and lists that    *)
(* shrank too much replace neither the cache nor, but for Pi's own refresh,   *)
(* the live list: for any models, batches and tasks underway                  *)
(* (saveProviderCacheGuarded, getModelsDueForProbe, hideModels).              *)
THEOREM ProbesAreSound == MCSpec => ProbesSound
<1>1. ProbeInv => Probes!TypeOK
  BY DEF ProbeInv, ProbeType
<1>2. ProbeInv /\ [Probes!Next]_(Probes!vars) =>
        [hidden \subseteq hidden' \/ edits' > edits]_(Probes!vars)
  BY HidesStep
<1>3. ProbeInv /\ [Probes!Next]_(Probes!vars) =>
        [\A j \in Job : kind = "ollama" /\ job'[j].task = "start" /\ job[j].stage = "over"
                          /\ job'[j].stage = "batch" =>
           {m \in all \ hidden : checked[m] = "broken"} \subseteq job'[j].todo]_(Probes!vars)
  BY BrokenStep
<1>4. ProbeInv /\ [Probes!Next]_(Probes!vars) =>
        [/\ cache' # cache =>
              /\ cache' # {}
              /\ \/ 2 * Probes!Cardinality(cache') >= Probes!Cardinality(cache)
                 \/ \E j \in Job : job[j].stage = "save" /\ job[j].list = cache' /\ job[j].was # cache
         /\ kind = "ollama" /\ all' # all /\ restarts' = restarts =>
              /\ all' # {}
              /\ all' = cache'
                 \/ \E j \in Job : job[j].task = "native" /\ job[j].stage = "publish"]_(Probes!vars)
  BY HealthyStep
<1>5. ProbeInv => (part = "probes" => Probes!TypeOK)
  BY <1>1
<1> QED
  BY <1>2, <1>3, <1>4, <1>5, ProbeInvHolds, ProbesRun, PTL
  DEF MCSpec, ProbesSound, Probes!HidesSurvive, Probes!BrokenAgain, Probes!KeepsHealthy

----------------------------------------------------------------------------
(* The capture of a built-in catalog.  States are made by captures that are   *)
(* not over before, by an early start from the cache, or by a command; what   *)
(* is refreshed, listed or toggled has a state; and the commands whose update *)
(* is done are those that wait for their turn, each once.                     *)
Live(t) == task[t].kind = "session" /\ task[t].stage = "key" /\ task[t].runner = runner
StateInv ==
  /\ current = None => \A t \in Task : state[t] = NoState
  /\ \A s \in {current, refreshing, listing.by} : s # None => state[s] \in State
  /\ \A t \in Task : task[t].stage \in {"unused", "key"} => state[t] = NoState
  /\ \A t \in Task : task[t].runner <= runner
  /\ starts = 0 => \A t \in Task : task[t].kind # "session"
  /\ listing.catalog = "fresh" => listing.by # None /\ state[listing.by].catalog = "fresh"
  /\ pending # None => task[pending].kind = "session"
CommandInv ==
  /\ \A x \in Command : cmd[x].stage \in {"flip", "apply"} =>
       cmd[x].on \in Task /\ state[cmd[x].on] \in State
  /\ \A x \in Command : cmd[x].stage = "capturing" =>
       cmd[x].on \in Task /\ task[cmd[x].on].kind = "command" /\ task[cmd[x].on].stage = "key"
  /\ \A x, y \in Command : cmd[x].stage = "capturing" /\ cmd[y].stage = "capturing"
                             /\ cmd[x].on = cmd[y].on => x = y
  /\ \A i \in DOMAIN resumed : cmd[resumed[i]].stage \in {"apply", "filter"}
  /\ \A i, j \in DOMAIN resumed : resumed[i] = resumed[j] => i = j
  /\ \A x \in Command : cmd[x].stage \in {"apply", "filter"} =>
       \E i \in DOMAIN resumed : resumed[i] = x

(* As long as no capture took another's entry away, a capture that may still  *)
(* register is the pending one, knows the live session, and, without captures *)
(* by commands, there is no state yet.                                        *)
CommandCaptures == \E t \in Task : task[t].kind = "command"
OnceInv ==
  ~clobbered =>
    /\ \A t \in Task : Live(t) =>
         pending = t /\ (current = None => task[t].snapshot = session)
    /\ ~CommandCaptures => /\ \A t \in Task : Live(t) => current = None
                           /\ \A s \in Task : state[s] # NoState => s = current

(* What ListedAtRest says of the end, for all times: a state of a started     *)
(* session is registered with it, and listed unless a command is on its way   *)
(* to list it; and its view is the user's unless a command is on its way to   *)
(* apply it, the last of them the view that the file holds.                   *)
Exact == [by |-> current, mode |-> state[current].mode, catalog |-> state[current].catalog]
Shown ==
  started => /\ state[current].registry = session
             /\ listing = Exact \/ \E x \in Command : cmd[x].stage \in {"flip", "apply"}
Chosen == resumed = <<>> => state[current].mode = EffectiveView
ListedInv ==
  current # None /\ ~Overwritten /\ ~clobbered => Shown /\ (~lost => Chosen)
LastInv ==
  ~lost /\ resumed # <<>> /\ cmd[resumed[Len(resumed)]].stage = "apply" =>
    choice = cmd[resumed[Len(resumed)]].next
CaptureInv == TypeOK /\ StateInv /\ CommandInv /\ OnceInv /\ LastInv /\ ListedInv

LEMMA NoStateIsNone == NoState \notin State
BY DEF NoState, State

LEMMA CaptureTypes ==
  ASSUME TypeOK
  PROVE  /\ EffectiveView \in View
         /\ \A t \in Task :
              /\ task[t] \in [kind : {"none", "session", "command", "cache"}, runner : Nat,
                              snapshot : Nat,
                              stage : {"unused", "key", "restoring", "done", "failed"}]
              /\ task[t].stage = "unused" <=> task[t] = NoTask
              /\ task[t].kind = "none" <=> task[t] = NoTask
              /\ state[t] # NoState => state[t] \in State
         /\ \A x \in Command : cmd[x] \in Invocation
<1>1. EffectiveView \in View
  BY DEF TypeOK, EffectiveView
<1>2. ASSUME NEW t \in Task
      PROVE  /\ task[t] \in [kind : {"none", "session", "command", "cache"}, runner : Nat,
                             snapshot : Nat,
                             stage : {"unused", "key", "restoring", "done", "failed"}]
             /\ task[t].stage = "unused" <=> task[t] = NoTask
             /\ task[t].kind = "none" <=> task[t] = NoTask
  <2>1. CASE task[t] = NoTask
    BY <2>1 DEF NoTask
  <2>2. CASE task[t] \in Capture
    BY <2>2 DEF Capture, NoTask
  <2> QED
    BY <2>1, <2>2 DEF TypeOK
<1> QED
  BY <1>1, <1>2 DEF TypeOK

(* With one state there is one owner of a state. *)
LEMMA OneOwner ==
  ASSUME TypeOK, StateInv, ~Overwritten, current # None, NEW s \in Task, state[s] \in State
  PROVE  s = current
<1>1. current \in Task /\ state[current] \in State
  BY DEF TypeOK, StateInv
<1> QED
  BY <1>1, NoStateIsNone DEF Overwritten

(* States are overwritten, and commands capture, once and for all. *)
LEMMA StaysOverwritten ==
  ASSUME TypeOK, \A s \in Task : state[s] \in State => state'[s] \in State, Overwritten
  PROVE  Overwritten'
BY CaptureTypes, NoStateIsNone DEF Overwritten

LEMMA CaptureInit == Init => CaptureInv
<1> SUFFICES ASSUME Init PROVE CaptureInv
  OBVIOUS
<1>0. BuiltIn \in [by : Task \cup {None}, mode : View, catalog : {"captured", "fresh"}]
  BY DEF BuiltIn, View
<1>5. Idle \in Invocation
  BY DEF Idle, Invocation, View
<1>6. resumed \in Seq(Command)
  BY DEF Init
<1>1. TypeOK
  BY <1>0, <1>5, <1>6 DEF Init, TypeOK
<1>2. StateInv
  BY DEF Init, StateInv, BuiltIn, NoState, NoTask
<1>3. CommandInv /\ LastInv
  BY DEF Init, CommandInv, LastInv, Idle
<1>4. OnceInv /\ ListedInv
  BY DEF Init, OnceInv, ListedInv, Live, NoTask, NoState
<1> QED
  BY <1>1, <1>2, <1>3, <1>4 DEF CaptureInv

(* Registered at once from the cache: a state of its own, or nothing. *)
LEMMA Synced ==
  ASSUME CaptureInv, NEW n \in Nat, SyncCache(n)
  PROVE  \/ UNCHANGED <<current, state, task>> /\ listing' = BuiltIn
         \/ /\ current = None
            /\ \E t \in Task :
                 /\ task[t] = NoTask /\ current' = t
                 /\ task' = [task EXCEPT ![t] = [kind |-> "cache", stage |-> "done",
                                                 runner |-> runner, snapshot |-> n]]
                 /\ state' = [state EXCEPT ![t] = [mode |-> EffectiveView, catalog |-> "captured",
                                                   registry |-> n]]
                 /\ listing' = [by |-> t, mode |-> EffectiveView, catalog |-> "captured"]
<1>1. ASSUME NEW t \in Task,
             state' = [state EXCEPT ![t] = [mode |-> EffectiveView, catalog |-> "captured",
                                            registry |-> n]]
      PROVE  Listed(state', t, n, BuiltIn) =
               [by |-> t, mode |-> EffectiveView, catalog |-> "captured"]
  BY <1>1 DEF Listed, CaptureInv, TypeOK
<1> QED
  BY <1>1 DEF SyncCache, Unused

(* A state made anew, by a capture that is over. *)
LEMMA StateMade ==
  ASSUME CaptureInv, NEW t \in Task, NEW st \in State, NEW r \in Capture,
         state[t] = NoState, state' = [state EXCEPT ![t] = st],
         task' = [task EXCEPT ![t] = r], r.stage \in {"restoring", "done"}
  PROVE  /\ state' \in [Task -> State \cup {NoState}] /\ task' \in [Task -> Capture \cup {NoTask}]
         /\ state'[t] = st /\ \A s \in Task : s # t => state'[s] = state[s]
         /\ task'[t] = r /\ \A s \in Task : s # t => task'[s] = task[s]
         /\ \A s \in Task : state[s] \in State => state'[s] \in State
BY NoStateIsNone DEF CaptureInv, TypeOK

(* setup: an early start from the cache, with no capture that may register *)
LEMMA SetupKeeps ==
  ASSUME CaptureInv, NEW n \in Nat, SyncCache(n),
         UNCHANGED <<config, starts, refreshing, cmd, resumed, clobbered>>,
         started' = FALSE, runner' \in Nat, runner' >= runner, session' \in Nat,
         pending' \in {None, pending},
         \A t \in Task : task[t].kind = "session" => task[t].runner # runner'
  PROVE  CaptureInv'
<1>1. TypeOK /\ StateInv /\ CommandInv /\ OnceInv /\ LastInv /\ ListedInv
  BY DEF CaptureInv
<1>2. EffectiveView \in View /\ EffectiveView' = EffectiveView
  BY <1>1, CaptureTypes DEF config, EffectiveView
<1>3. LastInv'
  BY <1>1 DEF LastInv, config
<1>4. CASE UNCHANGED <<current, state, task>> /\ listing' = BuiltIn
  <2>1. BuiltIn \in [by : Task \cup {None}, mode : View, catalog : {"captured", "fresh"}]
        /\ BuiltIn.by = None /\ BuiltIn.catalog = "captured"
    BY DEF BuiltIn, View
  <2>2. TypeOK'
    BY <1>1, <1>4, <2>1, ZenonT(40) DEF TypeOK, config
  <2>3. StateInv'
    <3>1. \A t \in Task : task[t].runner <= runner'
      BY <1>1, CaptureTypes DEF StateInv, TypeOK
    <3> QED
      BY <1>1, <1>4, <2>1, <3>1 DEF StateInv, config
  <2>4. CommandInv'
    BY <1>1, <1>4 DEF CommandInv
  <2>5. \A t \in Task : ~Live(t)'
    BY <1>4 DEF Live
  <2>6. OnceInv'
    BY <1>1, <1>4, <2>5 DEF OnceInv, CommandCaptures
  <2>7. ListedInv'
    BY <1>1, <1>2, <1>4 DEF ListedInv, Overwritten, Shown, Chosen, config
  <2> QED
    BY <1>3, <2>2, <2>3, <2>4, <2>6, <2>7 DEF CaptureInv
<1>5. ASSUME current = None, NEW t \in Task, task[t] = NoTask, current' = t,
             task' = [task EXCEPT ![t] = [kind |-> "cache", stage |-> "done",
                                          runner |-> runner, snapshot |-> n]],
             state' = [state EXCEPT ![t] = [mode |-> EffectiveView, catalog |-> "captured",
                                            registry |-> n]],
             listing' = [by |-> t, mode |-> EffectiveView, catalog |-> "captured"]
      PROVE  CaptureInv'
  <2> DEFINE r == [kind |-> "cache", stage |-> "done", runner |-> runner, snapshot |-> n]
             st == [mode |-> EffectiveView, catalog |-> "captured", registry |-> n]
  <2>1. /\ r \in Capture /\ r.stage = "done" /\ r.kind = "cache" /\ r.runner = runner
        /\ st \in State /\ st.mode = EffectiveView /\ st.catalog = "captured"
    BY <1>1, <1>2 DEF Capture, State, TypeOK
  <2>2. task' = [task EXCEPT ![t] = r] /\ state' = [state EXCEPT ![t] = st]
    BY <1>5
  <2> HIDE DEF r, st
  <2>3. \A s \in Task : state[s] = NoState
    BY <1>1, <1>5 DEF StateInv
  <2>4. /\ state' \in [Task -> State \cup {NoState}] /\ task' \in [Task -> Capture \cup {NoTask}]
        /\ state'[t] = st /\ \A s \in Task : s # t => state'[s] = NoState
        /\ task'[t] = r /\ \A s \in Task : s # t => task'[s] = task[s]
    BY <2>1, <2>2, <2>3, StateMade
  <2>5. listing' \in [by : Task \cup {None}, mode : View, catalog : {"captured", "fresh"}]
        /\ listing'.by = t /\ listing'.catalog = "captured"
    BY <1>2, <1>5
  <2>6. TypeOK'
    <3>1. pending' \in Task \cup {None} /\ refreshing' \in Task \cup {None}
      BY <1>1 DEF TypeOK
    <3> QED
      BY <1>1, <1>5, <2>4, <2>5, <3>1 DEF TypeOK, config
  <2>7. refreshing = None /\ \A x \in Command : cmd[x].stage \notin {"flip", "apply"}
    BY <1>1, <2>3, NoStateIsNone DEF StateInv, CommandInv, TypeOK
  <2>8. StateInv'
    <3>1. \A s \in Task : task'[s].runner <= runner'
      <4>1. runner \in Nat /\ \A s \in Task : task[s].runner \in Nat /\ task[s].runner <= runner
        BY <1>1, CaptureTypes DEF StateInv, TypeOK
      <4>2. task'[t].runner = runner /\ \A s \in Task : s # t => task'[s] = task[s]
        BY <2>1, <2>4
      <4>3. \A s \in Task : task'[s].runner \in Nat /\ task'[s].runner <= runner
        BY <4>1, <4>2
      <4> QED
        BY <4>1, <4>3
    <3>2. \A s \in Task : task'[s].stage \in {"unused", "key"} => state'[s] = NoState
      BY <2>1, <2>4
    <3>3. starts' = 0 => \A s \in Task : task'[s].kind # "session"
      BY <1>1, <2>1, <2>4 DEF StateInv
    <3>4. \A s \in {current', refreshing', listing'.by} : s # None => state'[s] \in State
      BY <1>5, <2>1, <2>4, <2>5, <2>7
    <3>5. current' # None
      BY <1>5, BuiltInCaptureAssumption
    <3>6. pending' # None => task'[pending'].kind = "session"
      BY <1>1, <1>5, <2>4 DEF StateInv, TypeOK, NoTask
    <3> QED
      BY <2>5, <3>1, <3>2, <3>3, <3>4, <3>5, <3>6 DEF StateInv
  <2>9. CommandInv'
    <3>1. \A s \in Task : task[s].stage = "key" => task'[s] = task[s]
      BY <1>1, <1>5, <2>4, CaptureTypes DEF NoTask
    <3> QED
      BY <1>1, <2>7, <3>1 DEF CommandInv
  <2>10. \A s \in Task : ~Live(s)'
    BY <2>1, <2>4 DEF Live
  <2>11. OnceInv'
    BY <1>5, <2>4, <2>10 DEF OnceInv
  <2>12. ListedInv'
    BY <1>2, <1>5, <2>1, <2>4 DEF ListedInv, Shown, Chosen
  <2> QED
    BY <1>3, <2>6, <2>8, <2>9, <2>11, <2>12 DEF CaptureInv
<1> QED
  BY <1>1, <1>4, <1>5, Synced

LEMMA LoadKeeps == ASSUME CaptureInv, Load PROVE CaptureInv'
<1>1. runner \in Nat /\ session \in Nat /\ pending \in Task \cup {None}
  BY DEF CaptureInv, TypeOK
<1>2. \A t \in Task : task[t].kind # "session"
  BY DEF Load, CaptureInv, StateInv
<1>3. /\ SyncCache(session) /\ UNCHANGED <<config, starts, refreshing, cmd, resumed, clobbered>>
      /\ started' = FALSE /\ runner' = runner /\ session' = session /\ pending' = pending
  BY DEF Load, host
<1>4. session' \in Nat /\ runner' \in Nat /\ runner' >= runner /\ pending' \in {None, pending}
  BY <1>1, <1>3
<1> QED
  BY <1>1, <1>2, <1>3, <1>4, SetupKeeps, Zenon

LEMMA ReloadKeeps == ASSUME CaptureInv, Reload PROVE CaptureInv'
<1>1. runner \in Nat /\ session \in Nat
  BY DEF CaptureInv, TypeOK
<1>2. \A t \in Task : task[t].runner \in Nat /\ task[t].runner <= runner
  BY CaptureTypes DEF CaptureInv, StateInv
<1>3. /\ SyncCache(session + 1) /\ UNCHANGED <<config, starts, refreshing, cmd, resumed, clobbered>>
      /\ started' = FALSE /\ runner' = runner + 1 /\ session' = session + 1 /\ pending' = None
  BY DEF Reload
<1>4. /\ session' \in Nat /\ runner' \in Nat /\ runner' >= runner /\ pending' \in {None, pending}
      /\ session + 1 \in Nat /\ \A t \in Task : task[t].runner # runner'
  BY <1>1, <1>2, <1>3
<1> QED
  BY <1>3, <1>4, SetupKeeps, Zenon

(* A state that is there changes. *)
LEMMA StateChanged ==
  ASSUME TypeOK, NEW s \in Task, state[s] \in State, NEW st \in State,
         state' = [state EXCEPT ![s] = st]
  PROVE  /\ state' \in [Task -> State \cup {NoState}]
         /\ state'[s] = st /\ \A t \in Task : t # s => state'[t] = state[t]
         /\ \A t \in Task : state'[t] = NoState <=> state[t] = NoState
         /\ \A t \in Task : state'[t] \in State <=> state[t] \in State
         /\ Overwritten' <=> Overwritten
<1>1. /\ state' \in [Task -> State \cup {NoState}]
      /\ state'[s] = st /\ \A t \in Task : t # s => state'[t] = state[t]
  BY DEF TypeOK
<1>2. \A t \in Task : state'[t] = NoState <=> state[t] = NoState
  BY <1>1, NoStateIsNone
<1>3. \A t \in Task : state'[t] \in State <=> state[t] \in State
  BY <1>1
<1>4. Overwritten' <=> Overwritten
  BY <1>2 DEF Overwritten
<1> QED
  BY <1>1, <1>2, <1>3, <1>4

(* what ListedInv says, when nothing of the commands and the config changes *)
LEMMA SameCommands ==
  ASSUME CaptureInv, UNCHANGED <<config, cmd, resumed>>
  PROVE  /\ LastInv' /\ EffectiveView' = EffectiveView
         /\ (\A x \in Command : cmd[x].stage = "capturing" => task'[cmd[x].on] = task[cmd[x].on])
            /\ (\A s \in Task : state[s] \in State => state'[s] \in State) => CommandInv'
<1>1. LastInv' /\ EffectiveView' = EffectiveView
  BY DEF CaptureInv, LastInv, config, EffectiveView
<1>2. ASSUME \A x \in Command : cmd[x].stage = "capturing" => task'[cmd[x].on] = task[cmd[x].on],
             \A s \in Task : state[s] \in State => state'[s] \in State
      PROVE  CommandInv'
  BY <1>2 DEF CaptureInv, CommandInv
<1> QED
  BY <1>1, <1>2

LEMMA ReapplyKeeps ==
  ASSUME CaptureInv, NEW n \in Nat, NEW bare, Reapply(n, bare), session' = n, started' = TRUE,
         starts' = starts + 1,
         UNCHANGED <<config, runner, current, cmd, resumed, clobbered>>
  PROVE  CaptureInv'
<1> DEFINE st == [state[current] EXCEPT !.registry = n]
<1>1. TypeOK /\ StateInv /\ OnceInv /\ ListedInv
  BY DEF CaptureInv
<1>2. current \in Task /\ state[current] \in State /\ current # None
  BY <1>1 DEF TypeOK, StateInv, Reapply
<1>3. /\ st \in State /\ st.mode = state[current].mode /\ st.catalog = state[current].catalog
      /\ st.registry = n
  BY <1>2 DEF State
<1>4. state' = [state EXCEPT ![current] = st]
  BY DEF Reapply
<1> HIDE DEF st
<1>5. /\ state' \in [Task -> State \cup {NoState}]
      /\ state'[current] = st /\ \A t \in Task : t # current => state'[t] = state[t]
      /\ \A t \in Task : state'[t] = NoState <=> state[t] = NoState
      /\ \A t \in Task : state'[t] \in State <=> state[t] \in State
      /\ Overwritten' <=> Overwritten
  BY <1>1, <1>2, <1>3, <1>4, StateChanged
<1>6. listing' = [by |-> current, mode |-> st.mode, catalog |-> st.catalog]
  BY <1>3, <1>5 DEF Reapply, Listed
<1>7. /\ UNCHANGED <<pending, task>>
      /\ refreshing' = refreshing \/ refreshing' = current
  BY DEF Reapply, Schedule
<1>8. listing' \in [by : Task \cup {None}, mode : View, catalog : {"captured", "fresh"}]
      /\ listing'.by = current /\ listing'.catalog = st.catalog
  BY <1>2, <1>3, <1>6 DEF State
<1>9. TypeOK'
  BY <1>1, <1>2, <1>5, <1>7, <1>8 DEF TypeOK, config
<1>10. StateInv'
  <2>1. starts' # 0
    BY <1>1 DEF TypeOK
  <2>2. \A s \in {current, refreshing', listing'.by} : s # None => state'[s] \in State
    BY <1>1, <1>2, <1>5, <1>7, <1>8 DEF StateInv, TypeOK
  <2> QED
    BY <1>1, <1>2, <1>5, <1>7, <1>8, <2>1, <2>2 DEF StateInv
<1>11. LastInv' /\ EffectiveView' = EffectiveView /\ CommandInv'
  BY <1>5, <1>7, SameCommands
<1>12. OnceInv'
  BY <1>1, <1>2, <1>5, <1>7 DEF OnceInv, Live, CommandCaptures
<1>13. ListedInv'
  <2>1. Shown'
    BY <1>3, <1>5, <1>6 DEF Shown, Exact
  <2>2. Chosen => Chosen'
    BY <1>3, <1>5, <1>11 DEF Chosen
  <2> QED
    BY <1>1, <1>5, <2>1, <2>2 DEF ListedInv, config
<1> QED
  BY <1>9, <1>10, <1>11, <1>12, <1>13 DEF CaptureInv

(* no state, and none made: what a capture is handed or given *)
LEMMA NoStateKeeps ==
  ASSUME CaptureInv, current = None, task' \in [Task -> Capture \cup {NoTask}],
         \A s \in Task : task'[s] # task[s] =>
           /\ task[s].kind \in {"none", "session"} /\ task'[s].kind = "session"
           /\ task'[s].runner <= runner,
         session' \in Nat, started' = TRUE, starts' = starts + 1,
         listing' \in {listing, BuiltIn}, pending' \in Task \cup {None},
         pending' # None => task'[pending'].kind = "session",
         UNCHANGED <<config, runner, current, state, refreshing, cmd, resumed, clobbered>>,
         ~clobbered => \A s \in Task : Live(s)' => pending' = s /\ task'[s].snapshot = session'
  PROVE  CaptureInv'
<1>1. TypeOK /\ StateInv /\ OnceInv /\ \A s \in Task : state[s] = NoState
  BY DEF CaptureInv, StateInv
<1>3. BuiltIn \in [by : Task \cup {None}, mode : View, catalog : {"captured", "fresh"}]
      /\ BuiltIn.by = None /\ BuiltIn.catalog = "captured"
  BY DEF BuiltIn, View
<1>4. TypeOK'
  BY <1>1, <1>3 DEF TypeOK, config
<1>5. StateInv'
  <2>1. \A s \in Task : task'[s].runner <= runner
    BY <1>1 DEF StateInv
  <2>2. starts' # 0
    BY <1>1 DEF TypeOK
  <2> QED
    BY <1>1, <1>3, <2>1, <2>2 DEF StateInv
<1>6. CommandInv'
  <2>1. \A x \in Command : cmd[x].stage = "capturing" => task'[cmd[x].on] = task[cmd[x].on]
    BY DEF CaptureInv, CommandInv
  <2> QED
    BY <2>1, SameCommands
<1>7. OnceInv'
  <2>1. \A s \in Task : state'[s] = NoState
    BY <1>1
  <2> QED
    BY <2>1 DEF OnceInv
<1>8. LastInv' /\ ListedInv'
  BY SameCommands DEF ListedInv
<1> QED
  BY <1>4, <1>5, <1>6, <1>7, <1>8 DEF CaptureInv

LEMMA SessionStartKeeps ==
  ASSUME CaptureInv, SessionStart
  PROVE  CaptureInv'
<1> DEFINE bare == IF session' = session THEN listing ELSE BuiltIn
<1>1. /\ TypeOK /\ StateInv /\ OnceInv /\ session' \in Nat /\ runner \in Nat
      /\ starts' = starts + 1 /\ started' = TRUE
      /\ UNCHANGED <<config, runner, current, cmd, resumed, clobbered>>
  BY DEF SessionStart, CaptureInv, TypeOK
<1>0. bare \in {listing, BuiltIn}
  OBVIOUS
<1>2. CASE Reapply(session', bare)
  <2>1. PICK n \in Nat : n = session'
    BY <1>1
  <2>2. Reapply(n, bare)
    BY <1>2, <2>1
  <2> HIDE DEF bare
  <2> QED
    BY <1>1, <2>1, <2>2, ReapplyKeeps
<1> HIDE DEF bare
<1>3. CASE /\ current = None /\ HandOver(session') /\ listing' = bare
           /\ UNCHANGED <<state, pending, refreshing>>
  <2> DEFINE r == [task[pending] EXCEPT !.snapshot = session']
  <2>1. /\ pending \in Task /\ task' = [task EXCEPT ![pending] = r]
        /\ task[pending] \in Capture /\ task[pending].kind = "session"
    BY <1>1, <1>3 DEF HandOver, TypeOK, StateInv, NoTask
  <2>2. /\ r \in Capture /\ r.kind = "session" /\ r.stage = task[pending].stage
        /\ r.runner = task[pending].runner /\ r.snapshot = session'
    BY <1>1, <2>1 DEF Capture
  <2> HIDE DEF r
  <2>3. /\ task' \in [Task -> Capture \cup {NoTask}] /\ task'[pending] = r
        /\ \A s \in Task : s # pending => task'[s] = task[s]
    BY <1>1, <2>1, <2>2 DEF TypeOK
  <2>4. r.runner <= runner
    BY <1>1, <2>1, <2>2 DEF StateInv
  <2>5. \A s \in Task : Live(s)' <=> Live(s)
    <3> SUFFICES ASSUME NEW s \in Task PROVE Live(s)' <=> Live(s)
      OBVIOUS
    <3>1. /\ task'[s].kind = task[s].kind /\ task'[s].stage = task[s].stage
          /\ task'[s].runner = task[s].runner
      BY <2>1, <2>2, <2>3
    <3> QED
      BY <1>1, <3>1 DEF Live
  <2>6. ~clobbered => \A s \in Task : Live(s)' => pending' = s /\ task'[s].snapshot = session'
    BY <1>1, <1>3, <2>2, <2>3, <2>5 DEF OnceInv
  <2> QED
    BY <1>0, <1>1, <1>3, <2>1, <2>2, <2>3, <2>4, <2>6, NoStateKeeps DEF TypeOK
<1>4. CASE /\ StartCapture(session') /\ listing' = bare /\ UNCHANGED <<state, refreshing>>
  <2>0. current = None /\ pending = None
    BY <1>4 DEF StartCapture, NoneUnderway
  <2>1. ~clobbered => \A s \in Task : ~Live(s)
    BY <1>1, <2>0, BuiltInCaptureAssumption DEF OnceInv
  <2>2. CASE UNCHANGED <<pending, task>>
    <3>1. \A s \in Task : Live(s)' <=> Live(s)
      BY <1>1, <2>2 DEF Live
    <3> QED
      BY <1>0, <1>1, <1>4, <2>0, <2>1, <2>2, <3>1, NoStateKeeps DEF TypeOK
  <2>3. ASSUME NEW t \in Task, task[t] = NoTask, pending' = t,
               task' = [task EXCEPT ![t] = [kind |-> "session", stage |-> "key",
                                            runner |-> runner, snapshot |-> session']]
        PROVE  CaptureInv'
    <3> DEFINE r == [kind |-> "session", stage |-> "key", runner |-> runner, snapshot |-> session']
    <3>1. /\ r \in Capture /\ r.kind = "session" /\ r.runner = runner /\ r.snapshot = session'
          /\ task' = [task EXCEPT ![t] = r]
      BY <1>1, <2>3 DEF Capture
    <3> HIDE DEF r
    <3>2. /\ task' \in [Task -> Capture \cup {NoTask}] /\ task'[t] = r
          /\ \A s \in Task : s # t => task'[s] = task[s]
      BY <1>1, <3>1 DEF TypeOK
    <3>3. \A s \in Task : s # t => (Live(s)' <=> Live(s))
      BY <1>1, <3>2 DEF Live
    <3>4. ~clobbered => \A s \in Task : Live(s)' => pending' = s /\ task'[s].snapshot = session'
      BY <2>1, <2>3, <3>1, <3>2, <3>3
    <3>5. task[t].kind = "none" /\ r.runner <= runner
      BY <1>1, <2>3, <3>1 DEF NoTask
    <3> QED
      BY <1>0, <1>1, <1>4, <2>0, <2>3, <3>1, <3>2, <3>4, <3>5, NoStateKeeps
  <2> QED
    BY <1>4, <2>2, <2>3 DEF StartCapture, Unused
<1> QED
  BY <1>2, <1>3, <1>4 DEF SessionStart, bare

(* a capture registers: the first of the states, or one too many *)
LEMMA CapturedKeeps ==
  ASSUME CaptureInv, NEW t \in Task, Captured(t)
  PROVE  CaptureInv'
<1> DEFINE st == [mode |-> EffectiveView, catalog |-> "captured", registry |-> task[t].snapshot]
           r == [task[t] EXCEPT !.stage = "restoring"]
<1>1. /\ TypeOK /\ StateInv /\ OnceInv /\ task[t] \in Capture /\ EffectiveView \in View
      /\ task[t].stage = "key" /\ task[t].kind = "session" /\ task[t].runner = runner
      /\ current' = t /\ state[t] = NoState /\ t # None
      /\ UNCHANGED <<config, host, pending, cmd, resumed, clobbered>>
  BY CaptureTypes, BuiltInCaptureAssumption
  DEF Captured, KeyDue, Stale, CaptureInv, StateInv, TypeOK, NoTask
<1>2. /\ st \in State /\ st.mode = EffectiveView /\ st.catalog = "captured"
      /\ st.registry = task[t].snapshot
      /\ r \in Capture /\ r.stage = "restoring" /\ r.kind = "session" /\ r.runner = runner
  BY <1>1 DEF State, Capture
<1>3. state' = [state EXCEPT ![t] = st] /\ task' = [task EXCEPT ![t] = r]
  BY DEF Captured, Stage
<1> HIDE DEF st, r
<1>4. /\ state' \in [Task -> State \cup {NoState}] /\ task' \in [Task -> Capture \cup {NoTask}]
      /\ state'[t] = st /\ \A s \in Task : s # t => state'[s] = state[s]
      /\ task'[t] = r /\ \A s \in Task : s # t => task'[s] = task[s]
      /\ \A s \in Task : state[s] \in State => state'[s] \in State
  BY <1>1, <1>2, <1>3, StateMade
<1>5. listing' = IF st.registry = session
                 THEN [by |-> t, mode |-> st.mode, catalog |-> "captured"] ELSE listing
  BY <1>2, <1>4 DEF Captured, Listed
<1>6. listing' \in [by : Task \cup {None}, mode : View, catalog : {"captured", "fresh"}]
  BY <1>1, <1>2, <1>5 DEF TypeOK
<1>7. refreshing' \in {refreshing, t}
  BY DEF Captured, Schedule
<1>8. TypeOK'
  BY <1>1, <1>4, <1>6, <1>7 DEF TypeOK, config, host
<1>9. StateInv'
  <2>1. \A s \in {current', refreshing', listing'.by} : s # None => state'[s] \in State
    BY <1>1, <1>2, <1>4, <1>5, <1>7 DEF StateInv, TypeOK
  <2>2. listing'.catalog = "fresh" => listing'.by # None /\ state'[listing'.by].catalog = "fresh"
    <3>1. CASE st.registry = session
      BY <1>5, <3>1
    <3>2. CASE listing' = listing
      BY <1>1, <1>4, <3>2, NoStateIsNone DEF StateInv, TypeOK
    <3> QED
      BY <1>5, <3>1, <3>2
  <2>3. \A s \in Task : task'[s].runner <= runner'
    BY <1>1, <1>2, <1>4 DEF StateInv, host
  <2>4. \A s \in Task : task'[s].kind = task[s].kind
    BY <1>1, <1>2, <1>4
  <2>5. pending' # None => task'[pending'].kind = "session"
    BY <1>1, <2>4 DEF StateInv, TypeOK
  <2>6. starts' = 0 => \A s \in Task : task'[s].kind # "session"
    BY <1>1, <2>4 DEF StateInv, host
  <2>7. \A s \in Task : task'[s].stage \in {"unused", "key"} => state'[s] = NoState
    BY <1>1, <1>2, <1>4 DEF StateInv
  <2> QED
    BY <1>1, <2>1, <2>2, <2>3, <2>5, <2>6, <2>7 DEF StateInv
<1>10. LastInv' /\ EffectiveView' = EffectiveView /\ CommandInv'
  <2>1. \A x \in Command : cmd[x].stage = "capturing" => task'[cmd[x].on] = task[cmd[x].on]
    BY <1>1, <1>4 DEF CaptureInv, CommandInv
  <2> QED
    BY <1>1, <1>4, <2>1, SameCommands
<1>11. Live(t) /\ \A s \in Task : Live(s)' => s # t /\ Live(s)
  BY <1>1, <1>2, <1>4 DEF Live, host
<1>12. OnceInv'
  <2> SUFFICES ASSUME ~clobbered PROVE OnceInv'
    BY <1>1 DEF OnceInv
  <2>1. \A s \in Task : ~Live(s)'
    BY <1>1, <1>11 DEF OnceInv
  <2>2. CommandCaptures' <=> CommandCaptures
    BY <1>1, <1>2, <1>4 DEF CommandCaptures
  <2>3. ~CommandCaptures => \A s \in Task : state[s] = NoState
    BY <1>1, <1>11 DEF OnceInv, StateInv
  <2>4. ~CommandCaptures' => \A s \in Task : state'[s] # NoState => s = current'
    BY <1>1, <1>4, <2>2, <2>3
  <2> QED
    BY <2>1, <2>4 DEF OnceInv
<1>13. ListedInv'
  <2> SUFFICES ASSUME ~Overwritten', ~clobbered PROVE Shown' /\ Chosen'
    BY <1>1 DEF ListedInv
  <2>1. \A s \in Task : state[s] = NoState
    BY <1>1, <1>2, <1>4, NoStateIsNone DEF Overwritten
  <2>2. current = None
    BY <1>1, <2>1, NoStateIsNone DEF StateInv, TypeOK
  <2>3. st.registry = session
    BY <1>1, <1>2, <1>11, <2>2 DEF OnceInv
  <2>4. listing' = Exact'
    BY <1>1, <1>2, <1>4, <1>5, <2>3 DEF Exact
  <2> QED
    BY <1>1, <1>2, <1>4, <1>10, <2>3, <2>4 DEF Shown, Chosen, host
<1> QED
  BY <1>8, <1>9, <1>10, <1>12, <1>13 DEF CaptureInv

(* a capture ends, and forgets whichever is pending *)
LEMMA CaptureEndsKeeps ==
  ASSUME CaptureInv, NEW t \in Task, CaptureEnds(t)
  PROVE  CaptureInv'
<1>1. /\ TypeOK /\ StateInv /\ OnceInv /\ ListedInv
      /\ task[t].kind = "session" \/ task[t].stage = "restoring"
      /\ pending' = None /\ clobbered' = (clobbered \/ pending \notin {t, None})
      /\ UNCHANGED <<config, host, listing, current, state, refreshing, cmd, resumed>>
  BY DEF CaptureEnds, KeyDue, CaptureInv
<1>2. PICK g \in {"done", "failed"} : task' = [task EXCEPT ![t].stage = g]
  BY DEF CaptureEnds, Stage
<1>3. task[t] \in Capture
  BY <1>1 DEF TypeOK, NoTask
<1>4. /\ task'[t] \in Capture /\ task'[t].stage = g /\ task'[t].kind = task[t].kind
      /\ task'[t].runner = task[t].runner
      /\ \A s \in Task : s # t => task'[s] = task[s]
      /\ task' \in [Task -> Capture \cup {NoTask}]
  BY <1>1, <1>2, <1>3 DEF TypeOK, Capture
<1>5. \A s \in Task : task'[s].kind = task[s].kind /\ task'[s].runner = task[s].runner
  BY <1>4
<1>6. TypeOK'
  BY <1>1, <1>4 DEF TypeOK, config, host
<1>7. StateInv'
  <2>1. \A s \in Task : task'[s].stage \in {"unused", "key"} => state'[s] = NoState
    BY <1>1, <1>4 DEF StateInv
  <2> QED
    BY <1>1, <1>5, <2>1 DEF StateInv, host
<1>8. LastInv' /\ EffectiveView' = EffectiveView /\ CommandInv'
  <2>1. \A x \in Command : cmd[x].stage = "capturing" => task'[cmd[x].on] = task[cmd[x].on]
    BY <1>1, <1>4 DEF CaptureInv, CommandInv
  <2> QED
    BY <1>1, <2>1, SameCommands
<1>9. OnceInv'
  <2> SUFFICES ASSUME ~clobbered, pending \in {t, None} PROVE OnceInv'
    BY <1>1 DEF OnceInv
  <2>1. \A s \in Task : Live(s)' => s # t /\ Live(s)
    BY <1>1, <1>4 DEF Live, host
  <2>2. \A s \in Task : ~Live(s)'
    BY <1>1, <2>1, BuiltInCaptureAssumption DEF OnceInv
  <2>3. CommandCaptures' <=> CommandCaptures
    BY <1>5 DEF CommandCaptures
  <2> QED
    BY <1>1, <2>2, <2>3 DEF OnceInv
<1>10. ListedInv'
  BY <1>1, <1>8 DEF ListedInv, Overwritten, Shown, Chosen, Exact, host, config
<1> QED
  BY <1>6, <1>7, <1>8, <1>9, <1>10 DEF CaptureInv

(* a state is refreshed, and listed where it is registered *)
LEMMA FreshKeeps ==
  ASSUME CaptureInv, NEW s \in Task, state[s] \in State, state' = Fresh(s),
         \/ listing' = [by |-> s, mode |-> state[s].mode, catalog |-> "fresh"]
         \/ listing' = listing /\ state[s].registry # session,
         refreshing' \in {refreshing, None},
         UNCHANGED <<config, host, current, pending, task, cmd, resumed, clobbered>>
  PROVE  CaptureInv'
<1> DEFINE st == [state[s] EXCEPT !.catalog = "fresh"]
<1>1. TypeOK /\ StateInv /\ OnceInv /\ ListedInv /\ s # None
  BY BuiltInCaptureAssumption DEF CaptureInv
<1>2. /\ st \in State /\ st.mode = state[s].mode /\ st.catalog = "fresh"
      /\ st.registry = state[s].registry /\ state' = [state EXCEPT ![s] = st]
  BY DEF State, Fresh
<1> HIDE DEF st
<1>3. /\ state' \in [Task -> State \cup {NoState}]
      /\ state'[s] = st /\ \A t \in Task : t # s => state'[t] = state[t]
      /\ \A t \in Task : state'[t] = NoState <=> state[t] = NoState
      /\ \A t \in Task : state'[t] \in State <=> state[t] \in State
      /\ Overwritten' <=> Overwritten
  BY <1>1, <1>2, StateChanged
<1>4. listing' \in [by : Task \cup {None}, mode : View, catalog : {"captured", "fresh"}]
  BY <1>1 DEF TypeOK, State
<1>5. TypeOK'
  BY <1>1, <1>3, <1>4 DEF TypeOK, config, host
<1>6. StateInv'
  <2>1. \A t \in {current', refreshing', listing'.by} : t # None => state'[t] \in State
    BY <1>1, <1>3 DEF StateInv, TypeOK
  <2>2. listing'.catalog = "fresh" => listing'.by # None /\ state'[listing'.by].catalog = "fresh"
    BY <1>1, <1>2, <1>3 DEF StateInv, TypeOK
  <2>3. current' = None => \A t \in Task : state'[t] = NoState
    BY <1>1, <1>3 DEF StateInv
  <2>4. \A t \in Task : task'[t].stage \in {"unused", "key"} => state'[t] = NoState
    BY <1>1, <1>3 DEF StateInv
  <2> QED
    BY <1>1, <2>1, <2>2, <2>3, <2>4 DEF StateInv, host
<1>7. LastInv' /\ EffectiveView' = EffectiveView /\ CommandInv'
  BY <1>3, SameCommands
<1>8. OnceInv'
  BY <1>1, <1>3 DEF OnceInv, Live, CommandCaptures, host
<1>9. ListedInv'
  <2> SUFFICES ASSUME current # None, ~Overwritten, ~clobbered PROVE Shown' /\ (~lost' => Chosen')
    BY <1>3 DEF ListedInv
  <2>1. s = current
    BY <1>1, OneOwner
  <2>2. state[s].registry = session => listing' = Exact'
    BY <1>2, <1>3, <2>1 DEF Exact
  <2>3. Shown'
    BY <1>1, <1>2, <1>3, <2>1, <2>2 DEF ListedInv, Shown, host
  <2> QED
    BY <1>1, <1>2, <1>3, <1>7, <2>1, <2>3 DEF ListedInv, Chosen, config
<1> QED
  BY <1>5, <1>6, <1>7, <1>8, <1>9 DEF CaptureInv

LEMMA RefreshLandsKeeps == ASSUME CaptureInv, RefreshLands PROVE CaptureInv'
<1>1. /\ refreshing \in Task /\ state[refreshing] \in State /\ refreshing' = None
      /\ UNCHANGED <<config, host, current, pending, task, cmd, resumed, clobbered>>
  BY DEF RefreshLands, CaptureInv, StateInv, TypeOK
<1>2. CASE UNCHANGED <<state, listing>>
  <2>1. TypeOK' /\ StateInv' /\ OnceInv'
    BY <1>1, <1>2 DEF CaptureInv, TypeOK, StateInv, OnceInv, Live, CommandCaptures, config, host
  <2>2. LastInv' /\ EffectiveView' = EffectiveView /\ CommandInv'
    BY <1>1, <1>2, SameCommands
  <2>3. ListedInv'
    BY <1>1, <1>2, <2>2
    DEF CaptureInv, ListedInv, Overwritten, Shown, Chosen, Exact, host, config
  <2> QED
    BY <2>1, <2>2, <2>3 DEF CaptureInv
<1>3. CASE /\ state' = Fresh(refreshing)
           /\ listing' = Listed([state' EXCEPT ![refreshing].catalog = "fresh"],
                                refreshing, session, listing)
  <2>1. PICK s \in Task : s = refreshing
    BY <1>1
  <2>2. /\ state \in [Task -> State \cup {NoState}] /\ state[s] \in State
        /\ [state' EXCEPT ![s].catalog = "fresh"] = state'
        /\ state'[s].mode = state[s].mode /\ state'[s].catalog = "fresh"
        /\ state'[s].registry = state[s].registry
    BY <1>1, <1>3, <2>1 DEF CaptureInv, TypeOK, Fresh, State, NoState
  <2>3. \/ listing' = [by |-> s, mode |-> state[s].mode, catalog |-> "fresh"]
        \/ listing' = listing /\ state[s].registry # session
    BY <1>3, <2>1, <2>2 DEF Listed
  <2> QED
    BY <1>1, <1>3, <2>1, <2>2, <2>3, FreshKeeps
<1> QED
  BY <1>2, <1>3 DEF RefreshLands

LEMMA PiRefreshKeeps == ASSUME CaptureInv, PiRefresh PROVE CaptureInv'
<1>1. PICK s \in Task : s = listing.by
  BY DEF PiRefresh, CaptureInv, TypeOK
<1>2. /\ state \in [Task -> State \cup {NoState}] /\ state[s] \in State /\ state' = Fresh(s)
      /\ UNCHANGED <<config, host, current, pending, refreshing, task, cmd, resumed, clobbered>>
  BY <1>1 DEF PiRefresh, CaptureInv, TypeOK, StateInv
<1>3. state'[s].mode = state[s].mode
  BY <1>2 DEF Fresh
<1>4. listing' = [by |-> s, mode |-> state[s].mode, catalog |-> "fresh"]
  BY <1>1, <1>3 DEF PiRefresh
<1> QED
  BY <1>2, <1>4, FreshKeeps

(* a command moves on, to a stage that promises nothing yet *)
LEMMA CommandMoves ==
  ASSUME CaptureInv, NEW x \in Command, NEW c \in Invocation,
         cmd[x].stage \notin {"flip", "apply", "filter"},
         c.stage \in {"waiting", "clear", "done"}, cmd' = [cmd EXCEPT ![x] = c],
         UNCHANGED <<config, host, listing, current, state, pending, refreshing, task, resumed,
                     clobbered>>
  PROVE  CaptureInv'
<1>1. TypeOK /\ StateInv /\ OnceInv /\ LastInv /\ ListedInv /\ CommandInv
  BY DEF CaptureInv
<1>2. /\ cmd' \in [Command -> Invocation] /\ cmd'[x] = c
      /\ \A y \in Command : y # x => cmd'[y] = cmd[y]
  BY <1>1 DEF TypeOK
<1>3. TypeOK' /\ StateInv' /\ OnceInv'
  BY <1>1, <1>2 DEF TypeOK, StateInv, OnceInv, Live, CommandCaptures, config, host
<1>4. \A i \in DOMAIN resumed : resumed[i] \in Command /\ resumed[i] # x
  BY <1>1 DEF TypeOK, CommandInv
<1>5. CommandInv'
  BY <1>1, <1>2, <1>4 DEF CommandInv
<1>6. LastInv'
  <2>1. resumed # <<>> => Len(resumed) \in DOMAIN resumed
    BY <1>1 DEF TypeOK
  <2> QED
    BY <1>1, <1>2, <1>4, <2>1 DEF LastInv, config
<1>7. Shown => Shown'
  BY <1>1, <1>2 DEF Shown, Exact, host
<1>8. ListedInv'
  BY <1>1, <1>7 DEF ListedInv, Overwritten, Chosen, EffectiveView, config
<1> QED
  BY <1>3, <1>5, <1>6, <1>8 DEF CaptureInv

LEMMA InvokeKeeps == ASSUME CaptureInv, NEW x \in Command, Invoke(x) PROVE CaptureInv'
<1>1. /\ cmd[x].stage = "idle"
      /\ UNCHANGED <<config, host, listing, current, state, pending, refreshing, task, resumed,
                     clobbered>>
  BY DEF Invoke, Idle
<1>2. PICK c \in Invocation : cmd' = [cmd EXCEPT ![x] = c] /\ c.stage \in {"waiting", "clear"}
  <2>1. /\ [stage |-> "waiting", runner |-> runner, on |-> pending, next |-> "free"] \in Invocation
        /\ [stage |-> "clear", runner |-> runner, on |-> None, next |-> Flip(flag)] \in Invocation
    BY DEF Invocation, CaptureInv, TypeOK, View, Flip
  <2> QED
    BY <2>1 DEF Invoke
<1> QED
  BY <1>1, <1>2, CommandMoves

LEMMA DoneInvocation == [Idle EXCEPT !.stage = "done"] \in Invocation
                        /\ [Idle EXCEPT !.stage = "done"].stage = "done"
BY DEF Idle, Invocation, View

(* a command is going to flip the view of a state of the live session *)
LEMMA FlipKeeps ==
  ASSUME CaptureInv, NEW x \in Command, cmd[x].stage = "waiting", current # None,
         state' = [state EXCEPT ![current].registry = session],
         cmd' = [cmd EXCEPT ![x].stage = "flip", ![x].on = current],
         UNCHANGED <<config, host, listing, current, pending, refreshing, task, resumed, clobbered>>
  PROVE  CaptureInv'
<1> DEFINE st == [state[current] EXCEPT !.registry = session]
           c == [cmd[x] EXCEPT !.stage = "flip", !.on = current]
<1>1. TypeOK /\ StateInv /\ OnceInv /\ LastInv /\ ListedInv /\ CommandInv
  BY DEF CaptureInv
<1>2. current \in Task /\ state[current] \in State
  BY <1>1 DEF TypeOK, StateInv
<1>3. /\ st \in State /\ st.mode = state[current].mode /\ st.catalog = state[current].catalog
      /\ st.registry = session /\ state' = [state EXCEPT ![current] = st]
  BY <1>1, <1>2 DEF State, TypeOK
<1>4. c \in Invocation /\ c.stage = "flip" /\ c.on = current /\ cmd' = [cmd EXCEPT ![x] = c]
  BY <1>1, <1>2 DEF TypeOK, Invocation
<1> HIDE DEF st, c
<1>5. /\ cmd' \in [Command -> Invocation] /\ cmd'[x] = c
      /\ \A y \in Command : y # x => cmd'[y] = cmd[y]
  BY <1>1, <1>4, ZenonT(40) DEF TypeOK
<1>6. /\ state' \in [Task -> State \cup {NoState}]
      /\ state'[current] = st /\ \A t \in Task : t # current => state'[t] = state[t]
      /\ \A t \in Task : state'[t] = NoState <=> state[t] = NoState
      /\ \A t \in Task : state'[t] \in State <=> state[t] \in State
      /\ Overwritten' <=> Overwritten
  BY <1>1, <1>2, <1>3, StateChanged
<1>7. TypeOK'
  BY <1>1, <1>5, <1>6 DEF TypeOK, config, host
<1>8. StateInv'
  BY <1>1, <1>2, <1>3, <1>6 DEF StateInv, TypeOK, host
<1>9. OnceInv'
  BY <1>1, <1>6 DEF OnceInv, Live, CommandCaptures, host
<1>10. \A i \in DOMAIN resumed : resumed[i] \in Command /\ resumed[i] # x
  BY <1>1 DEF TypeOK, CommandInv
<1>11. CommandInv'
  BY <1>1, <1>2, <1>4, <1>5, <1>6, <1>10 DEF CommandInv
<1>12. LastInv'
  <2>1. resumed # <<>> => Len(resumed) \in DOMAIN resumed
    BY <1>1 DEF TypeOK
  <2> QED
    BY <1>1, <1>5, <1>10, <2>1 DEF LastInv, config
<1>13. ListedInv'
  BY <1>1, <1>2, <1>3, <1>4, <1>5, <1>6 DEF ListedInv, Shown, Chosen, EffectiveView, host, config
<1> QED
  BY <1>7, <1>8, <1>9, <1>11, <1>12, <1>13 DEF CaptureInv

(* a command starts a capture of its own *)
LEMMA OwnCaptureKeeps ==
  ASSUME CaptureInv, NEW x \in Command, cmd[x].stage = "waiting", current = None,
         NEW t \in Task, task[t] = NoTask,
         task' = [task EXCEPT ![t] = [kind |-> "command", stage |-> "key", runner |-> runner,
                                      snapshot |-> session]],
         cmd' = [cmd EXCEPT ![x].stage = "capturing", ![x].on = t],
         UNCHANGED <<config, host, listing, current, state, pending, refreshing, resumed, clobbered>>
  PROVE  CaptureInv'
<1> DEFINE r == [kind |-> "command", stage |-> "key", runner |-> runner, snapshot |-> session]
           c == [cmd[x] EXCEPT !.stage = "capturing", !.on = t]
<1>1. TypeOK /\ StateInv /\ OnceInv /\ LastInv /\ CommandInv
  BY DEF CaptureInv
<1>2. /\ r \in Capture /\ r.kind = "command" /\ r.stage = "key" /\ r.runner = runner
      /\ task' = [task EXCEPT ![t] = r] /\ task[t].kind = "none"
  BY <1>1 DEF Capture, TypeOK, NoTask
<1>3. c \in Invocation /\ c.stage = "capturing" /\ c.on = t /\ cmd' = [cmd EXCEPT ![x] = c]
  BY <1>1 DEF TypeOK, Invocation
<1> HIDE DEF r, c
<1>4. /\ cmd' \in [Command -> Invocation] /\ cmd'[x] = c
      /\ \A y \in Command : y # x => cmd'[y] = cmd[y]
  BY <1>1, <1>3, ZenonT(40) DEF TypeOK
<1>5. /\ task' \in [Task -> Capture \cup {NoTask}] /\ task'[t] = r
      /\ \A s \in Task : s # t => task'[s] = task[s]
  BY <1>1, <1>2 DEF TypeOK
<1>6. TypeOK'
  BY <1>1, <1>4, <1>5 DEF TypeOK, config, host
<1>7. StateInv'
  <2>1. \A s \in Task : task'[s].runner <= runner
    BY <1>1, <1>2, <1>5 DEF StateInv, TypeOK
  <2> QED
    BY <1>1, <1>2, <1>5, <2>1 DEF StateInv, TypeOK, host
<1>8. OnceInv'
  <2>1. \A s \in Task : Live(s)' => Live(s)
    BY <1>1, <1>2, <1>5 DEF Live, host
  <2>2. CommandCaptures'
    BY <1>2, <1>5 DEF CommandCaptures
  <2>3. ~clobbered => \A s \in Task : Live(s)' => pending = s /\ task'[s].snapshot = session
    <3>1. ~clobbered => \A s \in Task : Live(s) => pending = s /\ task[s].snapshot = session
      BY <1>1 DEF OnceInv
    <3>2. \A s \in Task : Live(s)' => s # t
      BY <1>2, <1>5 DEF Live
    <3> QED
      BY <1>5, <2>1, <3>1, <3>2
  <2> QED
    BY <2>2, <2>3 DEF OnceInv, host
<1>9. \A i \in DOMAIN resumed : resumed[i] \in Command /\ resumed[i] # x
  BY <1>1 DEF TypeOK, CommandInv
<1>10. CommandInv'
  <2>1. \A y \in Command : y # x /\ cmd[y].stage = "capturing" =>
          cmd[y].on \in Task /\ cmd[y].on # t /\ task'[cmd[y].on] = task[cmd[y].on]
    BY <1>1, <1>2, <1>5 DEF CommandInv
  <2> QED
    BY <1>1, <1>2, <1>3, <1>4, <1>5, <1>9, <2>1 DEF CommandInv
<1>11. LastInv'
  <2>1. resumed # <<>> => Len(resumed) \in DOMAIN resumed
    BY <1>1 DEF TypeOK
  <2> QED
    BY <1>1, <1>4, <1>9, <2>1 DEF LastInv, config
<1> QED
  BY <1>6, <1>7, <1>8, <1>10, <1>11 DEF CaptureInv, ListedInv

LEMMA ProceedKeeps == ASSUME CaptureInv, NEW x \in Command, Proceed(x) PROVE CaptureInv'
<1>1. /\ cmd[x].stage = "waiting"
      /\ UNCHANGED <<config, host, listing, current, pending, refreshing, resumed, clobbered>>
  BY DEF Proceed
<1>2. CASE Ended(x) /\ UNCHANGED <<state, task>>
  BY <1>1, <1>2, CommandMoves, DoneInvocation DEF Ended
<1>3. CASE /\ current # None
           /\ state' = [state EXCEPT ![current].registry = session]
           /\ cmd' = [cmd EXCEPT ![x].stage = "flip", ![x].on = current]
           /\ UNCHANGED task
  BY <1>1, <1>3, FlipKeeps
<1>4. CASE /\ current = None
           /\ \E t \in Unused :
                /\ task' = [task EXCEPT ![t] = [kind |-> "command", stage |-> "key",
                                                runner |-> runner, snapshot |-> session]]
                /\ cmd' = [cmd EXCEPT ![x].stage = "capturing", ![x].on = t]
           /\ UNCHANGED state
  BY <1>1, <1>4, OwnCaptureKeeps DEF Unused
<1> QED
  BY <1>2, <1>3, <1>4 DEF Proceed

(* a command's own capture fails, or makes a state that the command will list *)
LEMMA CommandCapturedKeeps ==
  ASSUME CaptureInv, NEW x \in Command, CommandCaptured(x)
  PROVE  CaptureInv'
<1>1. /\ TypeOK /\ StateInv /\ OnceInv /\ LastInv /\ CommandInv /\ ListedInv
      /\ cmd[x].stage = "capturing"
      /\ UNCHANGED <<config, host, listing, pending, refreshing, resumed, clobbered>>
  BY DEF CaptureInv, CommandCaptured
<1>2. PICK t \in Task : t = cmd[x].on /\ task[t].kind = "command" /\ task[t].stage = "key"
  BY <1>1 DEF CommandInv
<1>3. task[t] \in Capture /\ state[t] = NoState /\ task[t].runner <= runner
  BY <1>1, <1>2 DEF TypeOK, StateInv, NoTask
<1>4. \A i \in DOMAIN resumed : resumed[i] \in Command /\ resumed[i] # x
  BY <1>1 DEF TypeOK, CommandInv
<1>5. \A y \in Command : y # x /\ cmd[y].stage = "capturing" =>
        cmd[y].on \in Task /\ cmd[y].on # t
  BY <1>1, <1>2 DEF CommandInv
<1>6. resumed # <<>> => Len(resumed) \in DOMAIN resumed
  BY <1>1 DEF TypeOK
<1>7. ASSUME NEW g \in {"done", "failed"}, task' = [task EXCEPT ![t].stage = g],
             NEW c \in Invocation, cmd' = [cmd EXCEPT ![x] = c]
      PROVE  /\ cmd' \in [Command -> Invocation] /\ cmd'[x] = c
             /\ \A y \in Command : y # x => cmd'[y] = cmd[y]
             /\ task'[t] \in Capture /\ task'[t].stage = g /\ task'[t].kind = "command"
             /\ task'[t].runner = task[t].runner
             /\ \A s \in Task : s # t => task'[s] = task[s]
             /\ task' \in [Task -> Capture \cup {NoTask}]
             /\ \A s \in Task : Live(s)' <=> Live(s)
             /\ \A s \in Task : task'[s].runner <= runner
             /\ CommandCaptures' /\ LastInv'
             /\ \A s \in Task : task'[s].kind = task[s].kind
             /\ \A s \in Task : Live(s)' => task'[s] = task[s]
  <2>1. cmd' \in [Command -> Invocation] /\ cmd'[x] = c /\ \A y \in Command : y # x => cmd'[y] = cmd[y]
    BY <1>1, <1>7 DEF TypeOK
  <2>2. task'[t] = [task[t] EXCEPT !.stage = g] /\ \A s \in Task : s # t => task'[s] = task[s]
    BY <1>1, <1>7 DEF TypeOK
  <2>3. /\ task'[t] \in Capture /\ task'[t].stage = g /\ task'[t].kind = "command"
        /\ task'[t].runner = task[t].runner
    BY <1>2, <1>3, <2>2 DEF Capture
  <2>4. task' \in [Task -> Capture \cup {NoTask}]
    BY <1>1, <1>7, <2>2, <2>3 DEF TypeOK
  <2>5. \A s \in Task : Live(s)' <=> Live(s)
    <3> SUFFICES ASSUME NEW s \in Task PROVE Live(s)' <=> Live(s)
      OBVIOUS
    <3>1. CASE s = t
      BY <1>2, <2>3, <3>1 DEF Live
    <3>2. CASE s # t
      BY <1>1, <2>2, <3>2 DEF Live, host
    <3> QED
      BY <3>1, <3>2
  <2>6. CommandCaptures'
    BY <2>3 DEF CommandCaptures
  <2>7. LastInv' <=> LastInv
    <3>1. lost' = lost /\ resumed' = resumed /\ choice' = choice
      BY <1>1 DEF config
    <3>2. resumed # <<>> => cmd'[resumed[Len(resumed)]] = cmd[resumed[Len(resumed)]]
      BY <1>4, <1>6, <2>1
    <3> QED
      BY <3>1, <3>2 DEF LastInv
  <2>8. \A s \in Task : task'[s].runner <= runner
    BY <1>1, <1>3, <2>2, <2>3 DEF StateInv
  <2>9. \A s \in Task : Live(s)' => task'[s] = task[s]
    BY <2>2, <2>3 DEF Live
  <2> QED
    BY <1>1, <1>2, <2>1, <2>2, <2>3, <2>4, <2>5, <2>6, <2>7, <2>8, <2>9
<1>8. CASE Stage(t, "failed") /\ Ended(x) /\ UNCHANGED <<state, current>>
  <2>1. PICK c \in Invocation : c.stage = "done" /\ cmd' = [cmd EXCEPT ![x] = c]
    BY <1>8, DoneInvocation DEF Ended
  <2>2. task' = [task EXCEPT ![t].stage = "failed"]
    BY <1>8 DEF Stage
  <2>3. /\ cmd' \in [Command -> Invocation] /\ cmd'[x] = c
        /\ \A y \in Command : y # x => cmd'[y] = cmd[y]
        /\ task'[t].stage = "failed" /\ \A s \in Task : s # t => task'[s] = task[s]
        /\ task' \in [Task -> Capture \cup {NoTask}]
        /\ \A s \in Task : Live(s)' <=> Live(s)
        /\ \A s \in Task : task'[s].runner <= runner
        /\ CommandCaptures' /\ LastInv'
        /\ \A s \in Task : task'[s].kind = task[s].kind
        /\ \A s \in Task : Live(s)' => task'[s] = task[s]
    BY <1>7, <2>1, <2>2
  <2>4. TypeOK'
    BY <1>1, <1>8, <2>3 DEF TypeOK, config, host
  <2>5. StateInv'
    BY <1>1, <1>8, <2>3 DEF StateInv, TypeOK, host
  <2>6. OnceInv'
    BY <1>1, <1>8, <2>3 DEF OnceInv, host
  <2>7. CommandInv'
    BY <1>1, <1>4, <1>5, <1>8, <2>1, <2>3 DEF CommandInv
  <2>8. Shown => Shown'
    BY <1>1, <1>8, <2>3 DEF Shown, Exact, host
  <2>9. ListedInv'
    BY <1>1, <1>8, <2>8 DEF ListedInv, Overwritten, Chosen, EffectiveView, config
  <2> QED
    BY <2>3, <2>4, <2>5, <2>6, <2>7, <2>9 DEF CaptureInv
<1>9. CASE /\ state' = [state EXCEPT ![t] = [mode |-> EffectiveView, catalog |-> "captured",
                                             registry |-> session]]
           /\ current' = t /\ Stage(t, "done") /\ Then(x, "flip")
  <2> DEFINE st == [mode |-> EffectiveView, catalog |-> "captured", registry |-> session]
             c == [cmd[x] EXCEPT !.stage = "flip"]
  <2>1. st \in State /\ st.mode = EffectiveView /\ st.catalog = "captured" /\ st.registry = session
    BY <1>1, CaptureTypes DEF State, TypeOK
  <2>2. c \in Invocation /\ c.stage = "flip" /\ c.on = t /\ cmd' = [cmd EXCEPT ![x] = c]
    BY <1>1, <1>2, <1>9 DEF TypeOK, Invocation, Then
  <2>3. state' = [state EXCEPT ![t] = st] /\ task' = [task EXCEPT ![t].stage = "done"]
    BY <1>9 DEF Stage
  <2> HIDE DEF st, c
  <2>4. /\ cmd' \in [Command -> Invocation] /\ cmd'[x] = c
        /\ \A y \in Command : y # x => cmd'[y] = cmd[y]
        /\ task'[t].stage = "done" /\ \A s \in Task : s # t => task'[s] = task[s]
        /\ task' \in [Task -> Capture \cup {NoTask}]
        /\ \A s \in Task : Live(s)' <=> Live(s)
        /\ \A s \in Task : task'[s].runner <= runner
        /\ CommandCaptures' /\ LastInv'
        /\ \A s \in Task : task'[s].kind = task[s].kind
        /\ \A s \in Task : Live(s)' => task'[s] = task[s]
    BY <1>7, <2>2, <2>3
  <2>5. /\ state' \in [Task -> State \cup {NoState}]
        /\ state'[t] = st /\ \A s \in Task : s # t => state'[s] = state[s]
        /\ \A s \in Task : state[s] \in State => state'[s] \in State
    BY <1>1, <2>1, <2>3 DEF TypeOK
  <2>6. TypeOK'
    BY <1>1, <1>9, <2>4, <2>5 DEF TypeOK, config, host
  <2>7. StateInv'
    <3>1. current' # None
      BY <1>9, BuiltInCaptureAssumption
    <3>2. \A s \in {current', refreshing', listing'.by} : s # None => state'[s] \in State
      BY <1>1, <1>9, <2>1, <2>5 DEF StateInv, TypeOK
    <3>3. listing'.catalog = "fresh" => listing'.by # None /\ state'[listing'.by].catalog = "fresh"
      BY <1>1, <1>3, <2>5, NoStateIsNone DEF StateInv, TypeOK
    <3>4. \A s \in Task : task'[s].stage \in {"unused", "key"} => state'[s] = NoState
      BY <1>1, <2>4, <2>5 DEF StateInv
    <3>5. pending' # None => task'[pending'].kind = "session"
      BY <1>1, <2>4 DEF StateInv, TypeOK
    <3>6. starts' = 0 => \A s \in Task : task'[s].kind # "session"
      BY <1>1, <2>4 DEF StateInv, host
    <3>7. \A s \in Task : task'[s].runner <= runner'
      BY <1>1, <2>4 DEF host
    <3> QED
      BY <3>1, <3>2, <3>3, <3>4, <3>5, <3>6, <3>7 DEF StateInv
  <2>8. OnceInv'
    <3>1. current' # None
      BY <1>9, BuiltInCaptureAssumption
    <3> QED
      BY <1>1, <2>4, <3>1 DEF OnceInv
  <2>9. CommandInv'
    BY <1>1, <1>4, <1>5, <2>1, <2>2, <2>4, <2>5 DEF CommandInv
  <2>10. ListedInv'
    <3>1. EffectiveView' = EffectiveView
      BY <1>1 DEF EffectiveView, config
    <3>2. Shown' /\ Chosen'
      BY <1>1, <1>9, <2>1, <2>2, <2>4, <2>5, <3>1 DEF Shown, Chosen, host
    <3> QED
      BY <3>2 DEF ListedInv
  <2> QED
    BY <2>4, <2>6, <2>7, <2>8, <2>9, <2>10 DEF CaptureInv
<1> QED
  BY <1>2, <1>8, <1>9 DEF CommandCaptured

(* the update of the file, after which a command waits for its turn *)
LEMMA FileUpdateKeeps ==
  ASSUME CaptureInv, NEW x \in Command, Update(x)
  PROVE  CaptureInv'
<1>1. /\ TypeOK /\ StateInv /\ OnceInv /\ LastInv /\ CommandInv /\ ListedInv
      /\ cmd[x].stage \in {"flip", "clear"} /\ resumed' = Append(resumed, x)
      /\ UNCHANGED <<flag, host, listing, current, state, pending, refreshing, task, clobbered>>
  BY DEF CaptureInv, Update
<1>2. PICK c \in Invocation :
        /\ cmd' = [cmd EXCEPT ![x] = c] /\ c.on = cmd[x].on
        /\ \/ cmd[x].stage = "flip" /\ c.stage = "apply"
              /\ \/ choice' = c.next /\ choice' \in View /\ lost' = lost
                 \/ choice' = choice /\ lost' = TRUE
           \/ cmd[x].stage = "clear" /\ c.stage = "filter"
              /\ choice' \in {choice, None} /\ lost' \in {lost, TRUE}
  <2>0. cmd[x] \in Invocation /\ cmd \in [Command -> Invocation]
    BY <1>1 DEF TypeOK
  <2>1. ASSUME NEW v \in View
        PROVE  /\ [cmd[x] EXCEPT !.stage = "apply", !.next = v] \in Invocation
               /\ [cmd[x] EXCEPT !.stage = "apply", !.next = v].on = cmd[x].on
               /\ [cmd[x] EXCEPT !.stage = "apply", !.next = v].stage = "apply"
               /\ [cmd[x] EXCEPT !.stage = "apply", !.next = v].next = v
               /\ [cmd EXCEPT ![x].stage = "apply", ![x].next = v] =
                    [cmd EXCEPT ![x] = [cmd[x] EXCEPT !.stage = "apply", !.next = v]]
    BY <2>0 DEF Invocation
  <2>2. CASE cmd[x].stage = "flip"
    <3>1. PICK v \in View, u \in View :
            \/ choice' = v /\ lost' = lost /\ cmd' = [cmd EXCEPT ![x].stage = "apply", ![x].next = v]
            \/ /\ choice' = choice /\ lost' = TRUE
               /\ cmd' = [cmd EXCEPT ![x].stage = "apply", ![x].next = u]
      BY <2>2 DEF Update, Flip, View
    <3> DEFINE d == [cmd[x] EXCEPT !.stage = "apply", !.next = v]
               e == [cmd[x] EXCEPT !.stage = "apply", !.next = u]
    <3>2. d \in Invocation /\ d.on = cmd[x].on /\ d.stage = "apply" /\ d.next = v
      BY <2>1
    <3>3. e \in Invocation /\ e.on = cmd[x].on /\ e.stage = "apply"
      BY <2>1
    <3>4. \/ choice' = v /\ lost' = lost /\ cmd' = [cmd EXCEPT ![x] = d]
          \/ choice' = choice /\ lost' = TRUE /\ cmd' = [cmd EXCEPT ![x] = e]
      BY <2>1, <3>1
    <3> HIDE DEF d, e
    <3> QED
      BY <2>2, <3>2, <3>3, <3>4
  <2>3. CASE cmd[x].stage = "clear"
    <3> DEFINE d == [cmd[x] EXCEPT !.stage = "filter"]
    <3>1. d \in Invocation /\ d.on = cmd[x].on /\ d.stage = "filter" /\ cmd' = [cmd EXCEPT ![x] = d]
      BY <2>0, <2>3 DEF Invocation, Update, Then
    <3>2. choice' \in {choice, None} /\ lost' \in {lost, TRUE}
      BY <2>3 DEF Update
    <3> HIDE DEF d
    <3> QED
      BY <2>3, <3>1, <3>2
  <2> QED
    BY <1>1, <2>2, <2>3
<1>3. /\ cmd' \in [Command -> Invocation] /\ cmd'[x] = c
      /\ \A y \in Command : y # x => cmd'[y] = cmd[y]
  BY <1>1, <1>2 DEF TypeOK
<1>4. /\ resumed' \in Seq(Command) /\ resumed' # <<>>
      /\ DOMAIN resumed' = 1 .. Len(resumed) + 1 /\ Len(resumed') = Len(resumed) + 1
      /\ DOMAIN resumed = 1 .. Len(resumed) /\ Len(resumed) \in Nat
      /\ \A i \in DOMAIN resumed : resumed'[i] = resumed[i]
      /\ resumed'[Len(resumed) + 1] = x
  BY <1>1 DEF TypeOK
<1>5. \A i \in DOMAIN resumed : resumed[i] \in Command /\ resumed[i] # x
  BY <1>1, <1>4 DEF TypeOK, CommandInv
<1>6. TypeOK'
  <2>1. choice' \in View \cup {None} /\ lost' \in BOOLEAN
    BY <1>1, <1>2 DEF TypeOK
  <2> QED
    BY <1>1, <1>3, <1>4, <2>1 DEF TypeOK, host
<1>7. StateInv' /\ OnceInv'
  BY <1>1 DEF StateInv, OnceInv, Live, CommandCaptures, host
<1>8. CommandInv'
  <2>1. \A i \in DOMAIN resumed' : resumed'[i] = x \/ (i \in DOMAIN resumed /\ resumed'[i] = resumed[i])
    BY <1>4
  <2>2. \A i \in DOMAIN resumed' : cmd'[resumed'[i]].stage \in {"apply", "filter"}
    BY <1>1, <1>2, <1>3, <1>5, <2>1, ZenonT(40) DEF CommandInv
  <2>3. \A i, j \in DOMAIN resumed' : resumed'[i] = resumed'[j] => i = j
    <3>1. \A i \in DOMAIN resumed' : i \in DOMAIN resumed \/ i = Len(resumed) + 1
      BY <1>4
    <3> QED
      BY <1>1, <1>4, <1>5, <3>1 DEF CommandInv
  <2>4. \A y \in Command : cmd'[y].stage \in {"apply", "filter"} =>
          \E i \in DOMAIN resumed' : resumed'[i] = y
    <3> SUFFICES ASSUME NEW y \in Command, cmd'[y].stage \in {"apply", "filter"}
                 PROVE  \E i \in DOMAIN resumed' : resumed'[i] = y
      OBVIOUS
    <3>1. CASE y = x
      BY <1>4, <3>1
    <3>2. CASE y # x
      BY <1>1, <1>3, <1>4, <3>2 DEF CommandInv
    <3> QED
      BY <3>1, <3>2
  <2>5. \A y \in Command : cmd'[y].stage \in {"flip", "apply"} =>
          cmd'[y].on \in Task /\ state'[cmd'[y].on] \in State
    BY <1>1, <1>2, <1>3 DEF CommandInv
  <2>6. \A y \in Command : cmd'[y].stage = "capturing" => y # x
    BY <1>2, <1>3
  <2>7. \A y \in Command : cmd'[y].stage = "capturing" =>
          /\ cmd'[y].on \in Task
          /\ task'[cmd'[y].on].kind = "command" /\ task'[cmd'[y].on].stage = "key"
    BY <1>1, <1>3, <2>6 DEF CommandInv
  <2>8. \A y, z \in Command : cmd'[y].stage = "capturing" /\ cmd'[z].stage = "capturing"
                             /\ cmd'[y].on = cmd'[z].on => y = z
    BY <1>1, <1>3, <2>6 DEF CommandInv
  <2> QED
    BY <2>2, <2>3, <2>4, <2>5, <2>7, <2>8 DEF CommandInv
<1>9. LastInv'
  BY <1>2, <1>3, <1>4 DEF LastInv
<1>10. ListedInv'
  <2>1. \A y \in Command : cmd[y].stage \in {"flip", "apply"} => cmd'[y].stage \in {"flip", "apply"}
    BY <1>2, <1>3
  <2>2. Shown => Shown'
    BY <1>1, <2>1 DEF Shown, Exact, host
  <2> QED
    BY <1>1, <1>4, <2>2 DEF ListedInv, Overwritten, Chosen
<1> QED
  BY <1>6, <1>7, <1>8, <1>9, <1>10 DEF CaptureInv

(* the first of the commands that wait has its turn *)
LEMMA TurnTaken ==
  ASSUME CaptureInv, NEW x \in Command, resumed # <<>>, x = Head(resumed),
         resumed' = Tail(resumed), Ended(x)
  PROVE  /\ cmd' \in [Command -> Invocation] /\ cmd'[x].stage = "done"
         /\ \A y \in Command : y # x => cmd'[y] = cmd[y]
         /\ resumed' \in Seq(Command)
         /\ (\A s \in Task : state[s] \in State => state'[s] \in State) /\ UNCHANGED task
              => CommandInv'
         /\ UNCHANGED <<choice, lost>> => LastInv'
         /\ resumed' = <<>> => resumed[Len(resumed)] = x
<1>1. TypeOK /\ CommandInv /\ LastInv
  BY DEF CaptureInv
<1>2. PICK c \in Invocation : c.stage = "done" /\ cmd' = [cmd EXCEPT ![x] = c]
  BY DoneInvocation DEF Ended
<1>3. /\ cmd' \in [Command -> Invocation] /\ cmd'[x] = c
      /\ \A y \in Command : y # x => cmd'[y] = cmd[y]
  BY <1>1, <1>2 DEF TypeOK
<1>4. /\ resumed' \in Seq(Command)
      /\ DOMAIN resumed = 1 .. Len(resumed) /\ Len(resumed) \in Nat /\ Len(resumed) >= 1
      /\ Len(resumed') = Len(resumed) - 1 /\ DOMAIN resumed' = 1 .. Len(resumed) - 1
      /\ \A i \in DOMAIN resumed' : resumed'[i] = resumed[i + 1]
      /\ resumed[1] = x
  BY <1>1 DEF TypeOK
<1>5. \A i \in DOMAIN resumed : i # 1 => resumed[i] \in Command /\ resumed[i] # x
  BY <1>1, <1>4 DEF TypeOK, CommandInv
<1>6. \A i \in DOMAIN resumed' : /\ i + 1 \in DOMAIN resumed /\ i + 1 # 1
                                 /\ resumed'[i] \in Command /\ resumed'[i] # x
  BY <1>4, <1>5
<1>7. ASSUME \A s \in Task : state[s] \in State => state'[s] \in State, UNCHANGED task
      PROVE  CommandInv'
  <2>1. \A i \in DOMAIN resumed' : cmd'[resumed'[i]].stage \in {"apply", "filter"}
    BY <1>1, <1>3, <1>4, <1>6 DEF CommandInv
  <2>2. \A i, j \in DOMAIN resumed' : resumed'[i] = resumed'[j] => i = j
    <3> SUFFICES ASSUME NEW i \in DOMAIN resumed', NEW j \in DOMAIN resumed',
                        resumed'[i] = resumed'[j]
                 PROVE  i = j
      OBVIOUS
    <3>1. i + 1 \in DOMAIN resumed /\ j + 1 \in DOMAIN resumed /\ resumed[i + 1] = resumed[j + 1]
      BY <1>4, <1>6
    <3>2. i + 1 = j + 1
      BY <1>1, <3>1 DEF CommandInv
    <3> QED
      BY <1>4, <3>2
  <2>3. \A y \in Command : cmd'[y].stage \in {"apply", "filter"} =>
          \E i \in DOMAIN resumed' : resumed'[i] = y
    <3> SUFFICES ASSUME NEW y \in Command, cmd'[y].stage \in {"apply", "filter"}
                 PROVE  \E i \in DOMAIN resumed' : resumed'[i] = y
      OBVIOUS
    <3>1. y # x /\ cmd[y].stage \in {"apply", "filter"}
      BY <1>2, <1>3
    <3>2. PICK i \in DOMAIN resumed : resumed[i] = y
      BY <1>1, <3>1 DEF CommandInv
    <3>3. i # 1
      BY <1>4, <3>1, <3>2
    <3>4. i - 1 \in DOMAIN resumed' /\ resumed'[i - 1] = y
      BY <1>4, <3>2, <3>3
    <3> QED
      BY <3>4
  <2>4. \A y \in Command : cmd'[y].stage \in {"flip", "apply", "capturing"} => cmd'[y] = cmd[y]
    BY <1>2, <1>3
  <2>5. \A y \in Command : cmd'[y].stage \in {"flip", "apply"} =>
          cmd'[y].on \in Task /\ state'[cmd'[y].on] \in State
    BY <1>1, <1>7, <2>4 DEF CommandInv
  <2>6. \A y \in Command : cmd'[y].stage = "capturing" =>
          /\ cmd'[y].on \in Task
          /\ task'[cmd'[y].on].kind = "command" /\ task'[cmd'[y].on].stage = "key"
    BY <1>1, <1>7, <2>4 DEF CommandInv
  <2>7. \A y, z \in Command : cmd'[y].stage = "capturing" /\ cmd'[z].stage = "capturing"
                             /\ cmd'[y].on = cmd'[z].on => y = z
    BY <1>1, <2>4 DEF CommandInv
  <2> QED
    BY <2>1, <2>2, <2>3, <2>5, <2>6, <2>7 DEF CommandInv
<1>8. ASSUME UNCHANGED <<choice, lost>> PROVE LastInv'
  <2> SUFFICES ASSUME ~lost, resumed' # <<>>, cmd'[resumed'[Len(resumed')]].stage = "apply"
               PROVE  choice = cmd'[resumed'[Len(resumed')]].next
    BY <1>8 DEF LastInv
  <2>1. Len(resumed') \in DOMAIN resumed' /\ Len(resumed') + 1 = Len(resumed)
    BY <1>4
  <2>2. cmd'[resumed'[Len(resumed')]] = cmd[resumed[Len(resumed)]] /\ resumed # <<>>
    BY <1>3, <1>4, <1>6, <2>1
  <2> QED
    BY <1>1, <2>2 DEF LastInv
<1>9. resumed' = <<>> => resumed[Len(resumed)] = x
  <2>1. resumed' = <<>> => Len(resumed') = 0
    OBVIOUS
  <2>2. resumed' = <<>> => Len(resumed) = 1
    BY <1>4, <2>1
  <2> QED
    BY <1>4, <2>2
<1> QED
  BY <1>2, <1>3, <1>4, <1>7, <1>8, <1>9

(* the mode of a state is set, and listed where it is registered *)
LEMMA ModeApplied ==
  ASSUME CaptureInv, NEW s \in Task, state[s] \in State, NEW v \in View, ApplyMode(s, v),
         UNCHANGED <<choice, lost, host, current, pending, refreshing, task, clobbered>>,
         flag' \in View, cmd' \in [Command -> Invocation], resumed' \in Seq(Command),
         CommandInv', LastInv', ~lost /\ resumed' = <<>> => EffectiveView' = v
  PROVE  CaptureInv'
<1> DEFINE st == [state[s] EXCEPT !.mode = v]
<1>1. TypeOK /\ StateInv /\ OnceInv /\ ListedInv /\ s # None
  BY BuiltInCaptureAssumption DEF CaptureInv
<1>2. /\ st \in State /\ st.mode = v /\ st.catalog = state[s].catalog
      /\ st.registry = state[s].registry /\ state' = [state EXCEPT ![s] = st]
  BY DEF State, ApplyMode
<1> HIDE DEF st
<1>3. /\ state' \in [Task -> State \cup {NoState}]
      /\ state'[s] = st /\ \A t \in Task : t # s => state'[t] = state[t]
      /\ \A t \in Task : state'[t] = NoState <=> state[t] = NoState
      /\ \A t \in Task : state'[t] \in State <=> state[t] \in State
      /\ Overwritten' <=> Overwritten
  BY <1>1, <1>2, StateChanged
<1>4. \/ listing' = [by |-> s, mode |-> st.mode, catalog |-> st.catalog]
      \/ listing' = listing /\ st.registry # session
  BY <1>3 DEF ApplyMode, Listed
<1>5. listing' \in [by : Task \cup {None}, mode : View, catalog : {"captured", "fresh"}]
  BY <1>1, <1>2, <1>4 DEF TypeOK, State
<1>6. TypeOK'
  BY <1>1, <1>3, <1>5 DEF TypeOK, config, host
<1>7. StateInv'
  <2>1. \A t \in {current', refreshing', listing'.by} : t # None => state'[t] \in State
    BY <1>1, <1>3, <1>4 DEF StateInv, TypeOK
  <2>2. listing'.catalog = "fresh" => listing'.by # None /\ state'[listing'.by].catalog = "fresh"
    BY <1>1, <1>2, <1>3, <1>4 DEF StateInv, TypeOK
  <2>3. current' = None => \A t \in Task : state'[t] = NoState
    BY <1>1, <1>3 DEF StateInv
  <2>4. \A t \in Task : task'[t].stage \in {"unused", "key"} => state'[t] = NoState
    BY <1>1, <1>3 DEF StateInv
  <2> QED
    BY <1>1, <2>1, <2>2, <2>3, <2>4 DEF StateInv, host
<1>8. OnceInv'
  BY <1>1, <1>3 DEF OnceInv, Live, CommandCaptures, host
<1>9. ListedInv'
  <2> SUFFICES ASSUME current # None, ~Overwritten, ~clobbered PROVE Shown' /\ (~lost' => Chosen')
    BY <1>3 DEF ListedInv
  <2>1. s = current
    BY <1>1, OneOwner
  <2>2. state[s].registry = session => listing' = Exact'
    BY <1>2, <1>3, <1>4, <2>1 DEF Exact
  <2>3. Shown'
    BY <1>1, <1>2, <1>3, <2>1, <2>2 DEF ListedInv, Shown, host
  <2> QED
    BY <1>2, <1>3, <2>1, <2>3 DEF Chosen
<1> QED
  BY <1>6, <1>7, <1>8, <1>9 DEF CaptureInv

LEMMA TurnKeeps ==
  ASSUME CaptureInv, NEW x \in Command, Resume(x)
  PROVE  CaptureInv'
<1>1. /\ TypeOK /\ StateInv /\ OnceInv /\ ListedInv /\ CommandInv /\ LastInv
      /\ resumed # <<>> /\ x = Head(resumed) /\ resumed' = Tail(resumed) /\ Ended(x)
      /\ UNCHANGED <<choice, lost, host, current, pending, refreshing, task, clobbered>>
  BY DEF CaptureInv, Resume
<1>2. /\ cmd' \in [Command -> Invocation] /\ resumed' \in Seq(Command) /\ LastInv'
      /\ \A y \in Command : y # x => cmd'[y] = cmd[y]
      /\ (\A s \in Task : state[s] \in State => state'[s] \in State) => CommandInv'
      /\ resumed' = <<>> => resumed[Len(resumed)] = x
  BY <1>1, TurnTaken
<1>3. cmd[x] \in Invocation /\ cmd[x].next \in View
  BY <1>1 DEF TypeOK, Invocation
<1>4. ASSUME NEW s \in Task, state[s] \in State, NEW v \in View, ApplyMode(s, v)
      PROVE  \A r \in Task : state[r] \in State => state'[r] \in State
  BY <1>1, <1>4 DEF ApplyMode, TypeOK, State
<1>5. CASE cmd[x].stage = "apply" /\ ApplyMode(cmd[x].on, cmd[x].next) /\ UNCHANGED flag
  <2>1. PICK s \in Task : s = cmd[x].on /\ state[s] \in State
    BY <1>1, <1>5 DEF CommandInv
  <2>2. PICK v \in View : v = cmd[x].next
    BY <1>3
  <2>3. ApplyMode(s, v)
    BY <1>5, <2>1, <2>2
  <2>4. ~lost /\ resumed' = <<>> => EffectiveView' = v
    <3>1. ~lost /\ resumed' = <<>> => choice = v
      BY <1>1, <1>2, <1>5, <2>2 DEF LastInv
    <3>2. v # None
      BY BuiltInCaptureAssumption DEF View
    <3> QED
      BY <1>1, <3>1, <3>2 DEF EffectiveView
  <2>5. flag' \in View /\ CommandInv'
    BY <1>1, <1>2, <1>4, <1>5, <2>1, <2>3 DEF TypeOK
  <2> QED
    BY <1>1, <1>2, <2>1, <2>3, <2>4, <2>5, ModeApplied
<1>6. CASE /\ cmd[x].stage = "filter" /\ flag' = cmd[x].next
           /\ Filter(IF choice = None THEN cmd[x].next ELSE choice)
  <2>1. PICK v \in View : v = IF choice = None THEN cmd[x].next ELSE choice
    BY <1>1, <1>3 DEF TypeOK
  <2>2. EffectiveView' = v /\ flag' \in View
    BY <1>1, <1>3, <1>6, <2>1 DEF EffectiveView
  <2>3. CASE current = None /\ UNCHANGED <<state, listing>>
    <3>1. CommandInv'
      BY <1>2, <2>3
    <3>2. TypeOK' /\ StateInv' /\ OnceInv'
      BY <1>1, <1>2, <2>2, <2>3 DEF TypeOK, StateInv, OnceInv, Live, CommandCaptures, host
    <3> QED
      BY <1>1, <1>2, <2>3, <3>1, <3>2 DEF CaptureInv, ListedInv
  <2>4. CASE current # None /\ ApplyMode(current, v)
    <3>1. PICK s \in Task : s = current /\ state[s] \in State
      BY <1>1, <2>4 DEF StateInv, TypeOK
    <3>2. ApplyMode(s, v)
      BY <2>4, <3>1
    <3>3. CommandInv'
      BY <1>2, <1>4, <3>1, <3>2
    <3> QED
      BY <1>1, <1>2, <2>2, <3>1, <3>2, <3>3, ModeApplied
  <2> QED
    BY <1>6, <2>1, <2>3, <2>4 DEF Filter
<1> QED
  BY <1>5, <1>6 DEF Resume

THEOREM CaptureStep == CaptureInv /\ [Next]_vars => CaptureInv'
<1> SUFFICES ASSUME CaptureInv, [Next]_vars PROVE CaptureInv'
  OBVIOUS
<1>1. CASE UNCHANGED vars
  BY <1>1 DEF vars, config, host, CaptureInv, TypeOK, StateInv, CommandInv, OnceInv, LastInv, ListedInv,
     Live, CommandCaptures, Overwritten, Shown, Exact, Chosen, EffectiveView
<1> QED
  BY <1>1, LoadKeeps, ReloadKeeps, SessionStartKeeps, RefreshLandsKeeps, PiRefreshKeeps,
     CapturedKeeps, CaptureEndsKeeps, InvokeKeeps, ProceedKeeps, CommandCapturedKeeps,
     FileUpdateKeeps, TurnKeeps DEF Next

LEMMA CaptureRun == [MCNext]_allVars => [Next]_vars
BY DEF MCNext, allVars

LEMMA CaptureInvHolds == MCSpec => []CaptureInv
<1>1. MCInit => CaptureInv
  BY CaptureInit DEF MCInit
<1>2. CaptureInv /\ [MCNext]_allVars => CaptureInv'
  BY CaptureStep, CaptureRun
<1> QED
  BY <1>1, <1>2, PTL DEF MCSpec

(* A built-in provider is captured once and listed at rest as the user views  *)
(* it, whichever sessions, reloads, commands and refreshes overlapped: for    *)
(* any number of captures, commands, session starts and reloads.              *)
THEOREM CapturesAreSound == MCSpec => []CapturesSound
<1>1. CaptureInv => CapturesSound
  <2> SUFFICES ASSUME CaptureInv PROVE CapturesSound
    OBVIOUS
  <2>1. TypeOK /\ OnceInv /\ ListedInv /\ CommandInv
    BY DEF CaptureInv
  <2>2. ListedAtRest
    <3> SUFFICES ASSUME AtRest, current # None, ~Overwritten, ~clobbered, ~lost
                 PROVE  listing = [by |-> current, mode |-> EffectiveView,
                                   catalog |-> state[current].catalog]
      BY DEF ListedAtRest
    <3>1. \A x \in Command : cmd[x].stage \notin {"flip", "apply", "filter"}
      BY DEF AtRest
    <3>2. resumed = <<>>
      <4>1. resumed # <<>> => 1 \in DOMAIN resumed /\ resumed[1] \in Command
        BY <2>1 DEF TypeOK
      <4> QED
        BY <2>1, <3>1, <4>1 DEF CommandInv
    <3>3. listing = Exact /\ Chosen
      BY <2>1, <3>1 DEF ListedInv, Shown, AtRest
    <3> QED
      BY <3>2, <3>3 DEF Exact, Chosen
  <2>3. CapturedOnce
    BY <2>1 DEF OnceInv, CapturedOnce, CommandCaptures, Overwritten
  <2> QED
    BY <2>1, <2>2, <2>3 DEF CapturesSound
<1> QED
  BY <1>1, CaptureInvHolds, PTL

(* Within a session the live catalog never falls back to the captured one.    *)
LEMMA FreshStep ==
  ASSUME CaptureInv, Next, listing.catalog = "fresh", session' = session, ~Overwritten'
  PROVE  listing'.catalog = "fresh"
<1>1. TypeOK /\ StateInv /\ OnceInv /\ CommandInv
  BY DEF CaptureInv
<1>2. PICK f \in Task : f = listing.by /\ state[f] \in State /\ state[f].catalog = "fresh"
  BY <1>1 DEF StateInv, TypeOK
<1>3. current # None /\ current \in Task /\ state[current] \in State
  BY <1>1, <1>2, NoStateIsNone DEF StateInv, TypeOK
<1>4. ASSUME Overwritten, \A s \in Task : state[s] \in State => state'[s] \in State
      PROVE  FALSE
  BY <1>1, <1>4, StaysOverwritten
<1>5. ~Load
  BY <1>3 DEF Load
<1>6. ~Reload
  BY <1>1 DEF Reload, TypeOK
<1>7. CASE SessionStart
  <2> DEFINE st == [state[current] EXCEPT !.registry = session']
  <2>1. state' = [state EXCEPT ![current] = st] /\ current' = current
        /\ listing' = Listed(state', current, session', listing)
    BY <1>3, <1>7 DEF SessionStart, Reapply, HandOver, StartCapture, NoneUnderway
  <2>2. st \in State /\ st.catalog = state[current].catalog
    BY <1>1, <1>3 DEF State, TypeOK
  <2> HIDE DEF st
  <2>3. state'[current] = st /\ (Overwritten' <=> Overwritten)
    BY <1>1, <1>3, <2>1, <2>2, StateChanged
  <2>4. f = current
    BY <1>1, <1>2, <1>3, <2>3, OneOwner
  <2> QED
    BY <1>2, <2>1, <2>2, <2>3, <2>4 DEF Listed
<1>8. CASE RefreshLands
  <2>1. CASE UNCHANGED <<state, listing>>
    BY <2>1
  <2>2. CASE /\ state' = Fresh(refreshing)
             /\ listing' = Listed([state' EXCEPT ![refreshing].catalog = "fresh"],
                                  refreshing, session, listing)
    <3>1. refreshing \in Task /\ state \in [Task -> State \cup {NoState}]
      BY <1>1, <1>8 DEF RefreshLands, TypeOK
    <3>2. [state' EXCEPT ![refreshing].catalog = "fresh"][refreshing].catalog = "fresh"
      BY <2>2, <3>1 DEF Fresh, State, NoState
    <3> QED
      BY <2>2, <3>2 DEF Listed
  <2> QED
    BY <1>8, <2>1, <2>2 DEF RefreshLands
<1>9. CASE PiRefresh
  BY <1>9 DEF PiRefresh
<1>10. ASSUME NEW t \in Task, Captured(t) PROVE FALSE
  <2>1. state[t] = NoState /\ state'[t].registry = task[t].snapshot /\ task[t] \in Capture
    BY <1>1, <1>10 DEF Captured, KeyDue, StateInv, TypeOK, NoTask
  <2>2. f # t /\ state'[f] = state[f]
    BY <1>1, <1>2, <1>10, <2>1, NoStateIsNone DEF Captured, TypeOK
  <2>3. state'[t] # NoState
    <3>1. state'[t] = [mode |-> EffectiveView, catalog |-> "captured", registry |-> task[t].snapshot]
      BY <1>1, <1>10 DEF Captured, TypeOK
    <3> QED
      BY <3>1 DEF NoState
  <2> QED
    BY <1>2, <2>2, <2>3, NoStateIsNone DEF Overwritten
<1>11. ASSUME NEW t \in Task, CaptureEnds(t) PROVE listing' = listing
  BY <1>11 DEF CaptureEnds
<1>12. ASSUME NEW x \in Command, Invoke(x) \/ Proceed(x) \/ CommandCaptured(x) \/ Update(x)
       PROVE  listing' = listing
  BY <1>12 DEF Invoke, Proceed, CommandCaptured, Update
<1>13. ASSUME NEW s \in Task, state[s] \in State, NEW v \in View, ApplyMode(s, v), current' = current
       PROVE  listing'.catalog = "fresh"
  <2> DEFINE st == [state[s] EXCEPT !.mode = v]
  <2>1. st \in State /\ st.catalog = state[s].catalog /\ state' = [state EXCEPT ![s] = st]
    BY <1>13 DEF State, ApplyMode
  <2> HIDE DEF st
  <2>2. state'[s] = st /\ (Overwritten' <=> Overwritten)
    BY <1>1, <1>13, <2>1, StateChanged
  <2>3. f = current /\ s = current
    BY <1>1, <1>2, <1>3, <1>13, <2>2, OneOwner
  <2> QED
    BY <1>2, <1>13, <2>1, <2>2, <2>3 DEF ApplyMode, Listed
<1>14. ASSUME NEW x \in Command, Resume(x) PROVE listing'.catalog = "fresh"
  <2>1. cmd[x].next \in View /\ current' = current
    BY <1>1, <1>14 DEF TypeOK, Invocation, Resume
  <2>2. CASE cmd[x].stage = "apply" /\ ApplyMode(cmd[x].on, cmd[x].next)
    BY <1>1, <1>13, <2>1, <2>2 DEF CommandInv
  <2>3. CASE Filter(IF choice = None THEN cmd[x].next ELSE choice)
    <3>1. PICK v \in View : v = IF choice = None THEN cmd[x].next ELSE choice
      BY <1>1, <2>1 DEF TypeOK
    <3>2. ApplyMode(current, v)
      BY <1>3, <2>3, <3>1 DEF Filter
    <3> QED
      BY <1>3, <1>13, <2>1, <3>2
  <2> QED
    BY <1>14, <2>2, <2>3 DEF Resume
<1> QED
  BY <1>5, <1>6, <1>7, <1>8, <1>9, <1>10, <1>11, <1>12, <1>14 DEF Next

(* A listing that is fresh stays so within its session, as long as the state  *)
(* was made once: a second state would be needed to list an older catalog.    *)
THEOREM FreshCatalogsStay == MCSpec => FreshStays
<1>1. CaptureInv /\ [Next]_vars =>
        [listing.catalog = "fresh" /\ session' = session /\ ~Overwritten'
           => listing'.catalog = "fresh"]_vars
  BY FreshStep
<1> QED
  BY <1>1, CaptureInvHolds, CaptureRun, PTL DEF MCSpec, FreshStays

----------------------------------------------------------------------------
(* The restore of a saved model.  A trail is what an earlier run left, then   *)
(* what this one adds; what it resolves to has been chosen for this session,  *)
(* and as long as the user picks nothing it is what the session was left with.*)
Left(t, n) == /\ n \in 0 .. Len(t)
              /\ \A i \in DOMAIN t : t[i].at = "before" <=> i <= n
TrailInv ==
  /\ \E n \in Nat : Left(trail, n)
  /\ trail # <<>> /\ Saved!Last(trail).model \in Own => Saved!Last(trail).model \in chosen
  /\ Saved!LastEarlier(trail) \in Own => Saved!LastEarlier(trail) \in chosen
  /\ pick = None => \A m \in chosen : Saved!LastEarlier(trail) = m

(* Restores belong to the session that began them.  Once there are models     *)
(* there are always some; a capture that may still register them is the only  *)
(* one; and a list is refreshed for a session only once that has begun.       *)
SessionInv ==
  /\ \A r \in Restore : restore[r].session <= opened
  /\ \A r \in Restore : restore[r].stage # "unused" /\ Saved!Live(r) => opened > 0 /\ begun
  /\ opened = 0 => ~joint
  /\ joint => known # {} /\ (begun \/ catalog = {})
  /\ catalog \subseteq known
  /\ \A r \in Restore : restore[r].stage = "capturing" /\ Saved!Live(r) =>
       known = {} /\ \A q \in Restore : restore[q].stage = "capturing" /\ Saved!Live(q) => q = r

(* Who joins the refresh waits for a model that is not listed, who sets one   *)
(* has seen it listed; so what a live restore sets while another waits cannot *)
(* be what that one waits for and the refresh brings.                         *)
RestoreInv ==
  /\ \A r \in Restore : restore[r].stage = "joining" =>
       joint /\ known # {} /\ restore[r].saved \in Own \ known
  /\ \A r \in Restore : restore[r].stage = "setting" =>
       known # {} /\ restore[r].saved \in Own /\ (restore[r].saved \in Upstream => restore[r].saved \in known)
  /\ \A r \in Restore : restore[r].stage = "capturing" => restore[r].against \notin Own
  /\ \A r \in Saved!Setting : restore[r].saved \in chosen /\ restore[r].against \notin Own
  /\ \A r \in Restore : restore[r].stage = "joining" /\ Saved!Live(r)
                          /\ picks > restore[r].since /\ pick \in Own =>
       /\ trail # <<>> /\ Saved!Last(trail).model \in Own
       /\ Saved!Last(trail).model \in Upstream => Saved!Last(trail).model \in known

(* What RestoredAtRest says of the end, for all times: a session with a       *)
(* capture is on the model that it was left with, or a live restore will take *)
(* it there, or the endpoint does not list it.                                *)
Underway(m) ==
  \/ active = m
  \/ \E r \in Restore : Saved!Live(r) /\ restore[r].stage \in {"capturing", "setting", "joining"}
                        /\ (restore[r].stage = "joining" => restore[r].saved = m)
  \/ known = Upstream /\ m \notin Upstream
RestoredInv ==
  /\ known = {} /\ pick = None =>
       /\ active \notin Own
       /\ \A r \in Restore : restore[r].stage = "capturing" /\ Saved!Live(r) => restore[r].seen \notin Own
  /\ pick = None /\ ~refused /\ (\E r \in Restore : Saved!Live(r) /\ restore[r].captured) =>
       \A m \in chosen \cap Own : Underway(m)
SavedInv == Saved!TypeOK /\ TrailInv /\ SessionInv /\ RestoreInv /\ RestoredInv
Entry == [model : Saved!Selectable, at : {"before", "now"}]
RestoreRecord == [stage : {"unused", "capturing", "joining", "setting", "over"},
                  session : 0 .. MaxSessions, captured : BOOLEAN, seen : Saved!Selectable \cup {None},
                  saved : Own \cup {None}, since : 0 .. MaxPicks, against : Saved!Selectable \cup {None}]

LEMMA LastEarlierIs ==
  ASSUME NEW entries \in Seq(Entry), NEW n \in Nat, Left(entries, n)
  PROVE  Saved!LastEarlier(entries) = IF n = 0 THEN None ELSE entries[n].model
<1> DEFINE earlier == {i \in DOMAIN entries : entries[i].at = "before"}
<1>1. earlier = 1 .. n
  BY DEF Left
<1>2. n # 0 => Saved!Max(1 .. n) = n
  <2> SUFFICES ASSUME n # 0 PROVE (CHOOSE k \in 1 .. n : \A j \in 1 .. n : k >= j) = n
    BY DEF Saved!Max
  <2>1. n \in 1 .. n /\ \A j \in 1 .. n : n >= j
    OBVIOUS
  <2>2. \A k \in 1 .. n : (\A j \in 1 .. n : k >= j) => k = n
    OBVIOUS
  <2> QED
    BY <2>1, <2>2
<1>3. (1 .. n = {}) <=> (n = 0)
  OBVIOUS
<1> QED
  BY <1>1, <1>2, <1>3 DEF Saved!LastEarlier

(* what this run appends *)
LEMMA Appended ==
  ASSUME NEW left \in Seq(Entry), NEW n \in Nat, Left(left, n),
         NEW m \in Saved!Selectable, NEW t, t = Append(left, Saved!Change(m, "now"))
  PROVE  /\ t \in Seq(Entry) /\ t # <<>> /\ Left(t, n)
         /\ Saved!Last(t).model = m
         /\ Saved!LastEarlier(t) = Saved!LastEarlier(left)
<1> DEFINE e == Saved!Change(m, "now")
<1>1. e \in Entry /\ e.model = m /\ e.at = "now"
  BY DEF Entry, Saved!Change
<1> HIDE DEF e
<1>2. /\ t \in Seq(Entry) /\ Len(t) = Len(left) + 1 /\ t[Len(left) + 1] = e
      /\ \A i \in 1 .. Len(left) : t[i] = left[i]
      /\ DOMAIN t = 1 .. Len(left) + 1 /\ DOMAIN left = 1 .. Len(left) /\ Len(left) \in Nat
  BY <1>1 DEF e
<1>3. Left(t, n)
  BY <1>1, <1>2 DEF Left
<1>4. t # <<>>
  BY <1>2
<1>5. Saved!Last(t).model = m
  BY <1>1, <1>2 DEF Saved!Last
<1>6. n # 0 => t[n] = left[n]
  BY <1>2 DEF Left
<1> QED
  BY <1>2, <1>3, <1>4, <1>5, <1>6, LastEarlierIs

LEMMA TrailGrows ==
  ASSUME Saved!TypeOK, TrailInv, NEW m \in Saved!Selectable,
         trail' = Append(trail, Saved!Change(m, "now"))
  PROVE  /\ trail' \in Seq(Entry) /\ trail' # <<>> /\ Saved!Last(trail').model = m
         /\ Saved!LastEarlier(trail') = Saved!LastEarlier(trail)
         /\ \E n \in Nat : Left(trail', n)
<1>1. trail \in Seq(Entry)
  BY DEF Saved!TypeOK, Entry
<1>2. PICK n \in Nat : Left(trail, n)
  BY DEF TrailInv
<1>3. PICK t : t = trail'
  OBVIOUS
<1>4. t = Append(trail, Saved!Change(m, "now"))
  BY <1>3
<1>5. /\ t \in Seq(Entry) /\ t # <<>> /\ Left(t, n)
      /\ Saved!Last(t).model = m
      /\ Saved!LastEarlier(t) = Saved!LastEarlier(trail)
  BY <1>1, <1>2, <1>4, Appended
<1> QED
  BY <1>3, <1>5

(* what a trail resolves to has been chosen, and as long as the user picks    *)
(* nothing it is what the session was left with, if that is the provider's    *)
LEMMA ResolvedIsChosen ==
  ASSUME Saved!TypeOK, TrailInv
  PROVE  /\ Saved!Resolved(trail) \in (Own \cap chosen) \cup {None}
         /\ pick = None => \A m \in chosen \cap Own : Saved!Resolved(trail) = m
BY CatalogsAssumption DEF TrailInv, Saved!Resolved

LEMMA OpenedTrail ==
  ASSUME NEW left \in Saved!Earlier, NEW there \in SUBSET Own, Saved!Opened(left, there)
  PROVE  /\ TrailInv' /\ trail' \in Seq(Entry) /\ active' \in Saved!Selectable
         /\ pick' = None /\ chosen' \subseteq Saved!Selectable
         /\ active' \in Own => active' \in there
<1> DEFINE last == IF left = <<>> THEN None ELSE Saved!Last(left).model
<1>1. PICK n \in {0, 1, 2} : /\ left \in Seq(Entry) /\ Len(left) = n
                             /\ \A i \in DOMAIN left : left[i].at = "before"
  <2>1. ASSUME NEW m \in Saved!Selectable
        PROVE  Saved!Change(m, "before") \in Entry /\ Saved!Change(m, "before").at = "before"
    BY DEF Entry, Saved!Change
  <2>2. CASE left = <<>>
    BY <2>2
  <2>3. ASSUME NEW m \in Saved!Selectable, left = <<Saved!Change(m, "before")>>
        PROVE  /\ left \in Seq(Entry) /\ Len(left) = 1
               /\ \A i \in DOMAIN left : left[i].at = "before"
    BY <2>1, <2>3
  <2>4. ASSUME NEW l \in Saved!Selectable, NEW m \in Saved!Selectable,
               left = <<Saved!Change(l, "before"), Saved!Change(m, "before")>>
        PROVE  /\ left \in Seq(Entry) /\ Len(left) = 2
               /\ \A i \in DOMAIN left : left[i].at = "before"
    BY <2>1, <2>4
  <2> QED
    BY <2>2, <2>3, <2>4 DEF Saved!Earlier
<1>2. Left(left, n)
  BY <1>1 DEF Left
<1>3. n \in Nat
  BY <1>1
<1>4. Saved!LastEarlier(left) = last
  <2>1. Saved!LastEarlier(left) = IF n = 0 THEN None ELSE left[n].model
    BY <1>1, <1>2, <1>3, LastEarlierIs
  <2>2. n # 0 => left # <<>> /\ Saved!Last(left) = left[n]
    BY <1>1 DEF Saved!Last
  <2>3. n = 0 => left = <<>>
    BY <1>1
  <2> QED
    BY <1>1, <2>1, <2>2, <2>3
<1>5. last \in Saved!Selectable \cup {None}
  <2>1. n # 0 => left # <<>> /\ Saved!Last(left) = left[n] /\ left[n] \in Entry
    BY <1>1 DEF Saved!Last
  <2>2. n = 0 => left = <<>>
    BY <1>1
  <2> QED
    BY <1>1, <2>1, <2>2 DEF Entry
<1> HIDE DEF last
<1>6. chosen' = {last} \ {None} /\ pick' = None
  BY DEF Saved!Opened, last
<1>7. CASE last \in there \cup Other /\ active' = last /\ trail' = left
  <2>1. trail' # <<>> => Saved!Last(trail').model = last
    BY <1>7 DEF last
  <2>2. last # None
    BY <1>7, CatalogsAssumption
  <2>3. TrailInv'
    BY <1>1, <1>2, <1>3, <1>4, <1>6, <1>7, <2>1, <2>2 DEF TrailInv
  <2> QED
    BY <1>1, <1>5, <1>6, <1>7, <2>3, CatalogsAssumption DEF Saved!Selectable
<1>8. ASSUME last \notin there, NEW m \in Other, active' = m,
             trail' = Append(left, Saved!Change(m, "now"))
      PROVE  /\ TrailInv' /\ trail' \in Seq(Entry) /\ active' \in Saved!Selectable
             /\ active' \notin Own
  <2>1. PICK t : t = trail'
    OBVIOUS
  <2>2. m \in Saved!Selectable /\ m \notin Own
    BY CatalogsAssumption DEF Saved!Selectable
  <2>3. /\ t \in Seq(Entry) /\ t # <<>> /\ Left(t, n)
        /\ Saved!Last(t).model = m /\ Saved!LastEarlier(t) = last
    <3>1. t = Append(left, Saved!Change(m, "now"))
      BY <1>8, <2>1
    <3>2. left \in Seq(Entry)
      BY <1>1
    <3>3. /\ t \in Seq(Entry) /\ t # <<>> /\ Left(t, n)
          /\ Saved!Last(t).model = m /\ Saved!LastEarlier(t) = Saved!LastEarlier(left)
      BY <1>2, <1>3, <2>2, <3>1, <3>2, Appended, ZenonT(40)
    <3> QED
      BY <1>4, <3>3
  <2>4. last \in Own => last \in chosen'
    BY <1>6, CatalogsAssumption
  <2> QED
    BY <1>6, <1>8, <2>1, <2>2, <2>3, <2>4 DEF TrailInv
<1> QED
  BY <1>5, <1>6, <1>7, <1>8 DEF Saved!Opened, last

LEMMA SavedTypes == Saved!TypeOK => restore \in [Restore -> RestoreRecord] /\ trail \in Seq(Entry)
BY DEF Saved!TypeOK, RestoreRecord, Entry

LEMMA UnusedRestore ==
  /\ Saved!Unused \in RestoreRecord /\ Saved!Unused.session = 0 /\ Saved!Unused.stage = "unused"
  /\ Saved!Unused.captured = FALSE /\ Saved!Unused.against = None
BY CatalogsAssumption DEF Saved!Unused, RestoreRecord

LEMMA OverRestore ==
  ASSUME NEW r \in RestoreRecord
  PROVE  /\ Saved!Over(r) \in RestoreRecord /\ Saved!Over(r).stage = "over"
         /\ Saved!Over(r).session = r.session /\ Saved!Over(r).captured = r.captured
<1>1. r.session \in 0 .. MaxSessions /\ r.captured \in BOOLEAN /\ 0 \in 0 .. MaxPicks
  BY CatalogsAssumption DEF RestoreRecord
<1>2. Saved!Over(r) \in RestoreRecord
  BY <1>1 DEF Saved!Unused, Saved!Over, RestoreRecord
<1> QED
  BY <1>2 DEF Saved!Unused, Saved!Over

LEMMA FreshRestore ==
  ASSUME Saved!TypeOK, NEW r
  PROVE  /\ Saved!Fresh(r) \in RestoreRecord /\ Saved!Fresh(r).session = opened
         /\ Saved!Fresh(r).captured = FALSE /\ Saved!Fresh(r).against = None
         /\ Saved!Fresh(r).seen = active
<1>1. opened \in 0 .. MaxSessions /\ active \in Saved!Selectable \cup {None} /\ 0 \in 0 .. MaxPicks
  BY CatalogsAssumption DEF Saved!TypeOK
<1>2. Saved!Fresh(r) \in RestoreRecord
  BY <1>1 DEF Saved!Unused, Saved!Fresh, RestoreRecord
<1> QED
  BY <1>2 DEF Saved!Unused, Saved!Fresh

LEMMA SavedInit == Saved!Init => SavedInv
<1> SUFFICES ASSUME Saved!Init PROVE SavedInv
  OBVIOUS
<1>1. restore \in [Restore -> RestoreRecord] /\ \A r \in Restore : restore[r] = Saved!Unused
  BY UnusedRestore DEF Saved!Init
<1>2. trail = <<>> /\ trail \in Seq(Entry) /\ Left(trail, 0)
  BY DEF Saved!Init, Left
<1>3. Saved!TypeOK
  <2>1. opened \in 0 .. MaxSessions /\ picks \in 0 .. MaxPicks
    BY CatalogsAssumption DEF Saved!Init
  <2>2. catalog \subseteq Own /\ known \subseteq Own
    BY DEF Saved!Init
  <2>3. {active, pick} \subseteq Saved!Selectable \cup {None} /\ chosen \subseteq Saved!Selectable
    BY DEF Saved!Init
  <2>4. {begun, joint, refused} \subseteq BOOLEAN
    BY DEF Saved!Init
  <2> QED
    BY <1>1, <1>2, <2>1, <2>2, <2>3, <2>4 DEF Saved!TypeOK, RestoreRecord, Entry
<1>4. Saved!LastEarlier(trail) = None
  BY <1>2, LastEarlierIs
<1>5. TrailInv
  BY <1>2, <1>4, CatalogsAssumption DEF Saved!Init, TrailInv
<1>6. SessionInv
  BY <1>1, UnusedRestore DEF Saved!Init, SessionInv, Saved!Live
<1>7. RestoreInv
  BY <1>1, UnusedRestore DEF RestoreInv, Saved!Setting
<1>8. RestoredInv
  BY <1>1, UnusedRestore, CatalogsAssumption DEF Saved!Init, RestoredInv
<1> QED
  BY <1>3, <1>5, <1>6, <1>7, <1>8 DEF SavedInv

LEMMA BegunRestore ==
  ASSUME Saved!TypeOK, TrailInv, NEW r \in RestoreRecord, NEW there \in SUBSET Own,
         NEW joins \in BOOLEAN, NEW u, u = Saved!Begun(r, there, joins)
  PROVE  /\ u \in RestoreRecord /\ u.session = r.session /\ u.captured = r.captured
         /\ u.stage \in {"setting", "joining", "over"}
         /\ u.stage = "setting" => u.saved \in Own \cap chosen \cap there /\ u.against = r.against
         /\ u.stage = "joining" => joins /\ u.saved \in (Own \cap chosen) \ there /\ u.since = picks
         /\ \A m \in Own : m = Saved!Resolved(trail) /\ m # r.seen /\ joins =>
              u.stage # "over" /\ u.saved = m
<1> DEFINE saved == Saved!Resolved(trail)
<1>1. saved \in (Own \cap chosen) \cup {None}
  BY ResolvedIsChosen
<1> HIDE DEF saved
<1>2. CASE saved \notin {None, r.seen} /\ (saved \in there \/ joins)
  <2>1. u = [r EXCEPT !.stage = IF saved \in there THEN "setting" ELSE "joining",
                      !.saved = saved, !.since = picks]
    BY <1>2 DEF Saved!Begun, saved
  <2>2. saved \in Own \cap chosen /\ picks \in 0 .. MaxPicks
    BY <1>1, <1>2 DEF Saved!TypeOK
  <2>3. /\ u \in RestoreRecord /\ u.session = r.session /\ u.captured = r.captured
        /\ u.stage = IF saved \in there THEN "setting" ELSE "joining"
        /\ u.saved = saved /\ u.since = picks /\ u.against = r.against
    BY <2>1, <2>2 DEF RestoreRecord
  <2> QED
    BY <1>2, <2>2, <2>3 DEF saved
<1>3. CASE ~(saved \notin {None, r.seen} /\ (saved \in there \/ joins))
  <2>1. u = Saved!Over(r)
    BY <1>3 DEF Saved!Begun, saved
  <2>2. \A m \in Own : ~(m = Saved!Resolved(trail) /\ m # r.seen /\ joins)
    BY <1>3, CatalogsAssumption DEF saved
  <2> QED
    BY <2>1, <2>2, OverRestore
<1> QED
  BY <1>2, <1>3

LEMMA OpenKeeps == ASSUME SavedInv, Saved!Open PROVE SavedInv'
<1>1. /\ Saved!TypeOK /\ SessionInv /\ RestoreInv /\ RestoredInv
      /\ opened' = opened + 1 /\ opened' \in 0 .. MaxSessions /\ begun' = FALSE
      /\ UNCHANGED <<known, joint, restore, picks, refused>>
      /\ opened \in Nat
  BY CatalogsAssumption DEF SavedInv, Saved!Open, Saved!TypeOK
<1>2. /\ catalog' \in SUBSET Own /\ catalog' \subseteq known
      /\ joint => catalog' = {}
  BY <1>1 DEF Saved!Open, SessionInv, Saved!TypeOK
<1>3. PICK left \in Saved!Earlier, there \in SUBSET Own : there = catalog' /\ Saved!Opened(left, there)
  BY <1>2 DEF Saved!Open
<1>4. /\ TrailInv' /\ trail' \in Seq(Entry) /\ active' \in Saved!Selectable
      /\ pick' = None /\ chosen' \subseteq Saved!Selectable
      /\ active' \in Own => active' \in there
  BY <1>3, OpenedTrail
<1>5. Saved!TypeOK'
  BY <1>1, <1>2, <1>4 DEF Saved!TypeOK, Entry
<1>6. \A r \in Restore : restore[r].session \in Nat /\ restore[r].session <= opened
  BY <1>1, SavedTypes DEF SessionInv, RestoreRecord
<1>7. \A r \in Restore : ~Saved!Live(r)'
  BY <1>1, <1>6 DEF Saved!Live
<1>8. SessionInv'
  BY <1>1, <1>2, <1>6, <1>7 DEF SessionInv
<1>9. RestoreInv'
  BY <1>1, <1>7 DEF RestoreInv, Saved!Setting
<1>10. RestoredInv'
  BY <1>1, <1>2, <1>3, <1>4, <1>7 DEF RestoredInv
<1> QED
  BY <1>4, <1>5, <1>8, <1>9, <1>10 DEF SavedInv

LEMMA PickKeeps == ASSUME SavedInv, NEW m \in Saved!Selectable, Saved!Pick(m) PROVE SavedInv'
<1>1. /\ Saved!TypeOK /\ TrailInv /\ SessionInv /\ RestoreInv /\ RestoredInv
      /\ pick' = m /\ chosen' = chosen \cup {m} /\ active' = m
      /\ trail' = Append(trail, Saved!Change(m, "now"))
      /\ UNCHANGED <<opened, begun, known, catalog, joint, restore, refused>>
      /\ m \in Other \cup catalog
  BY DEF SavedInv, Saved!Pick, Saved!host
<1>0. m # None /\ picks' \in 0 .. MaxPicks
  <2>1. picks \in 0 .. MaxPicks /\ picks < MaxPicks /\ picks' = picks + 1
    BY <1>1 DEF Saved!Pick, Saved!TypeOK
  <2> QED
    BY <2>1, CatalogsAssumption DEF Saved!Selectable
<1>2. /\ trail' \in Seq(Entry) /\ trail' # <<>> /\ Saved!Last(trail').model = m
      /\ Saved!LastEarlier(trail') = Saved!LastEarlier(trail)
      /\ \E n \in Nat : Left(trail', n)
  BY <1>1, TrailGrows
<1>3. Saved!TypeOK'
  BY <1>0, <1>1, <1>2 DEF Saved!TypeOK, Entry
<1>4. TrailInv'
  BY <1>0, <1>1, <1>2 DEF TrailInv
<1>5. SessionInv'
  BY <1>1 DEF SessionInv, Saved!Live
<1>6. RestoreInv'
  <2>1. m \in Own => m \in known
    BY <1>1, CatalogsAssumption DEF SessionInv
  <2>2. \A r \in Restore : (Saved!Live(r)' <=> Saved!Live(r))
    BY <1>1 DEF Saved!Live
  <2> QED
    BY <1>1, <1>2, <2>1, <2>2 DEF RestoreInv, Saved!Setting
<1>7. RestoredInv'
  BY <1>0, <1>1 DEF RestoredInv
<1> QED
  BY <1>3, <1>4, <1>5, <1>6, <1>7 DEF SavedInv

LEMMA RestoreChanged ==
  ASSUME Saved!TypeOK, NEW r \in Restore, NEW u \in RestoreRecord, restore' = [restore EXCEPT ![r] = u]
  PROVE  /\ restore' \in [Restore -> RestoreRecord] /\ restore'[r] = u
         /\ \A q \in Restore : q # r => restore'[q] = restore[q]
BY SavedTypes

(* session_start, when there are models: a restore begins at once *)
LEMMA ReapplyBegins ==
  ASSUME SavedInv, opened > 0, begun' = TRUE, Saved!Reapply,
         UNCHANGED <<opened, trail, active, known, chosen, pick, picks, refused>>
  PROVE  SavedInv'
<1>1. /\ Saved!TypeOK /\ TrailInv /\ SessionInv /\ RestoreInv /\ RestoredInv
      /\ known # {} /\ catalog' = known /\ joint' = TRUE /\ known \in SUBSET Own /\ joint \in BOOLEAN
  BY DEF SavedInv, Saved!Reapply, Saved!TypeOK
<1>2. PICK r \in Restore : /\ restore[r] = Saved!Unused
                           /\ restore' = [restore EXCEPT ![r] = Saved!Begun(Saved!Fresh(r), known, joint)]
  BY DEF Saved!Reapply
<1>3. PICK u : u = Saved!Begun(Saved!Fresh(r), known, joint)
  OBVIOUS
<1>4. PICK f \in RestoreRecord : f = Saved!Fresh(r) /\ f.session = opened /\ f.captured = FALSE /\ f.against = None
  BY <1>1, FreshRestore
<1>5. u = Saved!Begun(f, known, joint)
  BY <1>3, <1>4
<1>6. /\ u \in RestoreRecord /\ u.session = opened /\ u.captured = FALSE
      /\ u.stage \in {"setting", "joining", "over"}
      /\ u.stage = "setting" => u.saved \in Own \cap chosen \cap known /\ u.against = None
      /\ u.stage = "joining" => u.saved \in (Own \cap chosen) \ known /\ u.since = picks
  BY <1>1, <1>4, <1>5, BegunRestore
<1>7. /\ restore' \in [Restore -> RestoreRecord] /\ restore'[r] = u
      /\ \A q \in Restore : q # r => restore'[q] = restore[q]
  BY <1>1, <1>2, <1>3, <1>6, RestoreChanged
<1>8. Saved!TypeOK'
  BY <1>1, <1>7 DEF Saved!TypeOK, RestoreRecord
<1>9. TrailInv'
  BY <1>1 DEF TrailInv
<1>10. SessionInv'
  <2>1. \A q \in Restore : restore'[q].session <= opened'
    <3>1. opened \in Nat
      BY <1>1, CatalogsAssumption DEF Saved!TypeOK
    <3> QED
      BY <1>1, <1>6, <1>7, <3>1 DEF SessionInv
  <2>2. \A q \in Restore : restore'[q].stage = "capturing" => q # r /\ restore'[q] = restore[q]
    BY <1>6, <1>7
  <2> QED
    BY <1>1, <2>1, <2>2 DEF SessionInv, Saved!Live
<1>11. RestoreInv'
  <2>1. picks \in Nat /\ ~(picks > picks)
    BY <1>1, CatalogsAssumption DEF Saved!TypeOK
  <2>2. \A q \in Restore : q # r => (Saved!Live(q)' <=> Saved!Live(q))
    BY <1>7 DEF Saved!Live
  <2>3. None \notin Own
    BY CatalogsAssumption
  <2>4. \A q \in Restore : restore'[q].stage = "joining" =>
          joint' /\ known' # {} /\ restore'[q].saved \in Own \ known'
    BY <1>1, <1>6, <1>7 DEF RestoreInv
  <2>5. \A q \in Restore : restore'[q].stage = "setting" =>
          known' # {} /\ restore'[q].saved \in Own
            /\ (restore'[q].saved \in Upstream => restore'[q].saved \in known')
    BY <1>1, <1>6, <1>7 DEF RestoreInv
  <2>6. \A q \in Restore : restore'[q].stage = "capturing" => restore'[q].against \notin Own
    BY <1>1, <1>6, <1>7 DEF RestoreInv
  <2>7. \A q \in Saved!Setting' : restore'[q].saved \in chosen' /\ restore'[q].against \notin Own
    BY <1>1, <1>6, <1>7, <2>2, <2>3 DEF RestoreInv, Saved!Setting
  <2>8. ASSUME NEW q \in Restore, restore'[q].stage = "joining", Saved!Live(q)',
               picks' > restore'[q].since, pick' \in Own
        PROVE  /\ trail' # <<>> /\ Saved!Last(trail').model \in Own
               /\ Saved!Last(trail').model \in Upstream => Saved!Last(trail').model \in known'
    <3>1. q # r
      BY <1>6, <1>7, <2>1, <2>8
    <3>2. restore[q].stage = "joining" /\ Saved!Live(q) /\ picks > restore[q].since
      BY <1>7, <2>2, <2>8, <3>1
    <3> QED
      BY <1>1, <2>8, <3>2 DEF RestoreInv
  <2> QED
    BY <2>4, <2>5, <2>6, <2>7, <2>8 DEF RestoreInv
<1>12. RestoredInv'
  <2> SUFFICES ASSUME pick = None, ~refused,
                      NEW q \in Restore, Saved!Live(q)', restore'[q].captured,
                      NEW m \in chosen \cap Own
               PROVE  Underway(m)'
    BY <1>1 DEF RestoredInv
  <2>1. q # r /\ Saved!Live(q) /\ restore[q].captured
    BY <1>6, <1>7 DEF Saved!Live
  <2>2. Underway(m)
    BY <1>1, <2>1 DEF RestoredInv
  <2>3. \A p \in Restore : restore[p].stage \in {"capturing", "setting", "joining"} =>
          restore'[p] = restore[p]
    BY <1>2, <1>7, UnusedRestore
  <2> QED
    BY <2>2, <2>3 DEF Underway, Saved!Live
<1> QED
  BY <1>8, <1>9, <1>10, <1>11, <1>12 DEF SavedInv

(* session_start, without: the capture underway sees the current model, or a  *)
(* capture begins                                                             *)
LEMMA CaptureBegins ==
  ASSUME SavedInv, opened > 0, begun' = TRUE, Saved!Capture,
         UNCHANGED <<opened, trail, active, known, chosen, pick, picks, refused>>
  PROVE  SavedInv'
<1>1. /\ Saved!TypeOK /\ TrailInv /\ SessionInv /\ RestoreInv /\ RestoredInv
      /\ known = {} /\ UNCHANGED <<catalog, joint>>
      /\ active \in Saved!Selectable \cup {None}
  BY DEF SavedInv, Saved!Capture, Saved!TypeOK
<1>2. TrailInv'
  BY <1>1 DEF TrailInv
<1>3. \A q \in Restore : restore[q] \in RestoreRecord /\ restore[q].stage \notin {"setting", "joining"}
  BY <1>1, SavedTypes DEF RestoreInv
<1>4. ASSUME restore' \in [Restore -> RestoreRecord],
             \A q \in Restore : restore'[q].session <= opened,
             \A q \in Restore : restore'[q].stage \notin {"setting", "joining"},
             \A q \in Restore : restore'[q].stage = "capturing" => restore'[q].against \notin Own,
             \A q, p \in Restore : restore'[q].stage = "capturing" /\ Saved!Live(q)'
               /\ restore'[p].stage = "capturing" /\ Saved!Live(p)' => q = p,
             \A q \in Restore : restore'[q].stage = "capturing" /\ Saved!Live(q)' /\ restore'[q] # restore[q] =>
               restore'[q].seen = active,
             \A q \in Restore : Saved!Live(q) /\ restore[q].stage = "capturing" =>
               Saved!Live(q)' /\ restore'[q].stage = "capturing",
             \A q \in Restore : Saved!Live(q)' /\ restore'[q].captured =>
               (Saved!Live(q) /\ restore[q].captured) \/ restore'[q].stage = "capturing"
      PROVE  SavedInv'
  <2>1. Saved!TypeOK'
    BY <1>1, <1>4 DEF Saved!TypeOK, RestoreRecord
  <2>2. SessionInv'
    BY <1>1, <1>4 DEF SessionInv
  <2>3. RestoreInv'
    BY <1>1, <1>4 DEF RestoreInv, Saved!Setting
  <2>4. pick = None => \A q \in Restore : restore'[q].stage = "capturing" /\ Saved!Live(q)' =>
                         restore'[q].seen \notin Own
    BY <1>1, <1>4 DEF RestoredInv, Saved!Live
  <2>5. ASSUME pick = None, ~refused, NEW q \in Restore, Saved!Live(q)', restore'[q].captured,
               NEW m \in chosen \cap Own
        PROVE  Underway(m)'
    <3>1. CASE restore'[q].stage = "capturing"
      BY <2>5, <3>1 DEF Underway
    <3>2. CASE Saved!Live(q) /\ restore[q].captured
      <4>1. Underway(m)
        BY <1>1, <2>5, <3>2 DEF RestoredInv
      <4>2. CASE active = m \/ (known = Upstream /\ m \notin Upstream)
        BY <4>2 DEF Underway
      <4>3. ASSUME NEW p \in Restore, Saved!Live(p), restore[p].stage = "capturing"
            PROVE  Underway(m)'
        BY <1>4, <4>3 DEF Underway
      <4> QED
        BY <1>3, <4>1, <4>2, <4>3 DEF Underway
    <3> QED
      BY <1>4, <2>5, <3>1, <3>2
  <2>6. RestoredInv'
    BY <1>1, <2>4, <2>5 DEF RestoredInv
  <2> QED
    BY <1>2, <2>1, <2>2, <2>3, <2>6 DEF SavedInv
<1>5. CASE /\ Saved!Capturing # {}
           /\ restore' = [q \in Restore |-> IF q \in Saved!Capturing
                            THEN [restore[q] EXCEPT !.seen = active] ELSE restore[q]]
  <2>1. \A q \in Restore :
          /\ [restore[q] EXCEPT !.seen = active] \in RestoreRecord
          /\ [restore[q] EXCEPT !.seen = active].seen = active
          /\ [restore[q] EXCEPT !.seen = active].stage = restore[q].stage
          /\ [restore[q] EXCEPT !.seen = active].session = restore[q].session
          /\ [restore[q] EXCEPT !.seen = active].captured = restore[q].captured
          /\ [restore[q] EXCEPT !.seen = active].against = restore[q].against
    BY <1>1, <1>3 DEF RestoreRecord
  <2>2. \A q \in Restore :
          /\ restore'[q] \in RestoreRecord /\ restore'[q].stage = restore[q].stage
          /\ restore'[q].session = restore[q].session /\ restore'[q].captured = restore[q].captured
          /\ restore'[q].against = restore[q].against
          /\ restore'[q] # restore[q] => restore'[q].seen = active
    BY <1>3, <1>5, <2>1
  <2>3. restore' \in [Restore -> RestoreRecord]
    BY <1>5, <2>2
  <2>4. \A q \in Restore : Saved!Live(q)' <=> Saved!Live(q)
    BY <2>2 DEF Saved!Live
  <2> QED
    BY <1>1, <1>3, <1>4, <2>2, <2>3, <2>4 DEF SessionInv, RestoreInv
<1>6. ASSUME Saved!Capturing = {}, NEW r \in Restore, restore[r] = Saved!Unused,
             restore' = [restore EXCEPT ![r] = [Saved!Fresh(r) EXCEPT !.stage = "capturing",
                                                                     !.captured = TRUE]]
      PROVE  SavedInv'
  <2>1. PICK f \in RestoreRecord : f = Saved!Fresh(r) /\ f.session = opened /\ f.against = None /\ f.seen = active
    BY <1>1, FreshRestore
  <2> DEFINE u == [f EXCEPT !.stage = "capturing", !.captured = TRUE]
  <2>2. /\ u \in RestoreRecord /\ u.stage = "capturing" /\ u.session = opened /\ u.against = None
        /\ u.seen = active /\ restore' = [restore EXCEPT ![r] = u]
    BY <1>6, <2>1 DEF RestoreRecord
  <2> HIDE DEF u
  <2>3. /\ restore' \in [Restore -> RestoreRecord] /\ restore'[r] = u
        /\ \A q \in Restore : q # r => restore'[q] = restore[q]
    BY <1>1, <2>2, RestoreChanged
  <2>4. \A q \in Restore : q # r => (Saved!Live(q)' <=> Saved!Live(q))
    BY <2>3 DEF Saved!Live
  <2>5. \A q \in Restore : ~(restore[q].stage = "capturing" /\ Saved!Live(q))
    BY <1>6 DEF Saved!Capturing
  <2>6. \A q \in Restore : restore'[q].session <= opened
    BY <1>1, <2>2, <2>3 DEF SessionInv, Saved!TypeOK
  <2>7. \A q \in Restore : restore'[q].stage = "capturing" => restore'[q].against \notin Own
    BY <1>1, <2>2, <2>3, CatalogsAssumption DEF RestoreInv
  <2> QED
    BY <1>3, <1>4, <2>2, <2>3, <2>4, <2>5, <2>6, <2>7
<1> QED
  BY <1>5, <1>6 DEF Saved!Capture

(* a restore ends *)
LEMMA RestoreEnds ==
  ASSUME SavedInv, NEW r \in Restore, restore[r].stage # "unused",
         restore' = [restore EXCEPT ![r] = Saved!Over(restore[r])],
         UNCHANGED <<opened, begun, known, catalog, joint, chosen, pick, picks>>,
         active' \in Saved!Selectable \cup {None}, trail' \in Seq(Entry), refused' \in BOOLEAN,
         TrailInv', known = {} => active' = active,
         \A q \in Restore : restore[q].stage = "joining" /\ Saved!Live(q)
                              /\ picks > restore[q].since /\ pick \in Own =>
           /\ trail' # <<>> /\ Saved!Last(trail').model \in Own
           /\ Saved!Last(trail').model \in Upstream => Saved!Last(trail').model \in known,
         pick = None /\ ~refused' /\ (\E q \in Restore : Saved!Live(q) /\ restore[q].captured) =>
           \A m \in chosen \cap Own : active' = m \/ (~Saved!Live(r) /\ active' = active /\ ~refused)
  PROVE  SavedInv'
<1>1. Saved!TypeOK /\ SessionInv /\ RestoreInv /\ RestoredInv /\ restore[r] \in RestoreRecord
  BY SavedTypes DEF SavedInv
<1>2. PICK u \in RestoreRecord : /\ u = Saved!Over(restore[r]) /\ u.stage = "over"
                                 /\ u.session = restore[r].session /\ u.captured = restore[r].captured
  BY <1>1, OverRestore
<1>3. /\ restore' \in [Restore -> RestoreRecord] /\ restore'[r] = u
      /\ \A q \in Restore : q # r => restore'[q] = restore[q]
  BY <1>1, <1>2, RestoreChanged
<1>4. /\ \A q \in Restore : restore'[q].session = restore[q].session
                            /\ restore'[q].captured = restore[q].captured
      /\ \A q \in Restore : Saved!Live(q)' <=> Saved!Live(q)
  <2>1. \A q \in Restore : restore'[q].session = restore[q].session
                            /\ restore'[q].captured = restore[q].captured
    BY <1>2, <1>3
  <2> QED
    BY <2>1 DEF Saved!Live
<1>5. \A q \in Restore : restore'[q].stage \notin {"unused", "over"} => restore'[q] = restore[q]
  BY <1>2, <1>3
<1>6. Saved!TypeOK'
  BY <1>1, <1>3 DEF Saved!TypeOK, RestoreRecord, Entry
<1>7. SessionInv'
  <2>1. \A q \in Restore : restore'[q].stage # "unused" => restore[q].stage # "unused"
    BY <1>2, <1>3
  <2> QED
    BY <1>1, <1>4, <1>5, <2>1 DEF SessionInv
<1>8. RestoreInv'
  <2>1. \A q \in Restore : restore'[q].stage = "joining" =>
          joint' /\ known' # {} /\ restore'[q].saved \in Own \ known'
    BY <1>1, <1>5 DEF RestoreInv
  <2>2. \A q \in Restore : restore'[q].stage = "setting" =>
          known' # {} /\ restore'[q].saved \in Own
            /\ (restore'[q].saved \in Upstream => restore'[q].saved \in known')
    BY <1>1, <1>5 DEF RestoreInv
  <2>3. \A q \in Restore : restore'[q].stage = "capturing" => restore'[q].against \notin Own
    BY <1>1, <1>5 DEF RestoreInv
  <2>4. \A q \in Saved!Setting' : restore'[q].saved \in chosen' /\ restore'[q].against \notin Own
    BY <1>1, <1>4, <1>5 DEF RestoreInv, Saved!Setting
  <2>5. ASSUME NEW q \in Restore, restore'[q].stage = "joining", Saved!Live(q)',
               picks' > restore'[q].since, pick' \in Own
        PROVE  /\ trail' # <<>> /\ Saved!Last(trail').model \in Own
               /\ Saved!Last(trail').model \in Upstream => Saved!Last(trail').model \in known'
    <3>1. restore[q].stage = "joining" /\ Saved!Live(q) /\ picks > restore[q].since
      BY <1>4, <1>5, <2>5
    <3> QED
      BY <2>5, <3>1
  <2> QED
    BY <2>1, <2>2, <2>3, <2>4, <2>5 DEF RestoreInv
<1>9. RestoredInv'
  <2>1. known' = {} /\ pick' = None =>
          /\ active' \notin Own
          /\ \A q \in Restore : restore'[q].stage = "capturing" /\ Saved!Live(q)' =>
               restore'[q].seen \notin Own
    BY <1>1, <1>4, <1>5 DEF RestoredInv
  <2>2. ASSUME pick = None, ~refused', NEW q \in Restore, Saved!Live(q)', restore'[q].captured,
               NEW m \in chosen \cap Own
        PROVE  Underway(m)'
    <3>1. Saved!Live(q) /\ restore[q].captured
      BY <1>4, <2>2
    <3>2. CASE active' = m
      BY <3>2 DEF Underway
    <3>3. CASE ~Saved!Live(r) /\ active' = active /\ ~refused
      <4>1. Underway(m)
        BY <1>1, <2>2, <3>1, <3>3 DEF RestoredInv
      <4>2. \A p \in Restore : Saved!Live(p) => Saved!Live(p)' /\ restore'[p] = restore[p]
        BY <1>3, <1>4, <3>3
      <4> QED
        BY <3>3, <4>1, <4>2 DEF Underway
    <3> QED
      BY <2>2, <3>1, <3>2, <3>3
  <2> QED
    BY <2>1, <2>2 DEF RestoredInv
<1> QED
  BY <1>6, <1>7, <1>8, <1>9 DEF SavedInv

LEMMA SetModelKeeps == ASSUME SavedInv, NEW r \in Restore, Saved!SetModel(r) PROVE SavedInv'
<1>1. /\ Saved!TypeOK /\ TrailInv /\ SessionInv /\ RestoreInv /\ RestoredInv
      /\ restore[r].stage = "setting" /\ restore' = [restore EXCEPT ![r] = Saved!Over(restore[r])]
      /\ UNCHANGED <<opened, begun, known, catalog, joint, chosen, pick, picks>>
      /\ known # {} /\ restore[r].saved \in Own
      /\ restore[r].saved \in Upstream => restore[r].saved \in known
  BY DEF SavedInv, Saved!SetModel, Saved!host, RestoreInv
<1>2. CASE /\ Saved!Live(r) /\ active' = restore[r].saved
           /\ trail' = Append(trail, Saved!Change(restore[r].saved, "now")) /\ refused' = refused
  <2>1. PICK m \in Own : m = restore[r].saved
    BY <1>1
  <2>2. m \in Saved!Selectable /\ trail' = Append(trail, Saved!Change(m, "now"))
    BY <1>2, <2>1 DEF Saved!Selectable
  <2>3. /\ trail' \in Seq(Entry) /\ trail' # <<>> /\ Saved!Last(trail').model = m
        /\ Saved!LastEarlier(trail') = Saved!LastEarlier(trail)
        /\ \E n \in Nat : Left(trail', n)
    BY <1>1, <2>2, TrailGrows
  <2>4. m \in chosen
    BY <1>1, <1>2, <2>1 DEF RestoreInv, Saved!Setting
  <2>5. TrailInv'
    BY <1>1, <2>3, <2>4 DEF TrailInv
  <2>6. pick = None => \A l \in chosen : l = m
    BY <1>1, <2>4 DEF TrailInv
  <2>7. active' = m /\ refused' \in BOOLEAN
    BY <1>1, <1>2, <2>1 DEF Saved!TypeOK
  <2> QED
    BY <1>1, <2>1, <2>2, <2>3, <2>5, <2>6, <2>7, RestoreEnds
<1>3. CASE refused' = (refused \/ Saved!Live(r)) /\ UNCHANGED <<active, trail>>
  <2>1. TrailInv' /\ trail' \in Seq(Entry) /\ active' \in Saved!Selectable \cup {None} /\ refused' \in BOOLEAN
    BY <1>1, <1>3, SavedTypes DEF TrailInv, Saved!TypeOK
  <2>2. \A q \in Restore : restore[q].stage = "joining" /\ Saved!Live(q)
                            /\ picks > restore[q].since /\ pick \in Own =>
          /\ trail' # <<>> /\ Saved!Last(trail').model \in Own
          /\ Saved!Last(trail').model \in Upstream => Saved!Last(trail').model \in known
    BY <1>1, <1>3 DEF RestoreInv
  <2> QED
    BY <1>1, <1>3, <2>1, <2>2, RestoreEnds
<1> QED
  BY <1>2, <1>3 DEF Saved!SetModel

(* a capture ends: the models are registered and the restore begins *)
LEMMA CapturedBegins ==
  ASSUME SavedInv, NEW r \in Restore, Saved!Captured(r)
  PROVE  SavedInv'
<1>1. /\ Saved!TypeOK /\ TrailInv /\ SessionInv /\ RestoreInv /\ RestoredInv
      /\ restore[r].stage = "capturing" /\ restore[r] \in RestoreRecord
      /\ UNCHANGED <<opened, begun, trail, active, chosen, pick, picks>>
  BY SavedTypes DEF SavedInv, Saved!Captured, Saved!host
<1>2. CASE /\ restore' = [restore EXCEPT ![r] = Saved!Over(restore[r])]
           /\ refused' = (refused \/ Saved!Live(r))
           /\ UNCHANGED <<known, catalog, joint>>
  <2>1. TrailInv' /\ trail' \in Seq(Entry) /\ active' \in Saved!Selectable \cup {None} /\ refused' \in BOOLEAN
    BY <1>1, <1>2, SavedTypes DEF TrailInv, Saved!TypeOK
  <2>2. \A q \in Restore : restore[q].stage = "joining" /\ Saved!Live(q)
                            /\ picks > restore[q].since /\ pick \in Own =>
          /\ trail' # <<>> /\ Saved!Last(trail').model \in Own
          /\ Saved!Last(trail').model \in Upstream => Saved!Last(trail').model \in known
    BY <1>1 DEF RestoreInv
  <2> QED
    BY <1>1, <1>2, <2>1, <2>2, RestoreEnds
<1>3. ASSUME Saved!Live(r), NEW list \in (SUBSET Own) \ {{}},
             known' = list, catalog' = list, joint' = TRUE, refused' = refused,
             restore' = [restore EXCEPT ![r] = Saved!Begun(restore[r], list, TRUE)]
      PROVE  SavedInv'
  <2>1. PICK u : u = Saved!Begun(restore[r], list, TRUE)
    OBVIOUS
  <2>2. /\ u \in RestoreRecord /\ u.session = restore[r].session /\ u.captured = restore[r].captured
        /\ u.stage \in {"setting", "joining", "over"}
        /\ u.stage = "setting" => u.saved \in Own \cap chosen \cap list /\ u.against = restore[r].against
        /\ u.stage = "joining" => u.saved \in (Own \cap chosen) \ list /\ u.since = picks
        /\ \A m \in Own : m = Saved!Resolved(trail) /\ m # restore[r].seen =>
             u.stage # "over" /\ u.saved = m
    <3>1. list \in SUBSET Own
      OBVIOUS
    <3>2. PICK joins \in BOOLEAN : joins = TRUE
      OBVIOUS
    <3>3. PICK v \in RestoreRecord : v = restore[r]
      BY <1>1
    <3>4. u = Saved!Begun(v, list, joins)
      BY <2>1, <3>2, <3>3
    <3>5. /\ u \in RestoreRecord /\ u.session = v.session /\ u.captured = v.captured
          /\ u.stage \in {"setting", "joining", "over"}
          /\ u.stage = "setting" => u.saved \in Own \cap chosen \cap list /\ u.against = v.against
          /\ u.stage = "joining" => joins /\ u.saved \in (Own \cap chosen) \ list /\ u.since = picks
          /\ \A m \in Own : m = Saved!Resolved(trail) /\ m # v.seen /\ joins =>
               u.stage # "over" /\ u.saved = m
      BY <1>1, <3>1, <3>4, BegunRestore
    <3> QED
      BY <3>2, <3>3, <3>5
  <2>3. /\ restore' \in [Restore -> RestoreRecord] /\ restore'[r] = u
        /\ \A q \in Restore : q # r => restore'[q] = restore[q]
    BY <1>1, <1>3, <2>1, <2>2, RestoreChanged
  <2>4. /\ opened > 0 /\ begun /\ known = {}
        /\ \A q \in Restore : restore[q].stage = "capturing" /\ Saved!Live(q) => q = r
    BY <1>1, <1>3 DEF SessionInv
  <2>5. \A q \in Restore : restore[q].stage \notin {"setting", "joining"}
    BY <1>1, <2>4 DEF RestoreInv
  <2>6. \A q \in Restore : restore'[q].session = restore[q].session
                            /\ restore'[q].captured = restore[q].captured
    BY <2>2, <2>3
  <2>7. \A q \in Restore : Saved!Live(q)' <=> Saved!Live(q)
    BY <1>1, <2>6 DEF Saved!Live
  <2>8. Saved!TypeOK'
    BY <1>1, <1>3, <2>3 DEF Saved!TypeOK, RestoreRecord
  <2>9. TrailInv'
    BY <1>1 DEF TrailInv
  <2>10. SessionInv'
    <3>1. \A q \in Restore : ~(restore'[q].stage = "capturing" /\ Saved!Live(q)')
      BY <2>2, <2>3, <2>4, <2>7
    <3>2. \A q \in Restore : restore'[q].session <= opened'
      BY <1>1, <2>6 DEF SessionInv
    <3>3. opened' > 0 /\ begun' /\ known' # {} /\ catalog' \subseteq known'
      BY <1>1, <1>3, <2>4
    <3>4. opened' # 0
      BY <2>4, <1>1
    <3> QED
      BY <3>1, <3>2, <3>3, <3>4 DEF SessionInv
  <2>11. RestoreInv'
    <3>1. ~(picks > picks)
      BY <1>1, CatalogsAssumption DEF Saved!TypeOK
    <3>2. \A q \in Restore : restore'[q].stage \in {"setting", "joining"} => q = r
      BY <2>3, <2>5
    <3>3. \A q \in Restore : restore'[q].stage = "joining" =>
            joint' /\ known' # {} /\ restore'[q].saved \in Own \ known'
      BY <1>3, <2>2, <2>3, <3>2
    <3>4. \A q \in Restore : restore'[q].stage = "setting" =>
            known' # {} /\ restore'[q].saved \in Own
              /\ (restore'[q].saved \in Upstream => restore'[q].saved \in known')
      BY <1>3, <2>2, <2>3, <3>2
    <3>5. \A q \in Restore : restore'[q].stage = "capturing" => restore'[q].against \notin Own
      BY <1>1, <2>2, <2>3 DEF RestoreInv
    <3>6. \A q \in Saved!Setting' : restore'[q].saved \in chosen' /\ restore'[q].against \notin Own
      BY <1>1, <2>2, <2>3, <3>2 DEF RestoreInv, Saved!Setting
    <3>7. \A q \in Restore : restore'[q].stage = "joining" => ~(picks' > restore'[q].since)
      BY <1>1, <2>2, <2>3, <3>1, <3>2
    <3> QED
      BY <3>3, <3>4, <3>5, <3>6, <3>7 DEF RestoreInv
  <2>12. RestoredInv'
    <3> SUFFICES ASSUME pick = None, NEW m \in chosen \cap Own PROVE Underway(m)'
      BY <1>1, <1>3 DEF RestoredInv
    <3>1. m = Saved!Resolved(trail)
      BY <1>1, ResolvedIsChosen
    <3>2. m # restore[r].seen
      BY <1>1, <1>3, <2>4 DEF RestoredInv
    <3>3. u.stage \in {"setting", "joining"} /\ u.saved = m
      BY <2>2, <3>1, <3>2
    <3> QED
      BY <1>3, <2>3, <2>7, <3>3 DEF Underway
  <2> QED
    BY <2>8, <2>9, <2>10, <2>11, <2>12 DEF SavedInv
<1> QED
  BY <1>2, <1>3 DEF Saved!Captured

(* whoever waits for the refresh goes on, for the model it waited for or not *)
LEMMA RejoinedRestore ==
  ASSUME Saved!TypeOK, TrailInv, NEW q \in Restore, NEW there \in SUBSET Own,
         NEW u, u = Saved!Rejoined(q, there)
  PROVE  /\ u \in RestoreRecord /\ u.session = restore[q].session
         /\ u.captured = restore[q].captured /\ u.stage \in {"setting", "over"}
         /\ u.stage = "setting" =>
              /\ Saved!Live(q) /\ restore[q].saved \in there /\ u.saved = restore[q].saved
              /\ Saved!Resolved(trail) = restore[q].saved
              /\ u.against = IF picks > restore[q].since THEN pick ELSE None
         /\ Saved!Live(q) /\ restore[q].saved \in there /\ Saved!Resolved(trail) = restore[q].saved =>
              u.stage = "setting"
<1>1. restore[q] \in RestoreRecord /\ pick \in Saved!Selectable \cup {None}
  BY SavedTypes DEF Saved!TypeOK
<1>2. CASE Saved!Live(q) /\ Saved!Stands(q, there)
  <2> DEFINE g == IF picks > restore[q].since THEN pick ELSE None
  <2>1. g \in Saved!Selectable \cup {None}
    BY <1>1
  <2>2. u = [restore[q] EXCEPT !.stage = "setting", !.against = g]
    BY <1>2 DEF Saved!Rejoined
  <2> HIDE DEF g
  <2>3. /\ u \in RestoreRecord /\ u.session = restore[q].session
        /\ u.captured = restore[q].captured /\ u.stage = "setting"
        /\ u.saved = restore[q].saved /\ u.against = g
    BY <1>1, <2>1, <2>2 DEF RestoreRecord
  <2>4. restore[q].saved \in there /\ Saved!Resolved(trail) = restore[q].saved
    BY <1>2 DEF Saved!Stands
  <2> QED
    BY <1>2, <2>3, <2>4 DEF g
<1>3. CASE ~(Saved!Live(q) /\ Saved!Stands(q, there))
  <2>1. u = Saved!Over(restore[q])
    BY <1>3 DEF Saved!Rejoined
  <2> QED
    BY <1>1, <1>3, <2>1, OverRestore DEF Saved!Stands
<1> QED
  BY <1>2, <1>3

LEMMA RefreshKeepsSaved == ASSUME SavedInv, Saved!RefreshLands PROVE SavedInv'
<1>1. /\ Saved!TypeOK /\ TrailInv /\ SessionInv /\ RestoreInv /\ RestoredInv
      /\ joint /\ joint' = FALSE
      /\ UNCHANGED <<opened, begun, trail, active, chosen, pick, picks>>
      /\ \A q \in Restore : restore[q] \in RestoreRecord
  BY SavedTypes DEF SavedInv, Saved!RefreshLands, Saved!host
<1>2. known # {} /\ (begun \/ catalog = {}) /\ catalog \subseteq known
  BY <1>1 DEF SessionInv
<1>3. \/ /\ Upstream # {} /\ known' = Upstream /\ refused' = refused
         /\ catalog' = IF begun THEN Upstream ELSE catalog
      \/ refused' = TRUE /\ UNCHANGED <<known, catalog>>
  BY DEF Saved!RefreshLands
<1>4. /\ known' # {} /\ known' \subseteq Own /\ catalog' \subseteq known' /\ catalog' \in SUBSET Own
      /\ refused' \in BOOLEAN
  BY <1>1, <1>2, <1>3, CatalogsAssumption DEF Saved!TypeOK
<1>5. PICK there \in SUBSET Own : there = catalog'
  BY <1>4
<1>6. /\ restore' = [q \in Restore |-> IF restore[q].stage = "joining" THEN Saved!Rejoined(q, there)
                                       ELSE restore[q]]
      /\ there \subseteq known' /\ (begun /\ known' # known => there = Upstream)
  BY <1>1, <1>3, <1>4, <1>5 DEF Saved!RefreshLands
<1>7. ASSUME NEW q \in Restore, restore[q].stage = "joining"
      PROVE  /\ restore'[q] \in RestoreRecord /\ restore'[q].session = restore[q].session
             /\ restore'[q].captured = restore[q].captured /\ restore'[q].stage \in {"setting", "over"}
             /\ restore'[q].stage = "setting" =>
                  /\ Saved!Live(q) /\ restore[q].saved \in there /\ restore'[q].saved = restore[q].saved
                  /\ Saved!Resolved(trail) = restore[q].saved
                  /\ restore'[q].against = IF picks > restore[q].since THEN pick ELSE None
             /\ Saved!Live(q) /\ restore[q].saved \in there /\ Saved!Resolved(trail) = restore[q].saved =>
                  restore'[q].stage = "setting"
  <2>1. PICK u : u = Saved!Rejoined(q, there)
    OBVIOUS
  <2>2. restore'[q] = u
    BY <1>6, <1>7, <2>1
  <2> QED
    BY <1>1, <2>1, <2>2, RejoinedRestore
<1>8. \A q \in Restore : restore[q].stage # "joining" => restore'[q] = restore[q]
  BY <1>6
<1>9. /\ restore' \in [Restore -> RestoreRecord]
      /\ \A q \in Restore : restore'[q].session = restore[q].session
                            /\ restore'[q].captured = restore[q].captured
                            /\ restore'[q].stage # "joining"
                            /\ (restore[q].stage = "unused" => restore'[q].stage = "unused")
  <2>1. \A q \in Restore : /\ restore'[q] \in RestoreRecord /\ restore'[q].session = restore[q].session
                           /\ restore'[q].captured = restore[q].captured
                           /\ restore'[q].stage # "joining"
                           /\ (restore[q].stage = "unused" => restore'[q].stage = "unused")
    BY <1>1, <1>7, <1>8
  <2> QED
    BY <1>6, <2>1
<1>10. \A q \in Restore : Saved!Live(q)' <=> Saved!Live(q)
  BY <1>1, <1>9 DEF Saved!Live
<1>11. Saved!TypeOK' /\ TrailInv'
  BY <1>1, <1>4, <1>9 DEF Saved!TypeOK, RestoreRecord, TrailInv
<1>12. \A q \in Restore : restore'[q].stage = "capturing" => restore[q].stage = "capturing"
                                                            /\ restore'[q] = restore[q]
  BY <1>7, <1>8
<1>13. SessionInv'
  <2>1. \A q \in Restore : restore'[q].session <= opened'
    BY <1>1, <1>9 DEF SessionInv
  <2>2. \A q \in Restore : restore'[q].stage # "unused" /\ Saved!Live(q)' => opened' > 0 /\ begun'
    BY <1>1, <1>9, <1>10 DEF SessionInv
  <2>3. \A q \in Restore : ~(restore'[q].stage = "capturing" /\ Saved!Live(q)')
    BY <1>1, <1>2, <1>10, <1>12 DEF SessionInv
  <2> QED
    BY <1>1, <1>4, <2>1, <2>2, <2>3 DEF SessionInv
<1>14. ASSUME NEW q \in Restore, restore'[q].stage = "setting", restore[q].stage = "joining"
       PROVE  /\ restore'[q].saved \in Own \cap chosen \cap known' /\ restore'[q].against \notin Own
  <2>1. /\ Saved!Live(q) /\ restore[q].saved \in there /\ restore'[q].saved = restore[q].saved
        /\ Saved!Resolved(trail) = restore[q].saved
        /\ restore'[q].against = IF picks > restore[q].since THEN pick ELSE None
    BY <1>7, <1>14
  <2>2. restore[q].saved \in Own \ known
    BY <1>1, <1>14 DEF RestoreInv
  <2>3. restore[q].saved \in chosen
    BY <1>1, <2>1, <2>2, ResolvedIsChosen, CatalogsAssumption
  <2>4. restore[q].saved \in Upstream
    BY <1>2, <1>3, <1>5, <2>1, <2>2
  <2>5. ASSUME picks > restore[q].since, pick \in Own PROVE FALSE
    <3>1. /\ trail # <<>> /\ Saved!Last(trail).model \in Own
          /\ Saved!Last(trail).model \in Upstream => Saved!Last(trail).model \in known
      BY <1>1, <1>14, <2>1, <2>5 DEF RestoreInv
    <3>2. Saved!Resolved(trail) = Saved!Last(trail).model
      BY <3>1 DEF Saved!Resolved
    <3> QED
      BY <2>1, <2>2, <2>4, <3>1, <3>2
  <2> QED
    BY <1>6, <2>1, <2>2, <2>3, <2>5, CatalogsAssumption
<1>15. RestoreInv'
  <2>1. \A q \in Restore : restore'[q].stage = "setting" =>
          known' # {} /\ restore'[q].saved \in Own
            /\ (restore'[q].saved \in Upstream => restore'[q].saved \in known')
    BY <1>1, <1>3, <1>4, <1>8, <1>14 DEF RestoreInv
  <2>2. \A q \in Restore : restore'[q].stage = "capturing" => restore'[q].against \notin Own
    BY <1>1, <1>12 DEF RestoreInv
  <2>3. \A q \in Saved!Setting' : restore'[q].saved \in chosen' /\ restore'[q].against \notin Own
    BY <1>1, <1>8, <1>10, <1>14 DEF RestoreInv, Saved!Setting
  <2> QED
    BY <1>9, <2>1, <2>2, <2>3 DEF RestoreInv
<1>16. RestoredInv'
  <2> SUFFICES ASSUME pick = None, ~refused', NEW q \in Restore, Saved!Live(q)', restore'[q].captured,
                      NEW m \in chosen \cap Own
               PROVE  Underway(m)'
    BY <1>1, <1>4 DEF RestoredInv
  <2>1. ~refused /\ known' = Upstream /\ catalog' = IF begun THEN Upstream ELSE catalog
    BY <1>3
  <2>2. Underway(m)
    BY <1>1, <1>9, <1>10, <2>1 DEF RestoredInv
  <2>3. CASE active = m \/ (known = Upstream /\ m \notin Upstream)
    BY <1>1, <2>1, <2>3 DEF Underway
  <2>4. ASSUME NEW p \in Restore, Saved!Live(p), restore[p].stage \in {"capturing", "setting"}
        PROVE  Underway(m)'
    BY <1>8, <1>10, <2>4 DEF Underway
  <2>5. ASSUME NEW p \in Restore, Saved!Live(p), restore[p].stage = "joining", restore[p].saved = m
        PROVE  Underway(m)'
    <3>1. begun /\ there = Upstream
      BY <1>1, <1>5, <2>1, <2>5 DEF SessionInv
    <3>2. Saved!Resolved(trail) = m
      BY <1>1, ResolvedIsChosen
    <3>3. CASE m \in Upstream
      <4>1. restore'[p].stage = "setting"
        BY <1>7, <2>5, <3>1, <3>2, <3>3
      <4> QED
        BY <1>10, <2>5, <4>1 DEF Underway
    <3>4. CASE m \notin Upstream
      BY <2>1, <3>4 DEF Underway
    <3> QED
      BY <3>3, <3>4
  <2> QED
    BY <2>2, <2>3, <2>4, <2>5 DEF Underway
<1> QED
  BY <1>11, <1>13, <1>15, <1>16 DEF SavedInv

THEOREM SavedStep == SavedInv /\ [Saved!Next]_(Saved!vars) => SavedInv'
<1> SUFFICES ASSUME SavedInv, [Saved!Next]_(Saved!vars) PROVE SavedInv'
  OBVIOUS
<1>1. CASE UNCHANGED Saved!vars
  <2>1. UNCHANGED <<opened, begun, trail, active, known, catalog, joint, restore, chosen, pick, picks, refused>>
    BY <1>1 DEF Saved!vars, Saved!host, Saved!history
  <2>2. Saved!TypeOK' /\ TrailInv' /\ SessionInv'
    BY <2>1 DEF SavedInv, Saved!TypeOK, TrailInv, SessionInv, Saved!Live
  <2>3. RestoreInv'
    BY <2>1 DEF SavedInv, RestoreInv, Saved!Live, Saved!Setting
  <2>4. RestoredInv'
    BY <2>1 DEF SavedInv, RestoredInv, Underway, Saved!Live
  <2> QED
    BY <2>2, <2>3, <2>4 DEF SavedInv
<1>2. CASE Saved!SessionStart
  <2>1. /\ opened > 0 /\ begun' = TRUE
        /\ UNCHANGED <<opened, trail, active, known, chosen, pick, picks, refused>>
    BY <1>2 DEF Saved!SessionStart, Saved!history
  <2> QED
    BY <1>2, <2>1, ReapplyBegins, CaptureBegins DEF Saved!SessionStart
<1> QED
  BY <1>1, <1>2, OpenKeeps, RefreshKeepsSaved, CapturedBegins, SetModelKeeps, PickKeeps DEF Saved!Next

LEMMA SavedRun == [MCNext]_allVars => [Saved!Next]_(Saved!vars)
BY DEF MCNext, allVars, modelVars, Saved!vars, Saved!host, Saved!history

LEMMA SavedInvHolds == MCSpec => []SavedInv
<1>1. MCInit => SavedInv
  BY SavedInit DEF MCInit
<1>2. SavedInv /\ [MCNext]_allVars => SavedInv'
  BY SavedStep, SavedRun
<1> QED
  BY <1>1, <1>2, PTL DEF MCSpec

(* A restore selects only what the user has chosen for this session and has   *)
(* not replaced by another of the provider's models, and a session with a     *)
(* capture ends on the model it was saved with.                               *)
LEMMA RestoresAreSound == SavedInv => Saved!RestoreSound
<1> SUFFICES ASSUME SavedInv PROVE Saved!RestoreSound
  OBVIOUS
<1>1. Saved!TypeOK /\ SessionInv /\ RestoreInv /\ RestoredInv
  BY DEF SavedInv
<1>2. Saved!ChosenOnly /\ Saved!OwnPickStands
  BY <1>1 DEF RestoreInv, Saved!ChosenOnly, Saved!OwnPickStands
<1>3. Saved!RestoredAtRest
  <2> SUFFICES ASSUME Saved!AtRest, pick = None, ~refused,
                      \E r \in Restore : Saved!Live(r) /\ restore[r].captured,
                      NEW m \in chosen \cap catalog
               PROVE  active = m
    BY DEF Saved!RestoredAtRest
  <2>1. m \in Own /\ m \in known
    BY <1>1 DEF SessionInv, Saved!TypeOK
  <2>2. Underway(m)
    BY <1>1, <2>1 DEF RestoredInv
  <2> QED
    BY <2>1, <2>2 DEF Underway, Saved!AtRest
<1> QED
  BY <1>1, <1>2, <1>3 DEF Saved!RestoreSound

(* Captures and restores are sound in every run, for any number of sessions,  *)
(* reloads, commands, captures, restores, models and picks.  Of the picks made *)
(* while a restore waits, those of the provider's own models stand (OwnPick-   *)
(* Stands); one of another provider is overridden (PickStands is refuted).    *)
THEOREM BuiltInsAreSound == MCSpec => []BuiltInsSound
BY CapturesAreSound, SavedInvHolds, RestoresAreSound, PTL DEF BuiltInsSound
============================================================================
