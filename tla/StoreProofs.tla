---------------------------- MODULE StoreProofs ----------------------------
(* Proofs about JsonStore, for any processes, calls, keys and exits: its      *)
(* types, that a write undoes what it has not seen only in its window, and    *)
(* that no update is lost; and about the memoised config, for any number of   *)
(* versions: that a load is fresh.                                            *)
EXTENDS MCStores, Integers, TLAPS

(* A call that is underway belongs to a process and carries a value worth     *)
(* storing; only the debounced store flushes; what is about to be written is  *)
(* a whole file.                                                              *)
CallInv ==
  \A c \in Call : call[c].stage \in {"waiting", "writing", "flushing"} =>
    /\ call[c].by \in Process /\ call[c].value \in Value
    /\ call[c].flushes => Debounced
    /\ call[c].stage = "writing" => call[c].base \in Content
    /\ call[c].stage = "flushing" => Debounced /\ memo[call[c].by] \in Content
TimerInv == \A p \in Process : timer[p] => Debounced /\ memo[p] \in Content
TypeInv == TypeOK /\ CallInv /\ TimerInv

LEMMA StageValues ==
  ASSUME NEW c \in Call, TypeOK
  PROVE  /\ call[c] \in Invocation
         /\ call[c] = [stage |-> call[c].stage, by |-> call[c].by, key |-> call[c].key,
                       value |-> call[c].value, flushes |-> call[c].flushes,
                       base |-> call[c].base]
BY DEF TypeOK, Invocation

LEMMA EndedIsInvocation ==
  /\ Ended \in Invocation /\ Idle \in Invocation
  /\ Ended.stage = "done" /\ Idle.stage = "idle" /\ Idle.by = None /\ Ended.by = None
BY DEF Ended, Idle, Invocation, Value

LEMMA UpdatedIsContent ==
  ASSUME NEW c \in Call, NEW content \in Content, TypeOK, call[c].value \in Value
  PROVE  Updated(content, c) \in Content
<1>1. call[c].key \in Key \cup {None}
  BY StageValues DEF Invocation
<1> QED
  BY <1>1 DEF Updated, Content, Value

LEMMA BaseIsContent ==
  ASSUME TypeInv, NEW p \in Process
  PROVE  Base(p) \in Content /\ Seen(p) \in Content
BY DEF TypeInv, TypeOK, TimerInv, Base, Seen

THEOREM TypeStep == TypeInv /\ [Next]_vars => TypeInv'
<1> SUFFICES ASSUME TypeInv, [Next]_vars PROVE TypeInv'
  OBVIOUS
<1> USE DEF TypeInv
<1>1. CASE UNCHANGED vars
  BY <1>1 DEF vars, store, ghost, TypeOK, CallInv, TimerInv, Debounced
<1>2. ASSUME NEW p \in Process, Load(p) PROVE TypeInv'
  <2>1. Seen(p) \in Content
    BY BaseIsContent
  <2>2. TypeOK'
    BY <1>2, <2>1 DEF Load, Loaded, TypeOK
  <2>3. CallInv' /\ TimerInv'
    BY <1>2, <2>1 DEF Load, Loaded, TypeOK, CallInv, TimerInv, Debounced
  <2> QED
    BY <2>2, <2>3
<1>3. ASSUME NEW p \in Process, NEW c \in Call, Invoke(c, p) PROVE TypeInv'
  <2>1. Seen(p) \in Content
    BY BaseIsContent
  <2>2. PICK k \in Key \cup {None}, v \in {"empty", "small", "full"}, f \in BOOLEAN :
          LET waiting == [Idle EXCEPT !.stage = "waiting", !.by = p, !.key = k,
                                      !.value = v, !.flushes = f]
          IN /\ f => style = "telemetry"
             /\ IF style = "providers"
                THEN /\ Loaded(p)
                     /\ call' = [call EXCEPT ![c] = IF WorthKeeping(p, k, v) THEN waiting
                                                                           ELSE Ended]
                ELSE /\ v # "empty"
                     /\ call' = [call EXCEPT ![c] = waiting]
                     /\ UNCHANGED <<memo, missed>>
    BY <1>3, ZenonT(40) DEF Invoke
  <2> DEFINE waiting == [Idle EXCEPT !.stage = "waiting", !.by = p, !.key = k,
                                     !.value = v, !.flushes = f]
  <2>3. /\ waiting \in Invocation
        /\ waiting.stage = "waiting" /\ waiting.by = p /\ waiting.value = v /\ waiting.flushes = f
    BY DEF Idle, Invocation, Value
  <2>4. /\ call' = [call EXCEPT ![c] = waiting] \/ call' = [call EXCEPT ![c] = Ended]
        /\ call' = [call EXCEPT ![c] = waiting] => v # "empty" \/ call' = [call EXCEPT ![c] = Ended]
        /\ memo' = memo \/ memo' = [memo EXCEPT ![p] = Seen(p)]
        /\ missed' \in [Process -> SUBSET Key]
    <3>1. missed \in [Process -> SUBSET Key]
      BY DEF TypeOK
    <3> QED
      BY <2>2, <3>1 DEF Loaded, WorthKeeping
  <2>5. TypeOK'
    BY <1>3, <2>1, <2>3, <2>4, EndedIsInvocation DEF Invoke, TypeOK
  <2>6. CallInv'
    <3> SUFFICES ASSUME NEW d \in Call, call'[d].stage \in {"waiting", "writing", "flushing"}
                 PROVE  /\ call'[d].by \in Process /\ call'[d].value \in Value
                        /\ call'[d].flushes => Debounced
                        /\ call'[d].stage = "writing" => call'[d].base \in Content
                        /\ call'[d].stage = "flushing" =>
                             Debounced /\ memo'[call'[d].by] \in Content
      BY <1>3 DEF CallInv, Invoke, Debounced
    <3>1. CASE d = c
      <4>1. call'[d] = waiting /\ v # "empty"
        BY <2>4, <3>1, EndedIsInvocation DEF TypeOK
      <4> QED
        BY <4>1, <2>2, <2>3 DEF Value, Debounced
    <3>2. CASE d # c
      <4>1. call'[d] = call[d]
        BY <2>4, <3>2 DEF TypeOK
      <4> QED
        BY <4>1, <2>1, <2>4 DEF CallInv, TypeOK
    <3> QED
      BY <3>1, <3>2
  <2>7. TimerInv'
    BY <1>3, <2>1, <2>4 DEF Invoke, TimerInv, TypeOK, Debounced
  <2> QED
    BY <2>5, <2>6, <2>7
<1>4. ASSUME NEW c \in Call, Read(c) PROVE TypeInv'
  <2> DEFINE p == call[c].by
  <2>1. p \in Process /\ Base(p) \in Content
    BY <1>4, BaseIsContent DEF Read, CallInv
  <2>2. /\ call' = [call EXCEPT ![c] = [call[c] EXCEPT !.stage = "writing", !.base = Base(p)]]
        /\ call[c].stage = "waiting"
    BY <1>4 DEF Read
  <2>3. TypeOK'
    BY <1>4, <2>1, <2>2, StageValues DEF Read, TypeOK, store, Invocation
  <2>4. CallInv'
    BY <1>4, <2>1, <2>2, StageValues DEF Read, store, CallInv, TypeOK, Debounced, Invocation
  <2>5. TimerInv'
    BY <1>4 DEF Read, store, TimerInv, Debounced
  <2> QED
    BY <2>3, <2>4, <2>5
<1>5. ASSUME NEW c \in Call, TimeOut(c) PROVE TypeInv'
  BY <1>5, EndedIsInvocation DEF TimeOut, store, ghost, TypeOK, CallInv, TimerInv, Debounced
<1>6. ASSUME NEW c \in Call, Save(c) PROVE TypeInv'
  <2> DEFINE p == call[c].by
             updated == Updated(call[c].base, c)
  <2>1. call[c].stage = "writing" /\ p \in Process /\ call[c].value \in Value /\ updated \in Content
    BY <1>6, UpdatedIsContent DEF Save, CallInv
  <2>2. Updated(latest, c) \in Content
    BY <2>1, UpdatedIsContent DEF TypeOK
  <2>3. memo' = [memo EXCEPT ![p] = updated] \/ (~InLock /\ memo' = memo)
    BY <1>6 DEF Save
  <2>4. call[c].key \in Key \cup {None} /\ Touched(c) \subseteq Key
    BY StageValues DEF Invocation, Touched
  <2>5. [call[c] EXCEPT !.stage = "flushing"] \in Invocation
    BY StageValues DEF Invocation
  <2>6. call' = [call EXCEPT ![c] = IF call[c].flushes THEN [call[c] EXCEPT !.stage = "flushing"]
                                                       ELSE Ended]
    BY <1>6 DEF Save
  <2>7. TypeOK'
    <3>1. disk' \in Content /\ missed' \in [Process -> SUBSET Key] /\ disturbed' \in BOOLEAN
          /\ timer' \in [Process -> BOOLEAN] /\ own' \in [Process -> SUBSET Key]
      BY <1>6, <2>1, <2>4, ZenonT(40) DEF Save, Written, NotWritten, TypeOK
    <3>2. call' \in [Call -> Invocation]
      BY <2>5, <2>6, EndedIsInvocation DEF TypeOK
    <3>3. /\ latest' \in Content /\ memo' \in [Process -> Content \cup {Absent}]
          /\ holder' \in Call \cup {None} /\ exits' \in Nat
          /\ style' \in {"providers", "probes", "telemetry", "opencode"}
      BY <1>6, <2>1, <2>2, <2>3 DEF Save, TypeOK
    <3> QED
      BY <3>1, <3>2, <3>3 DEF TypeOK
  <2>8. CallInv'
    <3> SUFFICES ASSUME NEW d \in Call, call'[d].stage \in {"waiting", "writing", "flushing"}
                 PROVE  /\ call'[d].by \in Process /\ call'[d].value \in Value
                        /\ call'[d].flushes => Debounced
                        /\ call'[d].stage = "writing" => call'[d].base \in Content
                        /\ call'[d].stage = "flushing" =>
                             Debounced /\ memo'[call'[d].by] \in Content
      BY <1>6 DEF CallInv, Save, Debounced
    <3>1. CASE d = c
      <4>1. call[c].flushes /\ call'[d] = [call[c] EXCEPT !.stage = "flushing"]
        BY <2>6, <3>1, EndedIsInvocation DEF TypeOK
      <4>2. Debounced
        BY <4>1, <2>1 DEF CallInv
      <4>3. memo' = [memo EXCEPT ![p] = updated]
        BY <4>2, <2>3 DEF Debounced, InLock
      <4>4. /\ call'[d].by = p /\ call'[d].value = call[c].value
            /\ call'[d].stage = "flushing"
        BY <4>1, StageValues DEF Invocation
      <4> QED
        BY <4>2, <4>3, <4>4, <2>1 DEF TypeOK
    <3>2. CASE d # c
      <4>1. call'[d] = call[d]
        BY <2>6, <3>2 DEF TypeOK
      <4> QED
        BY <4>1, <2>1, <2>3 DEF CallInv, TypeOK
    <3> QED
      BY <3>1, <3>2
  <2>9. TimerInv'
    BY <1>6, <2>1, <2>3 DEF Save, TimerInv, TypeOK, Debounced, InLock
  <2> QED
    BY <2>7, <2>8, <2>9
<1>7. ASSUME NEW p \in Process, WriteMemo(p), memo[p] \in Content,
             call' = call \/ \E c \in Call : call' = [call EXCEPT ![c] = Ended]
      PROVE  TypeInv'
  <2>1. TypeOK'
    <3>1. own[p] \subseteq Key
      BY DEF TypeOK
    <3>2. disk' \in Content /\ missed' \in [Process -> SUBSET Key] /\ disturbed' \in BOOLEAN
          /\ timer' \in [Process -> BOOLEAN] /\ own' \in [Process -> SUBSET Key]
      BY <1>7, <3>1, ZenonT(40) DEF WriteMemo, Written, NotWritten, TypeOK
    <3>3. call' \in [Call -> Invocation]
      BY <1>7, EndedIsInvocation DEF TypeOK
    <3> QED
      BY <1>7, <3>2, <3>3 DEF WriteMemo, TypeOK
  <2>2. CallInv' /\ TimerInv'
    BY <1>7, EndedIsInvocation DEF WriteMemo, CallInv, TimerInv, TypeOK, Debounced
  <2> QED
    BY <2>1, <2>2
<1>8. ASSUME NEW p \in Process, TimerFires(p) PROVE TypeInv'
  BY <1>7, <1>8 DEF TimerFires, TimerInv
<1>9. ASSUME NEW c \in Call, Flush(c) PROVE TypeInv'
  BY <1>7, <1>9 DEF Flush, CallInv
<1>10. ASSUME NEW p \in Process, Exit(p) PROVE TypeInv'
  <2>1. TypeOK'
    BY <1>10, EndedIsInvocation DEF Exit, TypeOK
  <2>2. CallInv' /\ TimerInv'
    BY <1>10, EndedIsInvocation DEF Exit, CallInv, TimerInv, TypeOK, Debounced
  <2> QED
    BY <2>1, <2>2
<1> QED
  BY <1>1, <1>2, <1>3, <1>4, <1>5, <1>6, <1>8, <1>9, <1>10 DEF Next

LEMMA TypeInit == Init => TypeInv
<1> SUFFICES ASSUME Init PROVE TypeInv
  OBVIOUS
<1>1. TypeOK
  BY EndedIsInvocation DEF Init, TypeOK
<1>2. CallInv /\ TimerInv
  BY EndedIsInvocation DEF Init, CallInv, TimerInv
<1> QED
  BY <1>1, <1>2 DEF TypeInv

(* The types of the stores hold, and an empty list is never stored. *)
THEOREM Typing == Spec => []TypeOK
<1>1. Spec => []TypeInv
  BY TypeInit, TypeStep, PTL DEF Spec
<1> QED
  BY <1>1, PTL DEF TypeInv

----------------------------------------------------------------------------
(* Who holds what.  The lock is the writing call's; a process writes one call *)
(* at a time; a store that writes at once has nothing pending.                *)
LockInv ==
  /\ \A c \in Call : call[c].stage = "writing" /\ InLock => holder = c
  /\ \A c, d \in Call : /\ call[c].stage = "writing" /\ call[d].stage = "writing"
                       /\ call[c].by = call[d].by
                       => c = d
  /\ ~Debounced => \A p \in Process : own[p] = {}

(* A process's memo, when it could be written, and the base of its call agree *)
(* with the file on all keys but those it has updated or missed; a store that *)
(* writes at once under the lock has missed none.                             *)
BaseInv ==
  /\ Debounced => \A p \in Process, k \in Key :
       Free(p) /\ memo[p] # Absent /\ k \notin own[p] \cup missed[p] => memo[p][k] = disk[k]
  /\ \A c \in Call, k \in Key :
       call[c].stage = "writing" /\ k \notin own[call[c].by] \cup missed[call[c].by]
         => call[c].base[k] = disk[k]
  /\ \A c \in Call :
       call[c].stage = "writing" /\ InLock /\ ~Debounced => missed[call[c].by] = {}

Inv == TypeInv /\ LockInv /\ BaseInv

LEMMA InvInit == Init => LockInv /\ BaseInv
BY EndedIsInvocation DEF Init, LockInv, BaseInv

(* What a step does to the calls: to at most one, or to those of one process. *)
LEMMA InvokedCall ==
  ASSUME TypeInv, NEW p \in Process, NEW c \in Call, Invoke(c, p)
  PROVE  /\ call'[c].stage # "writing"
         /\ \A d \in Call : d # c => call'[d] = call[d]
         /\ call[c].stage # "writing"
         /\ style' = style /\ holder' = holder /\ own' = own /\ disk' = disk
         /\ Free(p)
         /\ \/ memo' = memo /\ missed' = missed
            \/ ~Debounced /\ Loaded(p)
<1>1. call \in [Call -> Invocation]
  BY DEF TypeInv, TypeOK
<1>2. PICK k \in Key \cup {None}, v \in {"empty", "small", "full"}, f \in BOOLEAN :
        LET waiting == [Idle EXCEPT !.stage = "waiting", !.by = p, !.key = k,
                                    !.value = v, !.flushes = f]
        IN /\ f => style = "telemetry"
           /\ IF style = "providers"
              THEN /\ Loaded(p)
                   /\ call' = [call EXCEPT ![c] = IF WorthKeeping(p, k, v) THEN waiting ELSE Ended]
              ELSE /\ v # "empty"
                   /\ call' = [call EXCEPT ![c] = waiting]
                   /\ UNCHANGED <<memo, missed>>
  BY ZenonT(40) DEF Invoke
<1> DEFINE waiting == [Idle EXCEPT !.stage = "waiting", !.by = p, !.key = k,
                                   !.value = v, !.flushes = f]
<1>3. waiting.stage = "waiting"
  BY DEF Idle
<1>4. call' = [call EXCEPT ![c] = waiting] \/ call' = [call EXCEPT ![c] = Ended]
  BY <1>2
<1>5. call'[c].stage # "writing" /\ \A d \in Call : d # c => call'[d] = call[d]
  BY <1>1, <1>3, <1>4, EndedIsInvocation
<1>6. call[c].stage # "writing" /\ Free(p)
  BY EndedIsInvocation DEF Invoke
<1>7. (memo' = memo /\ missed' = missed) \/ (~Debounced /\ Loaded(p))
  BY <1>2 DEF Debounced
<1> QED
  BY <1>5, <1>6, <1>7 DEF Invoke

LEMMA ReadCall ==
  ASSUME TypeInv, NEW c \in Call, Read(c)
  PROVE  /\ call'[c].stage = "writing" /\ call'[c].by = call[c].by /\ call'[c].base = Base(call[c].by)
         /\ call[c].stage = "waiting" /\ call[c].by \in Process
         /\ \A d \in Call : d # c => call'[d] = call[d]
BY StageValues DEF Read, TypeInv, TypeOK, CallInv, Invocation

LEMMA SaveCall ==
  ASSUME TypeInv, NEW c \in Call, Save(c)
  PROVE  /\ call'[c].stage # "writing"
         /\ call[c].stage = "writing" /\ call[c].by \in Process
         /\ \A d \in Call : d # c => call'[d] = call[d]
<1>1. call \in [Call -> Invocation]
  BY DEF TypeInv, TypeOK
<1>2. [call[c] EXCEPT !.stage = "flushing"].stage = "flushing"
  BY <1>1 DEF Invocation
<1>3. call' = [call EXCEPT ![c] = IF call[c].flushes THEN [call[c] EXCEPT !.stage = "flushing"]
                                                     ELSE Ended]
  BY DEF Save
<1>4. call'[c].stage # "writing" /\ \A d \in Call : d # c => call'[d] = call[d]
  BY <1>1, <1>2, <1>3, EndedIsInvocation
<1> QED
  BY <1>4 DEF Save, TypeInv, CallInv

LEMMA OtherCall ==
  ASSUME TypeInv,
         \/ \E p \in Process : Load(p) \/ TimerFires(p) \/ Exit(p)
         \/ \E c \in Call : TimeOut(c) \/ Flush(c)
  PROVE  \A d \in Call : call'[d].stage = "writing" => call'[d] = call[d]
BY EndedIsInvocation DEF Load, TimerFires, Exit, TimeOut, Flush, TypeInv, TypeOK, store

THEOREM LockStep == TypeInv /\ LockInv /\ [Next]_vars => LockInv'
<1> SUFFICES ASSUME TypeInv, LockInv, [Next]_vars PROVE LockInv'
  OBVIOUS
<1>0. JsonStoreAssumption
  BY JsonStoreAssumption
<1>1. CASE UNCHANGED vars
  BY <1>1 DEF vars, store, ghost, LockInv, Debounced, InLock
<1>2. ASSUME NEW p \in Process, Load(p) PROVE LockInv'
  BY <1>2 DEF Load, LockInv, Debounced, InLock
<1>3. ASSUME NEW p \in Process, NEW c \in Call, Invoke(c, p) PROVE LockInv'
  BY <1>3, InvokedCall DEF LockInv, Debounced, InLock
<1>4. ASSUME NEW c \in Call, Read(c) PROVE LockInv'
  <2>1. style' = style /\ own' = own
    BY <1>4 DEF Read
  <2>2. \A d \in Call : call'[d].stage = "writing" /\ InLock => holder' = d
    BY <1>0, <1>4, ReadCall DEF Read, LockInv, InLock, JsonStoreAssumption
  <2>3. \A d \in Call : d # c /\ call'[d].stage = "writing" => call'[d].by # call'[c].by
    <3>1. Free(call[c].by)
      BY <1>4 DEF Read
    <3> QED
      BY <1>4, <3>1, ReadCall DEF Free
  <2> QED
    BY <1>4, <2>1, <2>2, <2>3, ReadCall DEF LockInv, InLock, Debounced
<1>5. ASSUME NEW c \in Call, TimeOut(c) PROVE LockInv'
  BY <1>5, OtherCall DEF TimeOut, store, ghost, LockInv, Debounced, InLock
<1>6. ASSUME NEW c \in Call, Save(c) PROVE LockInv'
  <2>1. /\ style' = style
        /\ ~Debounced => \A p \in Process : own'[p] = {}
    BY <1>6, SaveCall DEF Save, Written, NotWritten, LockInv, TypeInv, TypeOK
  <2>2. \A d \in Call : call'[d].stage = "writing" => d # c /\ call'[d] = call[d]
    BY <1>6, SaveCall
  <2>3. \A d \in Call : call'[d].stage = "writing" => ~InLock
    BY <1>6, <2>2, SaveCall DEF LockInv
  <2> QED
    BY <2>1, <2>2, <2>3 DEF LockInv, Debounced, InLock
<1>7. ASSUME NEW p \in Process, WriteMemo(p) PROVE
        style' = style /\ holder' = holder /\ (~Debounced => \A q \in Process : own'[q] = {})
  BY <1>7 DEF WriteMemo, Written, NotWritten, LockInv, TypeInv, TypeOK
<1>8. ASSUME NEW p \in Process, TimerFires(p) PROVE LockInv'
  BY <1>7, <1>8 DEF TimerFires, LockInv, Debounced, InLock
<1>9. ASSUME NEW c \in Call, Flush(c) PROVE LockInv'
  <2>1. call[c].by \in Process
    BY <1>9 DEF Flush, TypeInv, CallInv
  <2> QED
    BY <1>7, <1>9, <2>1, OtherCall DEF Flush, LockInv, Debounced, InLock
<1>10. ASSUME NEW p \in Process, Exit(p) PROVE LockInv'
  <2>1. style' = style /\ (~Debounced => \A q \in Process : own'[q] = {})
    BY <1>10 DEF Exit, LockInv, TypeInv, TypeOK
  <2>2. \A d \in Call : call'[d].stage = "writing" => call'[d] = call[d] /\ call[d].by # p
    BY <1>10, EndedIsInvocation DEF Exit
  <2>3. \A d \in Call : call'[d].stage = "writing" /\ InLock => holder' = d
    BY <1>10, <2>2, EndedIsInvocation DEF Exit, LockInv
  <2> QED
    BY <2>1, <2>2, <2>3 DEF LockInv, Debounced, InLock
<1> QED
  BY <1>1, <1>2, <1>3, <1>4, <1>5, <1>6, <1>8, <1>9, <1>10 DEF Next

LEMMA AbsentIsNoContent ==
  ASSUME NEW k \in Key
  PROVE  Absent \notin Content
BY DEF Absent, Content

LEMMA WrittenMisses ==
  ASSUME TypeInv, NEW p \in Process, NEW content \in Content, NEW keys \in SUBSET Key,
         Written(p, content, keys)
  PROVE  /\ disk' = content
         /\ missed'[p] = {}
         /\ \A q \in Process : q # p =>
              /\ own'[q] = own[q] /\ missed[q] \subseteq missed'[q]
              /\ \A k \in Key : k \notin missed'[q] => disk'[k] = disk[k]
BY DEF Written, TypeInv, TypeOK

LEMMA TouchedOnly ==
  ASSUME TypeInv, NEW c \in Call, call[c].stage = "writing", NEW k \in Key, k \notin Touched(c)
  PROVE  Updated(call[c].base, c)[k] = call[c].base[k]
BY DEF TypeInv, CallInv, Touched, Updated, Content

(* A write of the memo by a process that is free, timer or flush. *)
LEMMA MemoStep ==
  ASSUME Inv, NEW p \in Process, WriteMemo(p), Free(p), Debounced, memo[p] \in Content,
         \A d \in Call : call[d].stage = "writing" => call'[d] = call[d],
         \A d \in Call : call'[d].stage = "writing" => call'[d] = call[d]
  PROVE  /\ BaseInv'
         /\ \A k \in Key : disk'[k] # disk[k] => k \in own[p] \/ k \in missed[p]
<1>1. Debounced' /\ memo' = memo
  BY DEF WriteMemo, Debounced
<1>2. \A q \in Process : Free(q)' => Free(q)
  BY DEF Free
<1>3. own[p] \in SUBSET Key
  BY DEF Inv, TypeInv, TypeOK
<1>4. CASE Written(p, memo[p], own[p])
  <2>1. /\ disk' = memo[p]
        /\ \A q \in Process : q # p =>
             /\ own'[q] = own[q] /\ missed[q] \subseteq missed'[q]
             /\ \A k \in Key : k \notin missed'[q] => disk'[k] = disk[k]
    BY <1>3, <1>4, WrittenMisses DEF Inv
  <2>2. ASSUME NEW q \in Process, NEW k \in Key, Free(q)', memo'[q] # Absent,
               k \notin (own[q] \cup missed[q])'
        PROVE  memo'[q][k] = disk'[k]
    BY <1>1, <1>2, <2>1, <2>2 DEF Inv, BaseInv
  <2>3. ASSUME NEW d \in Call, NEW k \in Key, call'[d].stage = "writing",
               k \notin own'[call'[d].by] \cup missed'[call'[d].by]
        PROVE  call'[d].base[k] = disk'[k]
    <3>1. call'[d] = call[d] /\ call[d].by \in Process /\ call[d].by # p
      BY <2>3 DEF Free, Inv, TypeInv, CallInv
    <3> QED
      BY <2>1, <2>3, <3>1 DEF Inv, BaseInv
  <2>4. \A k \in Key : disk'[k] # disk[k] => k \in own[p] \/ k \in missed[p]
    BY <2>1, AbsentIsNoContent DEF Inv, BaseInv
  <2> QED
    BY <1>1, <2>2, <2>3, <2>4 DEF BaseInv
<1>5. CASE NotWritten
  <2>1. disk' = disk /\ missed' = missed /\ own' = own
    BY <1>5 DEF NotWritten
  <2> QED
    BY <1>1, <1>2, <2>1 DEF Inv, BaseInv
<1> QED
  BY <1>4, <1>5 DEF WriteMemo

LEMMA FreshBase ==
  ASSUME Inv, NEW c \in Call, Read(c), NEW k \in Key,
         k \notin own[call[c].by] \cup missed'[call[c].by]
  PROVE  Base(call[c].by)[k] = disk[k]
<1> DEFINE p == call[c].by
<1>1. p \in Process /\ Free(p)
  BY ReadCall DEF Read, Inv
<1>2. CASE timer[p] /\ memo[p] # Absent
  <2>1. Debounced /\ missed'[p] = missed[p]
    BY <1>1, <1>2 DEF Read, Inv, TypeInv, TypeOK, TimerInv
  <2> QED
    BY <1>1, <1>2, <2>1 DEF Base, Inv, BaseInv
<1>3. CASE ~(timer[p] /\ memo[p] # Absent)
  BY <1>3 DEF Base
<1> QED
  BY <1>2, <1>3

THEOREM BaseStep == Inv /\ [Next]_vars => BaseInv'
<1> SUFFICES ASSUME Inv, [Next]_vars PROVE BaseInv'
  OBVIOUS
<1>0. TypeInv
  BY DEF Inv
<1>1. CASE UNCHANGED vars
  BY <1>1 DEF vars, store, ghost, Inv, BaseInv, Debounced, InLock, Free
<1>2. ASSUME NEW p \in Process, Load(p) PROVE BaseInv'
  <2>1. /\ call' = call /\ style' = style /\ disk' = disk /\ own' = own /\ Free(p)
        /\ \A q \in Process : q # p => memo'[q] = memo[q] /\ missed'[q] = missed[q]
        /\ IF memo[p] = Absent THEN memo'[p] = disk /\ missed'[p] = {}
                               ELSE memo'[p] = memo[p] /\ missed'[p] = missed[p]
    BY <1>0, <1>2 DEF Load, Loaded, Seen, TypeInv, TypeOK
  <2>2. \A d \in Call : call[d].stage = "writing" => call[d].by \in Process /\ call[d].by # p
    BY <1>0, <2>1 DEF Free, TypeInv, CallInv
  <2> QED
    BY <2>1, <2>2 DEF Inv, BaseInv, Debounced, InLock, Free
<1>3. ASSUME NEW p \in Process, NEW c \in Call, Invoke(c, p) PROVE BaseInv'
  <2>1. /\ \A q \in Process : Free(q)' => Free(q)
        /\ \A d \in Call : call'[d].stage = "writing" =>
             call'[d] = call[d] /\ call[d].by \in Process /\ call[d].by # p
        /\ style' = style /\ own' = own /\ disk' = disk
    BY <1>0, <1>3, InvokedCall DEF Free, TypeInv, CallInv
  <2>2. CASE memo' = memo /\ missed' = missed
    BY <2>1, <2>2 DEF Inv, BaseInv, Debounced, InLock
  <2>3. CASE ~Debounced /\ Loaded(p)
    <3>1. \A q \in Process : q # p => missed'[q] = missed[q]
      BY <1>0, <2>3 DEF Loaded, TypeInv, TypeOK
    <3> QED
      BY <2>1, <2>3, <3>1 DEF Inv, BaseInv, Debounced, InLock
  <2> QED
    BY <1>0, <1>3, <2>2, <2>3, InvokedCall
<1>4. ASSUME NEW c \in Call, Read(c) PROVE BaseInv'
  <2> DEFINE p == call[c].by
  <2>1. /\ style' = style /\ own' = own /\ disk' = disk /\ memo' = memo /\ p \in Process /\ Free(p)
        /\ \A q \in Process : q # p => missed'[q] = missed[q]
        /\ ~timer[p] => missed'[p] = {}
    BY <1>0, <1>4, ReadCall DEF Read, store, TypeInv, TypeOK
  <2>2. ~Free(p)' /\ \A q \in Process : Free(q)' => Free(q)
    BY <1>0, <1>4, ReadCall DEF Free
  <2>3. \A d \in Call : d # c /\ call'[d].stage = "writing" =>
          call'[d] = call[d] /\ call[d].by \in Process /\ call[d].by # p
    BY <1>0, <1>4, <2>1, ReadCall DEF Free, TypeInv, CallInv
  <2>4. \A k \in Key : k \notin own[p] \cup missed'[p] => Base(p)[k] = disk[k]
    BY <1>4, FreshBase
  <2>5. ~Debounced => missed'[p] = {}
    BY <1>0, <2>1 DEF TypeInv, TimerInv
  <2>6. call'[c].by = p /\ call'[c].base = Base(p)
    BY <1>0, <1>4, ReadCall
  <2>7. ASSUME Debounced', NEW q \in Process, NEW k \in Key, Free(q)', memo'[q] # Absent,
               k \notin (own[q] \cup missed[q])'
        PROVE  memo'[q][k] = disk'[k]
    <3>1. q # p
      BY <1>0, <1>4, <2>7, ReadCall DEF Free
    <3>2. Free(q)
      BY <2>2, <2>7
    <3> QED
      BY <2>1, <2>7, <3>1, <3>2 DEF Inv, BaseInv, Debounced
  <2>8. ASSUME NEW d \in Call, NEW k \in Key, call'[d].stage = "writing",
               k \notin own'[call'[d].by] \cup missed'[call'[d].by]
        PROVE  call'[d].base[k] = disk'[k]
    BY <2>1, <2>3, <2>4, <2>6, <2>8 DEF Inv, BaseInv
  <2>9. ASSUME NEW d \in Call, call'[d].stage = "writing", InLock', ~Debounced'
        PROVE  missed'[call'[d].by] = {}
    BY <2>1, <2>3, <2>5, <2>6, <2>9 DEF Inv, BaseInv, Debounced, InLock
  <2> QED
    BY <2>7, <2>8, <2>9 DEF BaseInv
<1>5. ASSUME NEW c \in Call, TimeOut(c) PROVE BaseInv'
  <2>1. /\ style' = style /\ own' = own /\ disk' = disk /\ memo' = memo /\ missed' = missed
        /\ \A d \in Call : call'[d].stage = "writing" => call'[d] = call[d]
        /\ \A d \in Call : call[d].stage = "writing" => call'[d] = call[d]
    BY <1>0, <1>5, OtherCall DEF TimeOut, store, ghost, TypeInv, TypeOK
  <2>2. \A q \in Process : Free(q)' => Free(q)
    BY <2>1 DEF Free
  <2> QED
    BY <2>1, <2>2 DEF Inv, BaseInv, Debounced, InLock
<1>6. ASSUME NEW c \in Call, Save(c) PROVE BaseInv'
  <2> DEFINE p == call[c].by
             updated == Updated(call[c].base, c)
  <2>1. /\ call[c].stage = "writing" /\ p \in Process /\ style' = style
        /\ call[c].base \in Content /\ call[c].value \in Value
    BY <1>0, <1>6, SaveCall DEF Save, TypeInv, CallInv
  <2>2. \A d \in Call : call'[d].stage = "writing" =>
          d # c /\ call'[d] = call[d] /\ call[d].by \in Process /\ call[d].by # p
    BY <1>0, <1>6, <2>1, SaveCall DEF Inv, LockInv, TypeInv, CallInv
  <2>3. \A q \in Process : q # p /\ Free(q)' => Free(q)
    BY <1>0, <1>6, SaveCall DEF Free
  <2>4. CASE Debounced
    <3>1. /\ disk' = disk /\ missed' = missed
          /\ own'[p] = own[p] \cup Touched(c) /\ memo'[p] = updated
          /\ \A q \in Process : q # p => own'[q] = own[q] /\ memo'[q] = memo[q]
      BY <1>0, <1>6, <2>1, <2>4 DEF Save, TypeInv, TypeOK, InLock, Debounced
    <3>2. \A k \in Key : k \notin own'[p] \cup missed[p] => updated[k] = disk[k]
      <4> SUFFICES ASSUME NEW k \in Key, k \notin own'[p] \cup missed[p] PROVE updated[k] = disk[k]
        OBVIOUS
      <4>1. updated[k] = call[c].base[k]
        BY <1>0, <2>1, <3>1, TouchedOnly
      <4>2. call[c].base[k] = disk[k]
        BY <2>1, <3>1 DEF Inv, BaseInv
      <4> QED
        BY <4>1, <4>2
    <3>3. ASSUME NEW q \in Process, NEW k \in Key, Free(q)', memo'[q] # Absent,
                 k \notin (own[q] \cup missed[q])'
          PROVE  memo'[q][k] = disk'[k]
      BY <2>3, <2>4, <3>1, <3>2, <3>3 DEF Inv, BaseInv
    <3>4. ASSUME NEW d \in Call, NEW k \in Key, call'[d].stage = "writing",
                 k \notin own'[call'[d].by] \cup missed'[call'[d].by]
          PROVE  call'[d].base[k] = disk'[k]
      BY <2>2, <3>1, <3>4 DEF Inv, BaseInv
    <3> QED
      BY <2>1, <2>4, <3>3, <3>4 DEF BaseInv, Debounced
  <2>5. CASE ~Debounced
    <3>1. updated \in Content /\ Touched(c) \in SUBSET Key
      BY <1>0, <2>1, UpdatedIsContent, StageValues DEF TypeInv, Touched, Invocation
    <3>2. \A q \in Process : q # p =>
            /\ own'[q] = own[q] /\ missed[q] \subseteq missed'[q]
            /\ \A k \in Key : k \notin missed'[q] => disk'[k] = disk[k]
      BY <1>0, <1>6, <2>1, <2>5, <3>1, WrittenMisses DEF Save, NotWritten
    <3>3. ASSUME NEW d \in Call, NEW k \in Key, call'[d].stage = "writing",
                 k \notin own'[call'[d].by] \cup missed'[call'[d].by]
          PROVE  call'[d].base[k] = disk'[k]
      BY <2>2, <3>2, <3>3 DEF Inv, BaseInv
    <3>4. \A d \in Call : call'[d].stage = "writing" => ~InLock
      BY <2>1, <2>2 DEF Inv, LockInv
    <3> QED
      BY <2>1, <2>5, <3>3, <3>4 DEF BaseInv, Debounced, InLock
  <2> QED
    BY <2>4, <2>5
<1>7. ASSUME NEW p \in Process, TimerFires(p) PROVE BaseInv'
  BY <1>0, <1>7, MemoStep DEF TimerFires, TypeInv, TimerInv
<1>8. ASSUME NEW c \in Call, Flush(c) PROVE BaseInv'
  <2>1. \A d \in Call : call[d].stage = "writing" => call'[d] = call[d]
    BY <1>0, <1>8 DEF Flush, TypeInv, TypeOK
  <2> QED
    BY <1>0, <1>8, <2>1, MemoStep, OtherCall DEF Flush, TypeInv, CallInv
<1>9. ASSUME NEW p \in Process, Exit(p) PROVE BaseInv'
  <2>1. /\ style' = style /\ disk' = disk /\ memo'[p] = Absent
        /\ \A q \in Process : q # p =>
             memo'[q] = memo[q] /\ own'[q] = own[q] /\ missed'[q] = missed[q]
    BY <1>0, <1>9 DEF Exit, TypeInv, TypeOK
  <2>2. \A d \in Call : call'[d].stage = "writing" =>
          call'[d] = call[d] /\ call[d].by \in Process /\ call[d].by # p
    BY <1>0, <1>9, EndedIsInvocation DEF Exit, TypeInv, CallInv
  <2>3. \A q \in Process : q # p /\ Free(q)' => Free(q)
    BY <1>9 DEF Exit, Free
  <2> QED
    BY <2>1, <2>2, <2>3 DEF Inv, BaseInv, Debounced, InLock
<1> QED
  BY <1>1, <1>2, <1>3, <1>4, <1>5, <1>6, <1>7, <1>8, <1>9 DEF Next

LEMMA InvHolds == Spec => []Inv
<1>1. Init => Inv
  BY TypeInit, InvInit DEF Inv
<1>2. Inv /\ [Next]_vars => Inv'
  BY TypeStep, LockStep, BaseStep DEF Inv
<1> QED
  BY <1>1, <1>2, PTL DEF Spec

(* A write changes only what its process has updated, and undoes what another *)
(* has written only within its own window, whatever else is going on.         *)
THEOREM Isolation == Spec => Isolated
<1>1. ASSUME Inv, [Next]_vars, NEW k \in Key, disk'[k] # disk[k]
      PROVE  \E p \in Process :
               \/ k \in own[p]
               \/ \E c \in Call : Save(c) /\ call[c].by = p /\ k \in Touched(c)
               \/ k \in missed[p] /\ Window(p)
  <2>0. TypeInv
    BY <1>1 DEF Inv
  <2>1. CASE UNCHANGED vars
    BY <1>1, <2>1 DEF vars, store
  <2>2. ASSUME NEW p \in Process, TimerFires(p)
        PROVE  k \in own[p] \/ (k \in missed[p] /\ Window(p))
    <3>1. \A d \in Call : call'[d] = call[d]
      BY <2>2 DEF TimerFires
    <3>2. Debounced /\ memo[p] \in Content
      BY <2>0, <2>2 DEF TimerFires, TypeInv, TimerInv
    <3> QED
      BY <1>1, <2>2, <3>1, <3>2, MemoStep DEF TimerFires, Window
  <2>3. ASSUME NEW c \in Call, Flush(c)
        PROVE  \E p \in Process : k \in own[p] \/ (k \in missed[p] /\ Window(p))
    <3> DEFINE p == call[c].by
    <3>1. p \in Process /\ Debounced /\ memo[p] \in Content /\ Window(p)
      BY <2>0, <2>3 DEF Flush, TypeInv, CallInv, Window
    <3>2. /\ \A d \in Call : call[d].stage = "writing" => call'[d] = call[d]
          /\ \A d \in Call : call'[d].stage = "writing" => call'[d] = call[d]
      BY <2>0, <2>3, EndedIsInvocation DEF Flush, TypeInv, TypeOK
    <3>3. k \in own[p] \/ k \in missed[p]
      BY <1>1, <2>3, <3>1, <3>2, MemoStep DEF Flush
    <3> QED
      BY <3>1, <3>3
  <2>4. ASSUME NEW c \in Call, Save(c)
        PROVE  \E p \in Process :
                 \/ k \in Touched(c) /\ call[c].by = p
                 \/ k \in missed[p] /\ Window(p)
    <3> DEFINE p == call[c].by
    <3>1. call[c].stage = "writing" /\ p \in Process
      BY <2>0, <2>4, SaveCall
    <3>2. ~Debounced /\ disk' = Updated(call[c].base, c)
      BY <1>1, <2>4 DEF Save, Written, NotWritten
    <3>3. CASE k \notin Touched(c)
      <4>1. call[c].base[k] # disk[k]
        BY <1>1, <2>0, <3>1, <3>2, <3>3, TouchedOnly
      <4>2. k \in missed[p]
        BY <1>1, <3>1, <3>2, <4>1 DEF Inv, LockInv, BaseInv
      <4>3. ~InLock
        BY <1>1, <3>1, <3>2, <4>2 DEF Inv, BaseInv
      <4> QED
        BY <3>1, <4>2, <4>3 DEF Window
    <3> QED
      BY <3>1, <3>3
  <2>5. \/ \E p \in Process : Load(p) \/ Exit(p)
        \/ \E c \in Call : Read(c) \/ TimeOut(c) \/ \E p \in Process : Invoke(c, p)
        => disk' = disk
    BY DEF Load, Exit, Read, TimeOut, Invoke, store
  <2> QED
    BY <1>1, <2>1, <2>2, <2>3, <2>4, <2>5 DEF Next
<1>2. Inv /\ [Next]_vars =>
        [\A k \in Key : disk'[k] # disk[k] =>
           \E p \in Process :
             \/ k \in own[p]
             \/ \E c \in Call : Save(c) /\ call[c].by = p /\ k \in Touched(c)
             \/ k \in missed[p] /\ Window(p)]_vars
  BY <1>1
<1> QED
  BY <1>2, InvHolds, PTL DEF Spec, Isolated

----------------------------------------------------------------------------
(* No update is lost.  DurableAtRest speaks of the times when nothing is      *)
(* pending, and no step keeps it: what the pending writes will make of the    *)
(* file has to be known.  A process with an update pending has its timer set; *)
(* the file lacks an update only if one of them has it; and what is pending   *)
(* on a key that no other process updates or has written is the latest.  Two  *)
(* processes with an update of one key pending cannot both write it           *)
(* undisturbed: the first write makes the other miss it.                      *)
SoleOwner(p, k) == k \in own[p] /\ \A q \in Process : q # p => k \notin own[q]
LatestInv ==
  ~disturbed =>
    /\ \A p \in Process : own[p] # {} => timer[p]
    /\ \A k \in Key : disk[k] # latest[k] => \E p \in Process : k \in own[p]
    /\ \A p \in Process, k \in Key :
         SoleOwner(p, k) /\ k \notin missed[p] /\ Free(p) => memo[p][k] = latest[k]
    /\ \A c \in Call, k \in Key :
         /\ call[c].stage = "writing"
         /\ SoleOwner(call[c].by, k) /\ k \notin missed[call[c].by]
         => call[c].base[k] = latest[k]

LEMMA LatestInit == Init => LatestInv
BY EndedIsInvocation DEF Init, LatestInv, SoleOwner

(* An updated key gets the value of its call, whatever it was before. *)
LEMMA UpdatedAlike ==
  ASSUME TypeInv, NEW c \in Call, call[c].stage = "writing",
         NEW f \in Content, NEW g \in Content, NEW k \in Key,
         k \in Touched(c) \/ f[k] = g[k]
  PROVE  Updated(f, c)[k] = Updated(g, c)[k]
<1>1. call[c].key \in Key \cup {None}
  BY StageValues DEF TypeInv, Invocation
<1> QED
  BY <1>1 DEF Updated, Touched, Content

LEMMA SameContent ==
  ASSUME NEW f \in Content, NEW g \in Content, \A k \in Key : f[k] = g[k]
  PROVE  f = g
BY DEF Content

(* A write of the memo by a process that is free. *)
LEMMA LatestMemo ==
  ASSUME Inv, LatestInv, NEW p \in Process, WriteMemo(p), Free(p), Debounced,
         memo[p] \in Content,
         \A d \in Call : call[d].stage = "writing" => call'[d] = call[d],
         \A d \in Call : call'[d].stage = "writing" => call'[d] = call[d]
  PROVE  LatestInv'
<1>0. TypeInv /\ own[p] \in SUBSET Key
  BY DEF Inv, TypeInv, TypeOK
<1> SUFFICES ASSUME ~disturbed' PROVE LatestInv'
  BY DEF LatestInv
<1>1. Written(p, memo[p], own[p]) /\ ~disturbed /\ missed[p] = {}
  BY DEF WriteMemo, NotWritten
<1>2. /\ memo' = memo /\ latest' = latest
      /\ \A q \in Process : q # p => timer'[q] = timer[q]
  BY <1>0 DEF WriteMemo, TypeInv, TypeOK
<1>3. /\ disk' = memo[p]
      /\ \A q \in Process : q # p => own'[q] = own[q] /\ missed[q] \subseteq missed'[q]
  BY <1>0, <1>1, WrittenMisses
<1>4. /\ own'[p] = {}
      /\ \A q \in Process : q # p => own[p] \subseteq missed'[q]
  BY <1>0, <1>1 DEF Written, TypeInv, TypeOK
<1>5. \A q \in Process : Free(q)' => Free(q)
  BY DEF Free
<1>6. ASSUME NEW q \in Process, own'[q] # {} PROVE timer'[q]
  BY <1>1, <1>2, <1>3, <1>4, <1>6 DEF LatestInv
<1>7. ASSUME NEW k \in Key, disk'[k] # latest'[k]
      PROVE  \E q \in Process : k \in own'[q]
  <2>1. CASE \E q \in Process : q # p /\ k \in own[q]
    BY <1>3, <2>1
  <2>2. CASE \A q \in Process : q # p => k \notin own[q]
    <3>1. CASE k \in own[p]
      BY <1>1, <1>2, <1>3, <1>7, <2>2, <3>1 DEF LatestInv, SoleOwner
    <3>2. CASE k \notin own[p]
      <4>1. memo[p][k] = disk[k]
        BY <1>1, <3>2, AbsentIsNoContent DEF Inv, BaseInv
      <4> QED
        BY <1>1, <1>2, <1>3, <1>7, <2>2, <3>2, <4>1 DEF LatestInv
    <3> QED
      BY <3>1, <3>2
  <2> QED
    BY <2>1, <2>2
<1>8. ASSUME NEW q \in Process, NEW k \in Key, SoleOwner(q, k)', k \notin missed'[q]
      PROVE  q # p /\ SoleOwner(q, k) /\ k \notin missed[q]
  BY <1>3, <1>4, <1>8 DEF SoleOwner
<1>9. ASSUME NEW q \in Process, NEW k \in Key, SoleOwner(q, k)', k \notin missed'[q], Free(q)'
      PROVE  memo'[q][k] = latest'[k]
  BY <1>1, <1>2, <1>5, <1>8, <1>9 DEF LatestInv
<1>10. ASSUME NEW d \in Call, NEW k \in Key, call'[d].stage = "writing",
              SoleOwner(call[d].by, k)', k \notin missed'[call[d].by]
       PROVE  call'[d].base[k] = latest'[k]
  <2>1. call'[d] = call[d] /\ call[d].by \in Process
    BY <1>0, <1>10 DEF TypeInv, CallInv
  <2> QED
    BY <1>1, <1>2, <1>8, <1>10, <2>1 DEF LatestInv
<1>11. \A d \in Call : call'[d].stage = "writing" => call'[d].by = call[d].by
  OBVIOUS
<1> QED
  BY <1>6, <1>7, <1>9, <1>10, <1>11 DEF LatestInv, SoleOwner

THEOREM LatestStep == Inv /\ LatestInv /\ [Next]_vars => LatestInv'
<1> SUFFICES ASSUME Inv, LatestInv, [Next]_vars PROVE LatestInv'
  OBVIOUS
<1>0. TypeInv
  BY DEF Inv
<1>1. CASE UNCHANGED vars
  BY <1>1 DEF vars, store, ghost, LatestInv, SoleOwner, Free
<1>2. ASSUME NEW p \in Process, Load(p) PROVE LatestInv'
  <2>1. /\ call' = call /\ disk' = disk /\ own' = own /\ latest' = latest /\ timer' = timer
        /\ disturbed' = disturbed /\ Free(p)
        /\ \A q \in Process : q # p => memo'[q] = memo[q] /\ missed'[q] = missed[q]
        /\ memo[p] # Absent => memo'[p] = memo[p] /\ missed'[p] = missed[p]
    BY <1>0, <1>2 DEF Load, Loaded, Seen, TypeInv, TypeOK
  <2>2. \A d \in Call : call[d].stage = "writing" => call[d].by \in Process /\ call[d].by # p
    BY <1>0, <2>1 DEF Free, TypeInv, CallInv
  <2>3. ~disturbed /\ memo[p] = Absent => own[p] = {}
    BY <1>0, AbsentIsNoContent DEF LatestInv, TypeInv, TypeOK, TimerInv
  <2> QED
    BY <2>1, <2>2, <2>3 DEF LatestInv, SoleOwner, Free
<1>3. ASSUME NEW p \in Process, NEW c \in Call, Invoke(c, p) PROVE LatestInv'
  <2>1. /\ \A q \in Process : Free(q)' => Free(q)
        /\ \A d \in Call : call'[d].stage = "writing" => call'[d] = call[d]
        /\ own' = own /\ disk' = disk
    BY <1>0, <1>3, InvokedCall DEF Free
  <2>2. latest' = latest /\ timer' = timer /\ disturbed' = disturbed
    BY <1>3 DEF Invoke
  <2>3. (memo' = memo /\ missed' = missed) \/ own = [q \in Process |-> {}]
    BY <1>0, <1>3, InvokedCall DEF Inv, LockInv, TypeInv, TypeOK
  <2>4. CASE memo' = memo /\ missed' = missed
    BY <2>1, <2>2, <2>4 DEF LatestInv, SoleOwner
  <2>5. CASE own = [q \in Process |-> {}]
    BY <1>0, <2>1, <2>2, <2>5 DEF LatestInv, SoleOwner, TypeInv, CallInv
  <2> QED
    BY <2>3, <2>4, <2>5
<1>4. ASSUME NEW c \in Call, Read(c) PROVE LatestInv'
  <2> DEFINE p == call[c].by
  <2>1. /\ own' = own /\ disk' = disk /\ memo' = memo /\ timer' = timer
        /\ latest' = latest /\ disturbed' = disturbed /\ p \in Process /\ Free(p)
        /\ \A q \in Process : q # p => missed'[q] = missed[q]
        /\ timer[p] => missed'[p] = missed[p]
    BY <1>0, <1>4, ReadCall DEF Read, store, TypeInv, TypeOK
  <2>2. ~Free(p)' /\ \A q \in Process : Free(q)' => Free(q)
    BY <1>0, <1>4, ReadCall DEF Free
  <2>3. \A d \in Call : d # c /\ call'[d].stage = "writing" =>
          call'[d] = call[d] /\ call[d].by \in Process /\ call[d].by # p
    BY <1>0, <1>4, <2>1, ReadCall DEF Free, TypeInv, CallInv
  <2>4. call'[c].by = p /\ call'[c].base = Base(p)
    BY <1>0, <1>4, ReadCall
  <2>5. \A k \in Key : timer[p] => Base(p) = memo[p]
    BY <1>0, <2>1, AbsentIsNoContent DEF TypeInv, TimerInv, Base
  <2> SUFFICES ASSUME ~disturbed PROVE LatestInv'
    BY <2>1 DEF LatestInv
  <2>6. ASSUME NEW q \in Process, NEW k \in Key, SoleOwner(q, k)', k \notin missed'[q], Free(q)'
        PROVE  memo'[q][k] = latest'[k]
    <3>1. q # p
      BY <1>0, <1>4, <2>6, ReadCall DEF Free
    <3> QED
      BY <2>1, <2>2, <2>6, <3>1 DEF LatestInv, SoleOwner
  <2>7. ASSUME NEW d \in Call, NEW k \in Key, call'[d].stage = "writing",
               SoleOwner(call[d].by, k)', k \notin missed'[call'[d].by]
        PROVE  call'[d].base[k] = latest'[k]
    <3>1. CASE d = c
      <4>1. k \in own[p] /\ timer[p]
        BY <2>1, <2>4, <2>7, <3>1 DEF LatestInv, SoleOwner
      <4> QED
        BY <2>1, <2>4, <2>5, <2>7, <3>1, <4>1 DEF LatestInv, SoleOwner
    <3>2. CASE d # c
      BY <2>1, <2>3, <2>7, <3>2 DEF LatestInv, SoleOwner
    <3> QED
      BY <3>1, <3>2
  <2> QED
    BY <2>1, <2>6, <2>7 DEF LatestInv, SoleOwner
<1>5. ASSUME NEW c \in Call, TimeOut(c) PROVE LatestInv'
  <2>1. /\ own' = own /\ disk' = disk /\ memo' = memo /\ missed' = missed /\ timer' = timer
        /\ latest' = latest /\ disturbed' = disturbed
        /\ \A d \in Call : call'[d].stage = "writing" => call'[d] = call[d]
        /\ \A d \in Call : call[d].stage = "writing" => call'[d] = call[d]
    BY <1>0, <1>5, OtherCall DEF TimeOut, store, ghost, TypeInv, TypeOK
  <2>2. \A q \in Process : Free(q)' => Free(q)
    BY <2>1 DEF Free
  <2> QED
    BY <2>1, <2>2 DEF LatestInv, SoleOwner
<1>6. ASSUME NEW c \in Call, Save(c) PROVE LatestInv'
  <2> DEFINE p == call[c].by
             updated == Updated(call[c].base, c)
  <2>1. /\ call[c].stage = "writing" /\ p \in Process
        /\ call[c].base \in Content /\ call[c].value \in Value
        /\ latest \in Content /\ disk \in Content
    BY <1>0, <1>6, SaveCall DEF Save, TypeInv, TypeOK, CallInv
  <2>2. \A d \in Call : call'[d].stage = "writing" =>
          d # c /\ call'[d] = call[d] /\ call[d].by \in Process /\ call[d].by # p
    BY <1>0, <1>6, <2>1, SaveCall DEF Inv, LockInv, TypeInv, CallInv
  <2>3. \A q \in Process : q # p /\ Free(q)' => Free(q)
    BY <1>0, <1>6, SaveCall DEF Free
  <2>4. latest' = Updated(latest, c) /\ Updated(latest, c) \in Content
    BY <1>0, <1>6, <2>1, UpdatedIsContent DEF Save, TypeInv
  <2> SUFFICES ASSUME ~disturbed' PROVE LatestInv'
    BY DEF LatestInv
  <2>5. CASE Debounced
    <3>1. /\ disk' = disk /\ missed' = missed /\ ~disturbed
          /\ own'[p] = own[p] \cup Touched(c) /\ memo'[p] = updated /\ timer'[p]
          /\ \A q \in Process : q # p =>
               own'[q] = own[q] /\ memo'[q] = memo[q] /\ timer'[q] = timer[q]
      BY <1>0, <1>6, <2>1, <2>5 DEF Save, TypeInv, TypeOK, InLock, Debounced
    <3>2. \A k \in Key : k \notin Touched(c) => latest'[k] = latest[k]
      BY <1>0, <2>1, <2>4, StageValues DEF TypeInv, Updated, Touched, Content, Invocation
    <3>3. ASSUME NEW q \in Process, NEW k \in Key, SoleOwner(q, k)', k \notin missed'[q], Free(q)'
          PROVE  memo'[q][k] = latest'[k]
      <4>1. CASE q = p
        <5>1. k \in Touched(c) \/ (k \notin Touched(c) /\ SoleOwner(p, k))
          BY <3>1, <3>3, <4>1 DEF SoleOwner
        <5>2. k \in Touched(c) \/ call[c].base[k] = latest[k]
          BY <2>1, <3>1, <3>3, <4>1, <5>1 DEF LatestInv
        <5> QED
          BY <1>0, <2>1, <2>4, <3>1, <4>1, <5>2, UpdatedAlike
      <4>2. CASE q # p
        <5>1. SoleOwner(q, k) /\ k \notin Touched(c)
          BY <2>1, <3>1, <3>3, <4>2 DEF SoleOwner
        <5> QED
          BY <2>3, <3>1, <3>2, <3>3, <4>2, <5>1 DEF LatestInv
      <4> QED
        BY <4>1, <4>2
    <3>4. ASSUME NEW d \in Call, NEW k \in Key, call'[d].stage = "writing",
                 SoleOwner(call[d].by, k)', k \notin missed'[call'[d].by]
          PROVE  call'[d].base[k] = latest'[k]
      <4>1. SoleOwner(call[d].by, k) /\ k \notin Touched(c) /\ k \notin missed[call[d].by]
        BY <2>1, <2>2, <3>1, <3>4 DEF SoleOwner
      <4> QED
        BY <2>2, <3>1, <3>2, <3>4, <4>1 DEF LatestInv
    <3>5. ASSUME NEW k \in Key, disk'[k] # latest'[k] PROVE \E q \in Process : k \in own'[q]
      <4>1. CASE k \in Touched(c)
        BY <2>1, <3>1, <4>1
      <4>2. CASE k \notin Touched(c)
        BY <3>1, <3>2, <3>5, <4>2 DEF LatestInv
      <4> QED
        BY <4>1, <4>2
    <3>6. \A q \in Process : own'[q] # {} => timer'[q]
      BY <3>1 DEF LatestInv
    <3> QED
      BY <3>3, <3>4, <3>5, <3>6 DEF LatestInv, SoleOwner
  <2>6. CASE ~Debounced
    <3>1. Written(p, updated, Touched(c)) /\ ~disturbed /\ missed[p] = {}
      BY <1>6, <2>6 DEF Save, NotWritten
    <3>2. disk' = updated /\ \A q \in Process : own'[q] = {}
      BY <1>0, <2>6, <3>1 DEF Written, Inv, LockInv, TypeInv, TypeOK
    <3>3. \A k \in Key : call[c].base[k] = disk[k]
      BY <2>1, <2>6, <3>1 DEF Inv, LockInv, BaseInv
    <3>4. \A k \in Key : disk[k] = latest[k]
      BY <2>6, <3>1 DEF Inv, LockInv, LatestInv
    <3>5. \A k \in Key : disk'[k] = latest'[k]
      BY <1>0, <2>1, <2>4, <3>2, <3>3, <3>4, UpdatedAlike
    <3> QED
      BY <2>2, <3>2, <3>5 DEF LatestInv, SoleOwner
  <2> QED
    BY <2>5, <2>6
<1>7. ASSUME NEW p \in Process, TimerFires(p) PROVE LatestInv'
  BY <1>0, <1>7, LatestMemo DEF TimerFires, TypeInv, TimerInv
<1>8. ASSUME NEW c \in Call, Flush(c) PROVE LatestInv'
  <2>1. \A d \in Call : call[d].stage = "writing" => call'[d] = call[d]
    BY <1>0, <1>8 DEF Flush, TypeInv, TypeOK
  <2> QED
    BY <1>0, <1>8, <2>1, LatestMemo, OtherCall DEF Flush, TypeInv, CallInv
<1>9. ASSUME NEW p \in Process, Exit(p) PROVE LatestInv'
  <2> SUFFICES ASSUME ~disturbed' PROVE LatestInv'
    BY DEF LatestInv
  <2>1. /\ disk' = disk /\ latest' = latest /\ own' = own /\ own[p] = {} /\ ~disturbed
        /\ \A q \in Process : q # p =>
             memo'[q] = memo[q] /\ timer'[q] = timer[q] /\ missed'[q] = missed[q]
    BY <1>0, <1>9 DEF Exit, TypeInv, TypeOK
  <2>2. \A d \in Call : call'[d].stage = "writing" =>
          call'[d] = call[d] /\ call[d].by \in Process /\ call[d].by # p
    BY <1>0, <1>9, EndedIsInvocation DEF Exit, TypeInv, CallInv
  <2>3. \A q \in Process : q # p /\ Free(q)' => Free(q)
    BY <1>9 DEF Exit, Free
  <2> QED
    BY <2>1, <2>2, <2>3 DEF LatestInv, SoleOwner
<1> QED
  BY <1>1, <1>2, <1>3, <1>4, <1>5, <1>6, <1>7, <1>8, <1>9 DEF Next

(* When all calls are through and no write is pending, the file holds the     *)
(* latest update of every key, unless an update was dropped or came within    *)
(* another process's window: for any processes, calls and keys.               *)
THEOREM Durability == Spec => []DurableAtRest
<1>1. Inv /\ LatestInv => DurableAtRest
  <2> SUFFICES ASSUME Inv, LatestInv, ~disturbed, \A p \in Process : ~timer[p]
               PROVE  disk = latest
    BY DEF DurableAtRest
  <2>1. \A k \in Key : disk[k] = latest[k]
    BY DEF LatestInv
  <2> QED
    BY <2>1, SameContent DEF Inv, TypeInv, TypeOK
<1>2. Inv /\ Inv' /\ LatestInv /\ [Next]_vars => LatestInv'
  BY LatestStep
<1> QED
  BY <1>1, <1>2, LatestInit, InvHolds, PTL DEF Spec

----------------------------------------------------------------------------
(* The memoised config. *)
LEMMA MemoTypeStep == Memo!TypeOK /\ [Memo!Next]_(Memo!vars) => Memo!TypeOK'
<1> SUFFICES ASSUME Memo!TypeOK, [Memo!Next]_(Memo!vars) PROVE Memo!TypeOK'
  OBVIOUS
<1>1. CASE Memo!Change
  BY <1>1 DEF Memo!Change, Memo!TypeOK
<1>2. CASE Memo!Stat
  <2>1. CASE Memo!Hit
    <3>1. cached.version \in Nat
      BY <2>1 DEF Memo!Hit, Memo!TypeOK
    <3> QED BY <1>2, <2>1, <3>1 DEF Memo!Stat, Memo!TypeOK
  <2>2. CASE ~Memo!Hit
    <3>1. load' \in [on : BOOLEAN, mtime : Nat \cup {-1}, floor : Nat]
      <4>1. load' = [on |-> TRUE, mtime |-> IF file.there THEN file.mtime ELSE -1,
                     floor |-> file.version]
        BY <1>2, <2>2 DEF Memo!Stat
      <4>2. file.mtime \in Nat /\ file.version \in Nat
        BY DEF Memo!TypeOK
      <4> QED BY <4>1, <4>2
    <3>2. cached' = cached \/ cached' = [cached EXCEPT !.version = -1]
      BY <1>2, <2>2 DEF Memo!Stat
    <3>3. cached' \in [version : Nat \cup {-1}, mtime : Nat \cup {-1}]
      BY <3>2 DEF Memo!TypeOK
    <3> QED BY <1>2, <2>2, <3>1, <3>3 DEF Memo!Stat, Memo!TypeOK
  <2> QED BY <2>1, <2>2
<1>3. CASE Memo!Read
  BY <1>3 DEF Memo!Read, Memo!KeptMtime, Memo!TypeOK, Memo!NoMemo, Memo!NoLoad
<1>4. CASE UNCHANGED Memo!vars
  BY <1>4 DEF Memo!vars, Memo!TypeOK
<1> QED BY <1>1, <1>2, <1>3, <1>4 DEF Memo!Next

(* The types of the file, the memo and the load, with coarse mtimes as well.  *)
THEOREM MemoTyping == Memo!Spec => []Memo!TypeOK
<1>1. Memo!Init => Memo!TypeOK
  BY DEF Memo!Init, Memo!TypeOK, Memo!NoMemo, Memo!NoLoad
<1> QED
  BY <1>1, MemoTypeStep, PTL DEF Memo!Spec

(* Where every write has an mtime of its own, mtimes tell versions apart: a   *)
(* memo whose mtime is the file's was read from the file as it is.            *)
(* LoadIsFresh alone says nothing of the memo that the next load will hit.    *)
MemoInv ==
  /\ Memo!TypeOK /\ Memo!LoadIsFresh
  /\ file.mtime <= now
  /\ cached.mtime <= file.mtime
  /\ cached.version >= 0 /\ cached.mtime = file.mtime => cached.version = file.version
  /\ load.mtime <= file.mtime /\ load.floor <= file.version

LEMMA InitMemo == Memo!Init => MemoInv
  BY DEF Memo!Init, MemoInv, Memo!TypeOK, Memo!LoadIsFresh, Memo!NoMemo, Memo!NoLoad

(* a write leaves every mtime behind *)
LEMMA ChangeKeeps ==
  ASSUME FineClock, MemoInv, Memo!TypeOK', Memo!Change PROVE MemoInv'
<1>1. now' = now + 1 /\ file'.mtime = now + 1 /\ file'.version = file.version + 1
  BY DEF Memo!Change
<1>2. UNCHANGED <<cached, load, got>>
  BY DEF Memo!Change
<1> QED BY <1>1, <1>2 DEF MemoInv, Memo!TypeOK, Memo!LoadIsFresh

LEMMA StatKeeps ==
  ASSUME MemoInv, Memo!TypeOK', Memo!Stat PROVE MemoInv'
<1>1. CASE Memo!Hit
  <2>1. got' = [version |-> cached.version, floor |-> file.version]
    BY <1>1 DEF Memo!Stat
  <2>2. cached.version = file.version
    BY <1>1 DEF Memo!Hit, MemoInv
  <2>3. UNCHANGED <<file, now, cached, load>>
    BY <1>1 DEF Memo!Stat
  <2> QED BY <2>1, <2>2, <2>3 DEF MemoInv, Memo!TypeOK, Memo!LoadIsFresh
<1>2. CASE ~Memo!Hit
  <2>1. UNCHANGED <<file, now, got>>
    BY <1>2 DEF Memo!Stat
  <2>2. load'.mtime <= file.mtime /\ load'.floor = file.version
    BY <1>2 DEF Memo!Stat, MemoInv, Memo!TypeOK
  <2>3. cached' = cached \/ (cached'.version = -1 /\ cached'.mtime = cached.mtime)
    BY <1>2 DEF Memo!Stat, MemoInv, Memo!TypeOK
  <2> QED BY <2>1, <2>2, <2>3 DEF MemoInv, Memo!TypeOK, Memo!LoadIsFresh
<1> QED BY <1>1, <1>2

LEMMA ReadKeeps ==
  ASSUME MemoInv, Memo!TypeOK', Memo!Read PROVE MemoInv'
<1>1. UNCHANGED <<file, now>> /\ load' = Memo!NoLoad
  BY DEF Memo!Read
<1>2. got' = [version |-> file.version, floor |-> load.floor]
  BY DEF Memo!Read
<1>3. cached' = Memo!NoMemo \/ cached' = [version |-> file.version, mtime |-> load.mtime]
  BY DEF Memo!Read, Memo!KeptMtime
<1> QED BY <1>1, <1>2, <1>3 DEF MemoInv, Memo!TypeOK, Memo!LoadIsFresh, Memo!NoMemo, Memo!NoLoad

(* A load of the config returns the file as it was when the load began, or    *)
(* newer, for any number of writers, if no two writes share an mtime          *)
(* (loadConfigFile); whatever happens to the JSON stores.                     *)
THEOREM LoadsAreFresh ==
  ASSUME FineClock PROVE MCSpec => []LoadIsFresh
<1>1. MCInit => Memo!TypeOK /\ MemoInv
  BY InitMemo DEF MCInit, MemoInv
<1>2. [MCNext]_allVars => [Memo!Next]_(Memo!vars)
  BY DEF MCNext, allVars, memoVars, Memo!vars
<1>3. MemoInv /\ [Memo!Next]_(Memo!vars) => MemoInv'
  <2> SUFFICES ASSUME MemoInv, [Memo!Next]_(Memo!vars) PROVE MemoInv'
    OBVIOUS
  <2>0. Memo!TypeOK'
    BY MemoTypeStep DEF MemoInv
  <2>1. CASE Memo!Change
    BY <2>0, <2>1, ChangeKeeps
  <2>2. CASE Memo!Stat
    BY <2>0, <2>2, StatKeeps
  <2>3. CASE Memo!Read
    BY <2>0, <2>3, ReadKeeps
  <2>4. CASE UNCHANGED Memo!vars
    BY <2>4 DEF Memo!vars, MemoInv, Memo!TypeOK, Memo!LoadIsFresh
  <2> QED
    BY <2>1, <2>2, <2>3, <2>4 DEF Memo!Next
<1>4. MemoInv => LoadIsFresh
  BY DEF MemoInv, LoadIsFresh
<1> QED
  BY <1>1, <1>2, <1>3, <1>4, PTL DEF MCSpec
============================================================================
