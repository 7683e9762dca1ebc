-------------------------- MODULE BlacklistProofs --------------------------
(* Proofs about the blacklist: the methods as functions, then the class.      *)
EXTENDS MCBlacklist, SequenceTheorems, FiniteSetTheorems, WellFoundedInduction,
        NaturalsInduction, TLAPS

(* recordFailure returns a record whose streak lies in one window ending now, *)
(* and which bans the key at once.                                            *)
LEMMA StruckRecord ==
  ASSUME NEW e \in Entry, NEW t \in Nat
  PROVE  /\ Struck(e, t) \in Entry
         /\ Present(Struck(e, t))
         /\ t - Struck(e, t).windowStart <= TTL
         /\ Struck(e, t).lastFailureAt = t
         /\ IsBanned(Struck(e, t), t)
<1>1. CASE Present(e) /\ t - e.windowStart <= TTL
  <2>1. Struck(e, t) = [count |-> e.count + 1, windowStart |-> e.windowStart,
                        lastFailureAt |-> t]
    BY <1>1 DEF Struck, Entry
  <2> QED BY <1>1, <2>1, BlacklistAssumption DEF Entry, Present, IsBanned
<1>2. CASE ~(Present(e) /\ t - e.windowStart <= TTL)
  <2>1. Struck(e, t) = [count |-> 1, windowStart |-> t, lastFailureAt |-> t]
    BY <1>2 DEF Struck
  <2> QED BY <2>1, BlacklistAssumption DEF Entry, Present, IsBanned
<1> QED BY <1>1, <1>2

(* Time never bans a model. *)
LEMMA UnbannedStaysUnbanned ==
  ASSUME NEW e \in Entry, NEW t \in Nat, NEW u \in Nat, t <= u, ~IsBanned(e, t)
  PROVE  ~IsBanned(e, u)
BY BlacklistAssumption DEF Entry, IsBanned, HardBan, Present

----------------------------------------------------------------------------

(* The map and the clock keep their types. *)
THEOREM Typing == Spec => []TypeOK
<1>1. Init => TypeOK
  BY DEF Init, TypeOK, Empty, NoEntry, Entry
<1>2. TypeOK /\ [Next]_vars => TypeOK'
  <2> SUFFICES ASSUME TypeOK, [Next]_vars PROVE TypeOK'
    OBVIOUS
  <2>1. ASSUME NEW k \in Key, RecordFailure(k) PROVE TypeOK'
    BY <2>1, StruckRecord DEF RecordFailure, TypeOK
  <2>2. ASSUME NEW k \in Key, Clear(k) PROVE TypeOK'
    BY <2>2 DEF Clear, Cleared, TypeOK, NoEntry, Entry
  <2>3. CASE ClearAll
    BY <2>3 DEF ClearAll, Empty, TypeOK, NoEntry, Entry
  <2>4. CASE Tick
    BY <2>4 DEF Tick, TypeOK
  <2>5. CASE UNCHANGED vars
    BY <2>5 DEF vars, TypeOK
  <2> QED BY <2>1, <2>2, <2>3, <2>4, <2>5 DEF Next
<1> QED BY <1>1, <1>2, PTL DEF Spec

(* Every streak lies in one TTL window, so a hard ban means MaxStrikes        *)
(* failures within TTL, never failures spread over the session.               *)
THEOREM StreaksFitTheirWindow == Spec => []WindowHoldsStreak
<1>1. Init => WindowHoldsStreak
  BY DEF Init, WindowHoldsStreak, Empty, NoEntry, Present
<1>2. TypeOK /\ WindowHoldsStreak /\ [Next]_vars => WindowHoldsStreak'
  <2> SUFFICES ASSUME TypeOK, WindowHoldsStreak, [Next]_vars,
                      NEW j \in Key, Present(entries'[j])
               PROVE  /\ entries'[j].windowStart <= entries'[j].lastFailureAt
                      /\ entries'[j].lastFailureAt <= entries'[j].windowStart + TTL
                      /\ entries'[j].lastFailureAt <= now'
    BY DEF WindowHoldsStreak
  <2>1. ASSUME NEW k \in Key, RecordFailure(k)
        PROVE  /\ entries'[j].windowStart <= entries'[j].lastFailureAt
               /\ entries'[j].lastFailureAt <= entries'[j].windowStart + TTL
               /\ entries'[j].lastFailureAt <= now'
    <3>1. CASE j = k
      BY <2>1, <3>1, BlacklistAssumption
         DEF RecordFailure, TypeOK, Struck, Entry, Present, WindowHoldsStreak
    <3>2. CASE j # k
      BY <2>1, <3>2 DEF RecordFailure, TypeOK, WindowHoldsStreak
    <3> QED BY <3>1, <3>2
  <2>2. ASSUME NEW k \in Key, Clear(k)
        PROVE  j # k /\ entries'[j] = entries[j] /\ now' = now
    BY <2>2 DEF Clear, Cleared, TypeOK, NoEntry, Present
  <2>3. CASE ClearAll
    BY <2>3 DEF ClearAll, Empty, NoEntry, Present
  <2>4. CASE Tick
    BY <2>4 DEF Tick, TypeOK, Entry, WindowHoldsStreak
  <2>5. CASE UNCHANGED vars
    BY <2>5 DEF vars, WindowHoldsStreak
  <2> QED BY <2>1, <2>2, <2>3, <2>4, <2>5 DEF Next, WindowHoldsStreak
<1> QED BY <1>1, <1>2, Typing, PTL DEF Spec

(* Recording a failure bans the model at once, whatever its record was. *)
THEOREM FailuresBan == Spec => FailureBans
<1>1. TypeOK /\ [Next]_vars
        => [\A k \in Key : RecordFailure(k) => IsBanned(entries[k], now)']_vars
  BY StruckRecord DEF TypeOK, RecordFailure
<1> QED BY <1>1, Typing, PTL DEF Spec, FailureBans

(* A hard ban is lifted by a clear only. *)
THEOREM HardBansOutlastTheWindow == Spec => HardBanOutlastsWindow
<1>1. TypeOK /\ [Next]_vars
        => [\A k \in Key : HardBan(entries[k]) /\ ~IsBanned(entries[k], now)'
              => Clear(k) \/ ClearAll]_vars
  <2> SUFFICES ASSUME TypeOK, [Next]_vars, NEW k \in Key,
                      HardBan(entries[k]), ~IsBanned(entries'[k], now')
               PROVE  Clear(k) \/ ClearAll
    OBVIOUS
  <2>1. ASSUME entries'[k] = entries[k] PROVE FALSE
    BY <2>1, BlacklistAssumption DEF TypeOK, Entry, HardBan, IsBanned, Present
  <2>2. ASSUME NEW j \in Key, RecordFailure(j) PROVE FALSE
    <3>1. CASE j = k
      BY <2>2, <3>1, StruckRecord DEF RecordFailure, TypeOK
    <3>2. CASE j # k
      BY <2>1, <2>2, <3>2 DEF RecordFailure, TypeOK
    <3> QED BY <3>1, <3>2
  <2>3. ASSUME NEW j \in Key, Clear(j) PROVE Clear(k)
    BY <2>1, <2>3 DEF Clear, Cleared, TypeOK
  <2>4. CASE Tick
    BY <2>1, <2>4 DEF Tick
  <2>5. CASE UNCHANGED vars
    BY <2>1, <2>5 DEF vars
  <2> QED BY <2>2, <2>3, <2>4, <2>5 DEF Next
<1> QED BY <1>1, Typing, PTL DEF Spec, HardBanOutlastsWindow

----------------------------------------------------------------------------
(* Sums.  Nothing here can be proved about a rule that a lemma takes as a      *)
(* parameter, so that induction is about the sets for which something holds:  *)
(* without an element least it has all numbers.                               *)
LEMMA NatMin ==
  ASSUME NEW T, T \subseteq Nat, T # {}
  PROVE  \E x \in T : \A y \in T : x <= y
<1> DEFINE R == OpToRel(<, Nat)
<1>1. IsWellFoundedOn(R, Nat)
  BY NatLessThanWellFounded
<1>2. \A x, y \in Nat : x < y => <<x, y>> \in R
  BY DEF OpToRel
<1> HIDE DEF R
<1>3. PICK x \in T : \A y \in T : <<y, x>> \notin R
  BY <1>1, WFMin
<1>4. \A y \in T : x <= y
  <2> TAKE y \in T
  <2>1. x \in Nat /\ y \in Nat
    OBVIOUS
  <2>2. ~(y < x)
    BY <1>2, <1>3, <2>1
  <2> QED BY <2>1, <2>2
<1> QED BY <1>4

LEMMA Induction ==
  ASSUME NEW T, 0 \in T, \A n \in Nat : n \in T => n + 1 \in T
  PROVE  Nat \subseteq T
<1>1. SUFFICES ASSUME Nat \ T # {} PROVE FALSE
  OBVIOUS
<1>2. PICK x \in Nat \ T : \A y \in Nat \ T : x <= y
  BY <1>1, NatMin
<1>3. x - 1 \in Nat /\ ~(x <= x - 1) /\ x = (x - 1) + 1
  BY <1>2
<1>4. x - 1 \in T
  BY <1>2, <1>3
<1> QED BY <1>2, <1>3, <1>4

(* g sums f over every part of S, taking the elements as a fold takes them. *)
First(s) == CHOOSE x \in s : TRUE
Sums(g, f, S) ==
  \A s \in SUBSET S : g[s] = IF s = {} THEN 0 ELSE f[First(s)] + g[s \ {First(s)}]

AnyFirst(g, f, S) == \A s \in SUBSET S : \A x \in s : g[s] = f[x] + g[s \ {x}]
NatOn(f, S) == \A x \in S : f[x] \in Nat

(* A part without its first element has one element less.                   *)
LEMMA WithoutFirst ==
  ASSUME NEW s, IsFiniteSet(s), s # {}
  PROVE  /\ First(s) \in s /\ IsFiniteSet(s \ {First(s)})
         /\ Cardinality(s) \in Nat /\ Cardinality(s \ {First(s)}) = Cardinality(s) - 1
<1>1. First(s) \in s
  BY DEF First
<1> QED BY <1>1, FS_RemoveElement, FS_CardinalityType

LEMMA SumsExist ==
  ASSUME NEW S, IsFiniteSet(S), NEW f, NatOn(f, S)
  PROVE  \E g \in [SUBSET S -> Nat] : Sums(g, f, S)
<1> DEFINE Small(n) == {s \in SUBSET S : Cardinality(s) <= n}
           Up(g, n) == /\ g \in [Small(n) -> Nat]
                       /\ \A s \in Small(n) : g[s] = IF s = {} THEN 0 ELSE f[First(s)] + g[s \ {First(s)}]
           T == {n \in Nat : \E g : Up(g, n)}
<1>1. \A s \in SUBSET S : IsFiniteSet(s) /\ Cardinality(s) \in Nat
  BY FS_Subset, FS_CardinalityType
<1>2. \A s \in SUBSET S : s # {} =>
        First(s) \in S /\ s \ {First(s)} \in SUBSET S /\ Cardinality(s \ {First(s)}) = Cardinality(s) - 1
  BY <1>1, WithoutFirst
<1>3. 0 \in T
  <2> DEFINE g == [s \in Small(0) |-> 0]
  <2>1. \A s \in Small(0) : s = {}
    BY <1>1, FS_EmptySet
  <2>2. Up(g, 0)
    BY <2>1
  <2> QED BY <2>2
<1>4. ASSUME NEW n \in Nat, n \in T PROVE n + 1 \in T
  <2>1. PICK g : Up(g, n)
    BY <1>4
  <2> DEFINE h == [s \in Small(n + 1) |-> IF s = {} THEN 0 ELSE f[First(s)] + g[s \ {First(s)}]]
  <2>2. \A s \in Small(n + 1) : s # {} => s \ {First(s)} \in Small(n)
    BY <1>1, <1>2
  <2>3. \A s \in Small(n) : h[s] = g[s]
    <3>1. \A s \in Small(n) : s \in Small(n + 1)
      BY <1>1
    <3> QED BY <2>1, <3>1
  <2>4. h \in [Small(n + 1) -> Nat]
    <3> SUFFICES ASSUME NEW s \in Small(n + 1), s # {} PROVE f[First(s)] + g[s \ {First(s)}] \in Nat
      OBVIOUS
    <3>1. f[First(s)] \in Nat
      BY <1>2 DEF NatOn
    <3>2. g[s \ {First(s)}] \in Nat
      BY <2>1, <2>2
    <3> QED BY <3>1, <3>2
  <2>5. Up(h, n + 1)
    BY <2>2, <2>3, <2>4
  <2> HIDE DEF Up
  <2> QED BY <2>5
<1> HIDE DEF T
<1>5. Cardinality(S) \in T
  BY <1>1, <1>3, <1>4, Induction
<1>6. PICK g : Up(g, Cardinality(S))
  BY <1>5 DEF T
<1>7. Small(Cardinality(S)) = SUBSET S
  BY FS_Subset, <1>1
<1> HIDE DEF Small
<1>8. g \in [SUBSET S -> Nat] /\ Sums(g, f, S)
  BY <1>6, <1>7 DEF Sums
<1> QED BY <1>8

(* What lies outside a part does not matter to its sum.                     *)
LEMMA SumsAgree ==
  ASSUME NEW A, NEW B, NEW f, NEW g, NEW k, NEW h, Sums(g, f, A), Sums(h, k, B),
         NEW P, IsFiniteSet(P), P \subseteq A, P \subseteq B, \A x \in P : f[x] = k[x]
  PROVE  g[P] = h[P]
<1> DEFINE T == {n \in Nat : \A s \in SUBSET P : Cardinality(s) = n => g[s] = h[s]}
<1>1. \A s \in SUBSET P : s \in SUBSET A /\ s \in SUBSET B /\ IsFiniteSet(s) /\ Cardinality(s) \in Nat
  BY FS_Subset, FS_CardinalityType
<1>2. 0 \in T
  BY <1>1, FS_EmptySet DEF Sums
<1>3. ASSUME NEW n \in Nat, n \in T PROVE n + 1 \in T
  <2> SUFFICES ASSUME NEW s \in SUBSET P, Cardinality(s) = n + 1 PROVE g[s] = h[s]
    OBVIOUS
  <2>1. s # {}
    BY FS_EmptySet
  <2>2. First(s) \in P /\ s \ {First(s)} \in SUBSET P /\ Cardinality(s \ {First(s)}) = n
    BY <1>1, <2>1, WithoutFirst
  <2>3. g[s \ {First(s)}] = h[s \ {First(s)}]
    BY <1>3, <2>2
  <2> QED BY <1>1, <2>1, <2>2, <2>3 DEF Sums
<1> HIDE DEF T
<1>4. Cardinality(P) \in T
  BY <1>1, <1>2, <1>3, Induction
<1> QED BY <1>1, <1>4 DEF T

(* Any element may be taken first.                                          *)
LEMMA SumsExchange ==
  ASSUME NEW S, IsFiniteSet(S), NEW f, NatOn(f, S), NEW g \in [SUBSET S -> Nat],
         Sums(g, f, S)
  PROVE  AnyFirst(g, f, S)
<1> DEFINE Good(s) == \A x \in s : g[s] = f[x] + g[s \ {x}]
           T == {n \in Nat : \A s \in SUBSET S : Cardinality(s) = n => Good(s)}
<1>1. \A s \in SUBSET S : IsFiniteSet(s) /\ Cardinality(s) \in Nat /\ g[s] \in Nat
  BY FS_Subset, FS_CardinalityType
<1>2. 0 \in T
  BY <1>1, FS_EmptySet
<1>3. ASSUME NEW n \in Nat, n \in T PROVE n + 1 \in T
  <2> SUFFICES ASSUME NEW s \in SUBSET S, Cardinality(s) = n + 1, NEW x \in s
               PROVE  g[s] = f[x] + g[s \ {x}]
    OBVIOUS
  <2> DEFINE y == First(s)
             rest == (s \ {x}) \ {y}
  <2>1. y \in s /\ g[s] = f[y] + g[s \ {y}]
    BY <1>1, WithoutFirst DEF Sums
  <2>2. CASE x = y
    BY <2>1, <2>2
  <2>3. CASE x # y
    <3> HIDE DEF y
    <3>1. /\ s \ {x} \in SUBSET S /\ s \ {y} \in SUBSET S
          /\ Cardinality(s \ {x}) = n /\ Cardinality(s \ {y}) = n
      <4>1. \A z \in s : Cardinality(s \ {z}) = Cardinality(s) - 1
        BY <1>1, FS_RemoveElement
      <4>2. Cardinality(s) - 1 = n
        OBVIOUS
      <4> QED BY <2>1, <4>1, <4>2
    <3>2. y \in s \ {x} /\ x \in s \ {y} /\ rest = (s \ {y}) \ {x}
      BY <2>1, <2>3
    <3>3. g[s \ {x}] = f[y] + g[rest]
      BY <1>3, <3>1, <3>2
    <3>4. g[s \ {y}] = f[x] + g[rest]
      BY <1>3, <3>1, <3>2
    <3>5. f[x] \in Nat /\ f[y] \in Nat /\ g[rest] \in Nat
      BY <1>1, <2>1 DEF NatOn
    <3> HIDE DEF rest
    <3> QED BY <2>1, <3>3, <3>4, <3>5
  <2> QED BY <2>2, <2>3
<1> HIDE DEF T
<1>4. \A s \in SUBSET S : Cardinality(s) \in T
  BY <1>1, <1>2, <1>3, Induction
<1> QED BY <1>4 DEF T, AnyFirst

(* The sum of a function with a finite domain S: one element more, one      *)
(* point changed, nothing to add.                                           *)
Total(f, S) ==
  LET iter[s \in SUBSET S] == IF s = {} THEN 0
                              ELSE LET x == CHOOSE x \in s : TRUE IN f[x] + iter[s \ {x}]
  IN iter[S]

LEMMA TotalIs ==
  ASSUME NEW S, IsFiniteSet(S), NEW f, NatOn(f, S)
  PROVE  \E g \in [SUBSET S -> Nat] : Sums(g, f, S) /\ AnyFirst(g, f, S) /\ Total(f, S) = g[S]
<1> DEFINE Def(g) == g = [s \in SUBSET S |->
                            IF s = {} THEN 0 ELSE LET x == CHOOSE x \in s : TRUE IN f[x] + g[s \ {x}]]
           iter == CHOOSE g : Def(g)
<1>1. Total(f, S) = iter[S]
  BY DEF Total
<1>2. PICK g \in [SUBSET S -> Nat] : Sums(g, f, S)
  BY SumsExist
<1>3. AnyFirst(g, f, S)
  BY <1>2, SumsExchange
<1>4. Def(g)
  <2>1. \A s \in SUBSET S : g[s] = IF s = {} THEN 0 ELSE LET x == CHOOSE x \in s : TRUE IN f[x] + g[s \ {x}]
    BY <1>2 DEF Sums, First
  <2> QED BY <1>2, <2>1
<1>5. Def(iter)
  BY <1>4
<1> HIDE DEF iter
<1>6. Sums(iter, f, S)
  BY <1>5 DEF Sums, First
<1>7. iter[S] = g[S]
  BY <1>2, <1>6, SumsAgree
<1> QED BY <1>1, <1>2, <1>3, <1>7

LEMMA TotalGrows ==
  ASSUME NEW S, IsFiniteSet(S), NEW x \in S, NEW f, NEW k, NEW P \in SUBSET S,
         \A y \in S : y \in P <=> y # x, NatOn(f, S), \A y \in P : k[y] = f[y]
  PROVE  Total(f, S) = f[x] + Total(k, P) /\ Total(k, P) \in Nat
<1>1. PICK g \in [SUBSET S -> Nat] : Sums(g, f, S) /\ AnyFirst(g, f, S) /\ Total(f, S) = g[S]
  BY TotalIs
<1>2. g[S] = f[x] + g[P]
  <2>1. P = S \ {x}
    OBVIOUS
  <2> QED BY <1>1, <2>1 DEF AnyFirst
<1>3. IsFiniteSet(P) /\ P \subseteq S /\ NatOn(k, P)
  BY FS_Subset DEF NatOn
<1>4. PICK h \in [SUBSET P -> Nat] : Sums(h, k, P) /\ Total(k, P) = h[P]
  BY <1>3, TotalIs
<1>5. g[P] = h[P]
  BY <1>1, <1>3, <1>4, SumsAgree
<1> QED BY <1>1, <1>2, <1>4, <1>5

LEMMA TotalChanges ==
  ASSUME NEW S, IsFiniteSet(S), NEW x \in S, NEW f, NEW k, NEW n \in Nat, NatOn(f, S),
         k[x] = f[x] + n, \A y \in S \ {x} : k[y] = f[y]
  PROVE  Total(k, S) = Total(f, S) + n
<1> DEFINE P == S \ {x}
<1>1. NatOn(k, S) /\ f[x] \in Nat /\ \A y \in P : k[y] = f[y] /\ f[y] = f[y]
  BY DEF NatOn
<1>2. Total(f, S) = f[x] + Total(f, P) /\ Total(f, P) \in Nat
  BY <1>1, TotalGrows
<1>3. Total(k, S) = k[x] + Total(f, P)
  <2>1. P \in SUBSET S /\ \A y \in S : y \in P <=> y # x
    OBVIOUS
  <2>2. \A y \in P : f[y] = k[y]
    BY <1>1
  <2> HIDE DEF P
  <2> QED BY <1>1, <2>1, <2>2, TotalGrows
<1> HIDE DEF P
<1> QED BY <1>1, <1>2, <1>3

LEMMA TotalOfNone ==
  ASSUME NEW S, IsFiniteSet(S), NEW f, \A y \in S : f[y] = 0
  PROVE  Total(f, S) = 0
<1>0. NatOn(f, S)
  BY DEF NatOn
<1>1. PICK g \in [SUBSET S -> Nat] : Sums(g, f, S) /\ Total(f, S) = g[S]
  BY <1>0, TotalIs
<1> DEFINE h == [s \in SUBSET S |-> 0]
<1>2. Sums(h, f, S)
  <2> SUFFICES ASSUME NEW s \in SUBSET S, s # {} PROVE 0 = f[First(s)] + h[s \ {First(s)}]
    BY DEF Sums
  <2>1. First(s) \in s
    BY DEF First
  <2> QED BY <2>1
<1> HIDE DEF h
<1>3. g[S] = h[S]
  BY <1>1, <1>2, SumsAgree
<1> QED BY <1>1, <1>3 DEF h

LEMMA SumsAreTotals ==
  ASSUME NEW f
  PROVE  /\ Calls!SumFunction(f) = Total(f, DOMAIN f)
         /\ Ledger!SumFunction(f) = Total(f, DOMAIN f)
         /\ Verdicts!SumFunction(f) = Total(f, DOMAIN f)
<1>1. Calls!SumFunction(f) = Total(f, DOMAIN f)
  BY DEF Calls!SumFunction, Calls!SumFunctionOnSet, Calls!FoldFunctionOnSet, Calls!MapThenFoldSet, Total
<1>2. Ledger!SumFunction(f) = Total(f, DOMAIN f)
  BY DEF Ledger!SumFunction, Ledger!SumFunctionOnSet, Ledger!FoldFunctionOnSet,
         Ledger!MapThenFoldSet, Total
<1>3. Verdicts!SumFunction(f) = Total(f, DOMAIN f)
  BY DEF Verdicts!SumFunction, Verdicts!SumFunctionOnSet, Verdicts!FoldFunctionOnSet,
         Verdicts!MapThenFoldSet, Total
<1> QED BY <1>1, <1>2, <1>3

----------------------------------------------------------------------------
(* The log.  What the stream is writing has been written when it says so, and *)
(* nothing is queued or handed to a stream unless somebody is there to write  *)
(* it (logger.ts).                                                            *)
LogType ==
  /\ disk \in [Logger!Backup -> Seq(Nat)] /\ at \in 0 .. Logger!Gone
  /\ pendingStreamLines \in Seq(Nat) /\ queuedLines \in Seq(Nat)
  /\ flying \in 0 .. Len(pendingStreamLines) /\ landed \in BOOLEAN
  /\ logBytes \in Nat /\ logged \in Nat /\ settled \in 0 .. logged
  /\ stream \in {"none", "open", "ending"} /\ logStreamUnavailable \in BOOLEAN
  /\ ready \in {"none", "ending", "forced", "dir", "stat", "stat-forced", "move", "create"}
  /\ step \in 0 .. LOG_BACKUP_COUNT /\ (ready = "move" => step # 0)
StreamKept ==
  /\ stream = "open" => ready = "none"
  /\ stream = "ending" <=> ready = "ending"
  /\ stream = "none" => pendingStreamLines = <<>>
  /\ landed => flying # 0 /\ \A i \in 1 .. flying : pendingStreamLines[i] \in Logger!Safe
LogInv == LogType /\ StreamKept /\ Logger!LinesKept /\ Logger!FlushedIsSafe /\ Logger!NoneStuck

(* Lines are written in the order in which they were logged, one file after   *)
(* the other, and again only behind their first appearance.  No file is       *)
(* rotated under a stream, unless a flush overtook it: what has landed is in  *)
(* the log, what waits is newer than all that is written or removed.  A       *)
(* rotation moves a file to where none is left, unless a flush rotated        *)
(* meanwhile.                                                                 *)
Increasing(s) == \A i, j \in DOMAIN s : i < j => s[i] < s[j]
Admits(s, v) == \A i \in DOMAIN s : s[i] > v => \E h \in 1 .. i - 1 : s[h] = v
Ordered(s) == \A v \in Logger!ToSet(s) : Admits(s, v)
NoneAbove(A, B) == \A x \in A, y \in B : x <= y
AllBelow(A, B) == \A x \in A, y \in B : x < y
Held(d) == UNION {Logger!ToSet(d[f]) : f \in Logger!Backup}
InOrder(d) ==
  /\ \A f \in Logger!Backup : Ordered(d[f])
  /\ \A f, g \in Logger!Backup : f > g => NoneAbove(Logger!ToSet(d[f]), Logger!ToSet(d[g]))
Written == {pendingStreamLines[k] : k \in {k \in 1 .. flying : landed}}
Unwritten == {pendingStreamLines[k] : k \in {k \in DOMAIN pendingStreamLines : landed => k > flying}}
StreamInOrder ==
  /\ stream # "none" => at = 0 /\ ~logStreamUnavailable
  /\ stream = "open" => logBytes < MAX_LOG_BYTES
  /\ Increasing(pendingStreamLines) /\ Increasing(queuedLines)
  /\ AllBelow(Logger!ToSet(pendingStreamLines), Logger!ToSet(queuedLines))
  /\ Logger!ToSet(pendingStreamLines) \cup Logger!ToSet(queuedLines) \subseteq 0 .. logged
FilesInOrder ==
  /\ InOrder(disk) /\ Held(disk) \cup retired \subseteq 0 .. logged
  /\ AllBelow(Held(disk) \cup retired, Logger!ToSet(queuedLines) \cup Unwritten)
  /\ Written \subseteq Logger!ToSet(disk[0])
  /\ raced \/ NoneAbove(retired, Held(disk))
  /\ raced \/ (ready = "move" /\ step # LOG_BACKUP_COUNT => disk[step] = <<>>)
OrderInv == early \/ (StreamInOrder /\ FilesInOrder)

----------------------------------------------------------------------------
(* The startup ledger.  A setup that has ended has a record; a window is      *)
(* opened before any handler of the session has returned.                     *)
Settled(p) == setup[p] \in {"ok", "failed"}
Done == {p \in Provider : Settled(p)}
Listener == Work \cup {"window"}
Record == [work : Work, ok : BOOLEAN]
Phase == {"global-handlers", "providers", "built-in-toggles", "global-filter"}
SetupRecord == [provider : Provider, ok : BOOLEAN]
Count == [hits : Nat, fetches : Nat, ok : Nat, failed : Nat, aborts : Nat, retained : Nat]
LedgerState ==
  [finalized : BOOLEAN, phases : SUBSET Phase, open : SUBSET Phase,
   providers : Seq(SetupRecord), cacheHits : Nat, networkFetches : Nat,
   network : [Provider -> Count],
   handlers : Seq(Record), detached : Seq(Record), failures : Seq(Work)]
LedgerType ==
  /\ setup \in [Provider -> {"none", "running", "ok", "failed"}]
  /\ entry \in {"out", "handlers", "providers", "in"}
  /\ listeners \in Seq(Listener) /\ queue \in Seq(Listener)
  /\ running \in Work \cup {"none"} /\ returned \subseteq Work
  /\ \A u \in underway : u.work \in Work
  /\ runner \in Nat /\ state \in LedgerState
SetupInv ==
  /\ Len(state.providers) = Cardinality(Done)
  /\ \A p \in Done : [provider |-> p, ok |-> setup[p] = "ok"] \in Ledger!ToSet(state.providers)
  /\ entry = "handlers" => state.open = {"global-handlers"}
  /\ entry = "providers" => state.open = {"providers"}
  /\ entry = "in" => state.open = {} /\ Done = Provider
  /\ entry \in {"out", "handlers"} => \A p \in Provider : setup[p] = "none"
  /\ state.finalized => entry = "in"
WindowInv ==
  /\ handlersRegisteredFor = runner
  /\ runner = 0 => entry = "out" /\ listeners = <<>>
  /\ \A i \in DOMAIN listeners : listeners[i] = "window" => i = 1
  /\ \A i \in DOMAIN queue : queue[i] = "window" => i = 1 /\ returned = {} /\ running = "none"
LedgerInv == LedgerType /\ SetupInv /\ WindowInv /\ Ledger!WindowHoldsSession

----------------------------------------------------------------------------
(* The records of calls.  While no other model was selected, the run's own    *)
(* call is the one that waits for its model.                                  *)
Calling == run.on /\ ~stray
CallRecord == [success : BOOLEAN, latency : Nat]
CallType ==
  /\ current \in Calls!Model /\ statusBar \in Provider \cup {"none"} /\ clock \in Nat
  /\ run \in [n : Nat, on : BOOLEAN, model : Calls!Model \cup {"none"}]
  /\ run.on => run.model \in Calls!Model
  /\ pendingCallIds \in [Calls!Model -> Nat] /\ stray \in BOOLEAN
  /\ \A e \in inFlight : e.id \in 1 .. run.n /\ e.start \in 0 .. clock /\ e.model \in Calls!Model
  /\ recent \in [Calls!Model -> Seq(CallRecord)]
  /\ calls \in [Calls!Model -> Nat] /\ stats = [m \in Calls!Model |-> stats[m]]
PairInv ==
  /\ Calling => current = run.model
  /\ Calling /\ Calls!IsFreeModel(run.model) => pendingCallIds[run.model] \in {0, run.n}
  /\ \A m \in Calls!Model : pendingCallIds[m] <= run.n
KeptInv ==
  \A m \in Calls!Model :
    /\ Len(recent[m]) = IF calls[m] <= MAX_RECENT_CALLS THEN calls[m] ELSE MAX_RECENT_CALLS
    /\ stats[m].total = (IF calls[m] <= MAX_RECENT_CALLS THEN calls[m] ELSE MAX_RECENT_CALLS + 1)
CallsInv ==
  /\ CallType /\ PairInv /\ KeptInv
  /\ Calls!CallsAreOfTheirRun /\ Calls!LatencySane /\ Calls!InFlightSane /\ Calls!BarOfCurrent

----------------------------------------------------------------------------
(* Auto-fallback's notices. *)
NoticeInv ==
  /\ runs \in Nat /\ activeSince \in Nat /\ bar \in BOOLEAN
  /\ notifier \in {"none"} \cup Verdicts!Level
  /\ notifier = "none" => ~bar /\ activeSince = 0
  /\ Verdicts!BarWhileActive /\ (notifier # "none" => "true" \in {env.on, file.on})

(* What a sequence of lines holds.                                            *)
LEMMA LinesOfJoined ==
  ASSUME NEW s \in Seq(Nat), NEW t \in Seq(Nat)
  PROVE  Logger!ToSet(s \o t) = Logger!ToSet(s) \cup Logger!ToSet(t)
<1>1. ASSUME NEW x, x \in Logger!ToSet(s \o t) PROVE x \in Logger!ToSet(s) \cup Logger!ToSet(t)
  <2>1. PICK i \in 1 .. Len(s) + Len(t) : (s \o t)[i] = x
    BY <1>1 DEF Logger!ToSet
  <2>2. CASE i <= Len(s)
    BY <2>1, <2>2 DEF Logger!ToSet
  <2>3. CASE i > Len(s)
    <3>1. i - Len(s) \in 1 .. Len(t) /\ t[i - Len(s)] = x
      BY <2>1, <2>3
    <3> QED BY <3>1 DEF Logger!ToSet
  <2> QED BY <2>2, <2>3
<1>2. ASSUME NEW x, x \in Logger!ToSet(s) PROVE x \in Logger!ToSet(s \o t)
  <2>1. PICK i \in 1 .. Len(s) : s[i] = x
    BY <1>2 DEF Logger!ToSet
  <2>2. i \in 1 .. Len(s \o t) /\ (s \o t)[i] = x
    BY <2>1
  <2> QED BY <2>2 DEF Logger!ToSet
<1>3. ASSUME NEW x, x \in Logger!ToSet(t) PROVE x \in Logger!ToSet(s \o t)
  <2>1. PICK i \in 1 .. Len(t) : t[i] = x
    BY <1>3 DEF Logger!ToSet
  <2>2. Len(s) + i \in 1 .. Len(s \o t) /\ (s \o t)[Len(s) + i] = x
    BY <2>1
  <2> QED BY <2>2 DEF Logger!ToSet
<1> QED BY <1>1, <1>2, <1>3

LEMMA LinesOfAppended ==
  ASSUME NEW s \in Seq(Nat), NEW n \in Nat
  PROVE  Logger!ToSet(Append(s, n)) = Logger!ToSet(s) \cup {n}
<1>1. <<n>> \in Seq(Nat) /\ Append(s, n) = s \o <<n>> /\ Logger!ToSet(<<n>>) = {n}
  BY DEF Logger!ToSet
<1> QED BY <1>1, LinesOfJoined

LEMMA LinesOfSplit ==
  ASSUME NEW s \in Seq(Nat), NEW n \in 0 .. Len(s)
  PROVE  /\ SubSeq(s, 1, n) \in Seq(Nat) /\ SubSeq(s, n + 1, Len(s)) \in Seq(Nat)
         /\ Logger!ToSet(s) = Logger!ToSet(SubSeq(s, 1, n)) \cup Logger!ToSet(SubSeq(s, n + 1, Len(s)))
<1> DEFINE a == SubSeq(s, 1, n)
           b == SubSeq(s, n + 1, Len(s))
<1>1. a \in Seq(Nat) /\ Len(a) = n /\ \A i \in 1 .. n : a[i] = s[i]
  OBVIOUS
<1>2. b \in Seq(Nat) /\ Len(b) = Len(s) - n /\ \A i \in 1 .. Len(s) - n : b[i] = s[n + i]
  BY SMTT(20)
<1>3. Len(s) \in Nat /\ n \in Nat /\ n <= Len(s)
  OBVIOUS
<1> HIDE DEF a, b
<1>4. ASSUME NEW x, x \in Logger!ToSet(s) PROVE x \in Logger!ToSet(a) \cup Logger!ToSet(b)
  <2>1. PICK i \in 1 .. Len(s) : s[i] = x
    BY <1>4 DEF Logger!ToSet
  <2>2. CASE i <= n
    BY <1>1, <1>3, <2>1, <2>2 DEF Logger!ToSet
  <2>3. CASE i > n
    <3>1. i - n \in 1 .. Len(s) - n /\ n + (i - n) = i
      BY <1>3, <2>3
    <3>2. b[i - n] = x
      BY <1>2, <2>1, <3>1
    <3> QED BY <1>2, <3>1, <3>2 DEF Logger!ToSet
  <2> QED BY <1>3, <2>2, <2>3
<1>5. ASSUME NEW x, x \in Logger!ToSet(a) PROVE x \in Logger!ToSet(s)
  <2>1. PICK i \in 1 .. n : a[i] = x
    BY <1>1, <1>5 DEF Logger!ToSet
  <2> QED BY <1>1, <1>3, <2>1 DEF Logger!ToSet
<1>6. ASSUME NEW x, x \in Logger!ToSet(b) PROVE x \in Logger!ToSet(s)
  <2>1. PICK i \in 1 .. Len(s) - n : b[i] = x
    BY <1>2, <1>6 DEF Logger!ToSet
  <2>2. n + i \in 1 .. Len(s) /\ s[n + i] = x
    BY <1>2, <1>3, <2>1
  <2> QED BY <2>2 DEF Logger!ToSet
<1> QED BY <1>1, <1>2, <1>4, <1>5, <1>6 DEF a, b

(* The synchronous path keeps what is safe, and what it is given it writes or *)
(* counts.                                                                    *)
LEMMA FallbackKeeps ==
  ASSUME LogType,
         NEW d \in [Logger!Backup -> Seq(Nat)], NEW lines \in Seq(Nat), NEW bytes \in Nat,
         NEW late \in Seq(Nat), Logger!Fallback(d, lines, bytes, late),
         \A i \in Logger!Backup : Logger!ToSet(disk[i]) \subseteq Logger!ToSet(d[i])
  PROVE  /\ disk' \in [Logger!Backup -> Seq(Nat)] /\ at' \in 0 .. Logger!Gone
         /\ logBytes' \in Nat /\ queuedLines' = <<>>
         /\ Logger!Safe \subseteq Logger!Safe' /\ Logger!ToSet(lines) \subseteq Logger!Safe'
<1> DEFINE rotates == Logger!RotatesSync(d, lines, bytes)
           base == IF rotates THEN Logger!RotatedSync(d) ELSE d
           left == IF lines # <<>> /\ bytes > 0 /\ bytes + Len(lines) > MAX_LOG_BYTES THEN 0
                   ELSE bytes
<1>0. LOG_BACKUP_COUNT \in Nat \ {0} /\ 0 \in Logger!Backup /\ LOG_BACKUP_COUNT \in Logger!Backup
  BY JournalsAssumption DEF Logger!Backup
<1>1. /\ queuedLines' = <<>>
      /\ retired' = IF rotates THEN retired \cup Logger!ToSet(d[LOG_BACKUP_COUNT]) ELSE retired
      /\ at' = IF rotates /\ at < Logger!Gone THEN at + 1 ELSE at
      /\ \/ /\ disk' = [base EXCEPT ![0] = @ \o lines \o late]
            /\ logBytes' = left + Len(lines) /\ counted' = counted
         \/ counted' = counted \cup Logger!ToSet(lines) /\ disk' = base /\ logBytes' = left
  BY DEF Logger!Fallback
<1>2. base \in [Logger!Backup -> Seq(Nat)] /\ left \in Nat
  <2>1. ASSUME NEW i \in Logger!Backup, i # 0 PROVE i - 1 \in Logger!Backup
    BY <1>0, <2>1 DEF Logger!Backup
  <2>2. Logger!RotatedSync(d) \in [Logger!Backup -> Seq(Nat)]
    BY <2>1 DEF Logger!RotatedSync
  <2> QED BY <2>2
<1>3. ASSUME NEW i \in Logger!Backup, NEW x \in Logger!ToSet(d[i])
      PROVE  x \in retired' \/ \E j \in Logger!Backup : x \in Logger!ToSet(base[j])
  <2>1. CASE ~rotates
    BY <1>3, <2>1
  <2>2. CASE rotates /\ i = LOG_BACKUP_COUNT
    BY <1>1, <1>3, <2>2
  <2>3. CASE rotates /\ i # LOG_BACKUP_COUNT
    <3>1. i + 1 \in Logger!Backup /\ i + 1 # 0 /\ (i + 1) - 1 = i
      BY <1>0, <2>3 DEF Logger!Backup
    <3>2. base[i + 1] = d[i]
      BY <2>3, <3>1 DEF Logger!RotatedSync
    <3> QED BY <1>3, <3>1, <3>2
  <2> QED BY <2>1, <2>2, <2>3
<1> HIDE DEF base, left
<1>4. /\ disk' \in [Logger!Backup -> Seq(Nat)] /\ logBytes' \in Nat
      /\ \A j \in Logger!Backup : Logger!ToSet(base[j]) \subseteq Logger!ToSet(disk'[j])
      /\ Logger!ToSet(lines) \subseteq counted' \cup Logger!ToSet(disk'[0])
      /\ counted \subseteq counted'
  <2>1. CASE /\ disk' = [base EXCEPT ![0] = @ \o lines \o late]
             /\ logBytes' = left + Len(lines) /\ counted' = counted
    <3>1. base[0] \in Seq(Nat) /\ base[0] \o lines \in Seq(Nat)
          /\ base[0] \o lines \o late \in Seq(Nat) /\ Len(lines) \in Nat
      BY <1>0, <1>2
    <3>2. disk'[0] = base[0] \o lines \o late
          /\ \A j \in Logger!Backup : j # 0 => disk'[j] = base[j]
      BY <1>0, <1>2, <2>1
    <3>3. Logger!ToSet(disk'[0])
            = Logger!ToSet(base[0]) \cup Logger!ToSet(lines) \cup Logger!ToSet(late)
      <4>1. Logger!ToSet((base[0] \o lines) \o late)
              = Logger!ToSet(base[0] \o lines) \cup Logger!ToSet(late)
        BY <3>1, LinesOfJoined
      <4>2. Logger!ToSet(base[0] \o lines) = Logger!ToSet(base[0]) \cup Logger!ToSet(lines)
        BY <3>1, LinesOfJoined
      <4> QED BY <3>2, <4>1, <4>2
    <3>4. disk' \in [Logger!Backup -> Seq(Nat)]
      <4> DEFINE whole == base[0] \o lines \o late
      <4>1. disk' = [base EXCEPT ![0] = whole] /\ whole \in Seq(Nat)
        BY <2>1, <3>1
      <4> HIDE DEF whole
      <4> QED BY <1>2, <4>1
    <3>5. logBytes' \in Nat
      BY <1>2, <2>1, <3>1
    <3> QED BY <2>1, <3>2, <3>3, <3>4, <3>5
  <2>2. CASE counted' = counted \cup Logger!ToSet(lines) /\ disk' = base /\ logBytes' = left
    BY <1>2, <2>2
  <2> QED BY <1>1, <2>1, <2>2
<1>5. retired \subseteq retired' /\ at' \in 0 .. Logger!Gone
  BY <1>0, <1>1 DEF LogType, Logger!Gone
<1>6. ASSUME NEW x \in Logger!Safe PROVE x \in Logger!Safe'
  <2>1. CASE x \in Logger!OnDisk
    <3>1. PICK i \in Logger!Backup : x \in Logger!ToSet(disk[i])
      BY <2>1 DEF Logger!OnDisk
    <3>2. x \in Logger!ToSet(d[i])
      BY <3>1
    <3>3. x \in retired' \/ \E j \in Logger!Backup : x \in Logger!ToSet(base[j])
      BY <1>3, <3>2
    <3>4. x \in retired' \/ \E j \in Logger!Backup : x \in Logger!ToSet(disk'[j])
      BY <1>4, <3>3
    <3> QED BY <3>4 DEF Logger!Safe, Logger!OnDisk, Logger!ToSet
  <2>2. CASE x \in retired \cup counted
    BY <1>4, <1>5, <2>2 DEF Logger!Safe
  <2> QED BY <1>6, <2>1, <2>2 DEF Logger!Safe
<1>7. Logger!ToSet(lines) \subseteq Logger!Safe'
  <2>1. ASSUME NEW x \in Logger!ToSet(lines), x \notin counted' PROVE x \in Logger!OnDisk'
    <3>1. x \in Logger!ToSet(disk'[0])
      BY <1>4, <2>1
    <3> QED BY <1>0, <3>1 DEF Logger!OnDisk, Logger!ToSet, Logger!Backup
  <2> QED BY <2>1 DEF Logger!Safe
<1> QED BY <1>1, <1>4, <1>5, <1>6, <1>7

LEMMA SafeStays ==
  ASSUME UNCHANGED <<disk, retired, counted>>
  PROVE  Logger!Safe' = Logger!Safe
BY DEF Logger!Safe, Logger!OnDisk, Logger!ToSet

(* Nothing of the log is touched: what was kept is kept.                      *)
LEMMA LogInvInit == Logger!Init => LogInv
<1> SUFFICES ASSUME Logger!Init PROVE LogInv
  OBVIOUS
<1>0. LOG_BACKUP_COUNT \in Nat \ {0} /\ MAX_LOG_BYTES \in Nat
  BY JournalsAssumption
<1>1. disk \in [Logger!Backup -> Seq(Nat)]
  <2>1. PICK before \in {0, MAX_LOG_BYTES} :
          disk = [i \in Logger!Backup |-> IF i = 0 THEN [n \in 1 .. before |-> 0] ELSE <<>>]
    BY DEF Logger!Init
  <2>2. [n \in 1 .. before |-> 0] \in Seq(Nat)
    BY <1>0, <2>1
  <2> QED BY <2>1, <2>2
<1>2. LogType
  <2>1. Logger!Gone \in Nat /\ <<>> \in Seq(Nat) /\ Len(<<>>) = 0
    BY <1>0 DEF Logger!Gone
  <2>2. /\ at = 0 /\ pendingStreamLines = <<>> /\ flying = 0 /\ landed = FALSE /\ queuedLines = <<>>
        /\ logBytes = 0 /\ logStreamUnavailable = FALSE /\ ready = "none" /\ step = 0
        /\ logged = 0 /\ settled = 0 /\ stream = "none"
    BY DEF Logger!Init
  <2>3. at \in 0 .. Logger!Gone /\ step \in 0 .. LOG_BACKUP_COUNT
    BY <1>0, <2>1, <2>2
  <2>4. flying \in 0 .. Len(pendingStreamLines) /\ settled \in 0 .. logged
    BY <2>1, <2>2
  <2> QED BY <1>1, <2>1, <2>2, <2>3, <2>4 DEF LogType
<1>3. StreamKept
  BY DEF Logger!Init, StreamKept
<1>4. Logger!LinesKept /\ Logger!FlushedIsSafe /\ Logger!NoneStuck
  BY DEF Logger!Init, Logger!LinesKept, Logger!FlushedIsSafe, Logger!NoneStuck
<1> QED BY <1>2, <1>3, <1>4 DEF LogInv

(* appendToFile: the line goes to the stream, to the queue or the other way.  *)
LEMMA LogKeeps == ASSUME LogInv, Logger!Log PROVE LogInv'
<1> DEFINE line == logged + 1
<1>0. /\ line \in Nat /\ logged' = line /\ line # 0 /\ 1 .. line = 1 .. logged \cup {line}
      /\ settled \in 0 .. line
      /\ UNCHANGED <<logStreamUnavailable, timers, flushes, settled, early>>
  BY DEF Logger!Log, LogInv, LogType
<1>1. CASE stream = "open" /\ logBytes + 1 < MAX_LOG_BYTES
  <2>1. /\ pendingStreamLines' = pendingStreamLines \o <<line>> /\ logBytes' = logBytes + 1
        /\ flying' = (IF flying = 0 THEN 1 ELSE flying)
        /\ UNCHANGED <<disk, at, retired, counted, landed, stream, queuedLines, ready, step>>
    BY <1>1 DEF Logger!Log, Logger!Accepted, Logger!Quiet, Logger!files, Logger!opening
  <2>2. /\ pendingStreamLines' \in Seq(Nat) /\ Len(pendingStreamLines') = Len(pendingStreamLines) + 1
        /\ Len(pendingStreamLines) \in Nat
        /\ \A i \in 1 .. Len(pendingStreamLines) : pendingStreamLines'[i] = pendingStreamLines[i]
    BY <1>0, <2>1 DEF LogInv, LogType
  <2>3. Logger!ToSet(pendingStreamLines') = Logger!ToSet(pendingStreamLines) \cup {line}
    <3>1. pendingStreamLines' = Append(pendingStreamLines, line)
      BY <1>0, <2>1 DEF LogInv, LogType
    <3> QED BY <1>0, <3>1, LinesOfAppended DEF LogInv, LogType
  <2>4. Logger!Safe' = Logger!Safe
    BY <2>1, SafeStays
  <2> HIDE DEF line
  <2>5. LogType'
    BY <1>0, <2>1, <2>2 DEF LogInv, LogType
  <2>6. StreamKept'
    <3>1. ASSUME landed' PROVE flying' # 0 /\ \A i \in 1 .. flying' : pendingStreamLines'[i] \in Logger!Safe'
      <4>1. flying # 0 /\ flying' = flying /\ flying \in 0 .. Len(pendingStreamLines)
            /\ \A i \in 1 .. flying : pendingStreamLines[i] \in Logger!Safe
        BY <2>1, <3>1 DEF LogInv, LogType, StreamKept
      <4> QED BY <2>2, <2>4, <4>1
    <3> QED BY <1>1, <2>1, <3>1 DEF LogInv, StreamKept
  <2>7. Logger!LinesKept'
    BY <1>0, <2>1, <2>3, <2>4 DEF LogInv, Logger!LinesKept, Logger!ToSet
  <2>8. Logger!FlushedIsSafe' /\ Logger!NoneStuck'
    BY <1>0, <2>1, <2>4 DEF LogInv, Logger!FlushedIsSafe, Logger!NoneStuck
  <2> QED BY <2>5, <2>6, <2>7, <2>8 DEF LogInv
<1>2. CASE ~(stream = "open" /\ logBytes + 1 < MAX_LOG_BYTES) /\ logStreamUnavailable
  <2>1. /\ UNCHANGED <<pendingStreamLines, flying, landed, step, stream, ready>>
        /\ Logger!Fallback(disk, Append(queuedLines, line), logBytes, <<>>)
    BY <1>2 DEF Logger!Log
  <2>2. Append(queuedLines, line) \in Seq(Nat)
        /\ Logger!ToSet(Append(queuedLines, line)) = Logger!ToSet(queuedLines) \cup {line}
    BY <1>0, LinesOfAppended DEF LogInv, LogType
  <2> HIDE DEF line
  <2>3. /\ disk' \in [Logger!Backup -> Seq(Nat)] /\ at' \in 0 .. Logger!Gone
        /\ logBytes' \in Nat /\ queuedLines' = <<>>
        /\ Logger!Safe \subseteq Logger!Safe'
        /\ Logger!ToSet(Append(queuedLines, line)) \subseteq Logger!Safe'
    <3>1. LogType /\ disk \in [Logger!Backup -> Seq(Nat)] /\ logBytes \in Nat /\ <<>> \in Seq(Nat)
      BY DEF LogInv, LogType
    <3> QED BY <2>1, <2>2, <3>1, FallbackKeeps
  <2>4. LogType'
    BY <1>0, <2>1, <2>3 DEF LogInv, LogType
  <2>5. StreamKept'
    BY <1>0, <2>1, <2>3 DEF LogInv, LogType, StreamKept
  <2>6. Logger!LinesKept' /\ Logger!FlushedIsSafe' /\ Logger!NoneStuck'
    BY <1>0, <2>1, <2>2, <2>3
       DEF LogInv, Logger!LinesKept, Logger!FlushedIsSafe, Logger!NoneStuck, Logger!ToSet
  <2> QED BY <2>4, <2>5, <2>6 DEF LogInv
<1>3. CASE ~(stream = "open" /\ logBytes + 1 < MAX_LOG_BYTES) /\ ~logStreamUnavailable
  <2>1. /\ UNCHANGED <<pendingStreamLines, flying, landed, step, logBytes>>
        /\ UNCHANGED <<disk, at, retired, counted>>
        /\ queuedLines' = Append(queuedLines, line)
        /\ \/ ready # "none" /\ UNCHANGED <<stream, ready>>
           \/ ready = "none" /\ stream = "open" /\ stream' = "ending" /\ ready' = "ending"
           \/ ready = "none" /\ stream # "open" /\ stream' = stream /\ ready' = "dir"
    BY <1>3 DEF Logger!Log, Logger!Quiet, Logger!files, Logger!EndsStream, Logger!Opens
  <2>2. queuedLines' \in Seq(Nat)
        /\ Logger!ToSet(queuedLines') = Logger!ToSet(queuedLines) \cup {line}
    BY <1>0, <2>1, LinesOfAppended DEF LogInv, LogType
  <2>3. Logger!Safe' = Logger!Safe
    BY <2>1, SafeStays
  <2> HIDE DEF line
  <2>4. LogType'
    BY <1>0, <2>1, <2>2 DEF LogInv, LogType
  <2>5. StreamKept'
    BY <1>0, <2>1, <2>3 DEF LogInv, LogType, StreamKept, Logger!NoneStuck
  <2>6. Logger!LinesKept' /\ Logger!FlushedIsSafe'
    BY <1>0, <2>1, <2>2, <2>3
       DEF LogInv, Logger!LinesKept, Logger!FlushedIsSafe, Logger!ToSet
  <2>7. Logger!NoneStuck'
    BY <2>1 DEF Logger!NoneStuck
  <2> QED BY <2>4, <2>5, <2>6, <2>7 DEF LogInv
<1> QED BY <1>1, <1>2, <1>3

(* Lines that are added to a file are on the disk, with those that were.      *)
LEMMA DiskGains ==
  ASSUME disk \in [Logger!Backup -> Seq(Nat)], NEW i \in Logger!Backup, NEW lines \in Seq(Nat),
         disk' = [disk EXCEPT ![i] = @ \o lines]
  PROVE  /\ disk' \in [Logger!Backup -> Seq(Nat)]
         /\ Logger!OnDisk \subseteq Logger!OnDisk' /\ Logger!ToSet(lines) \subseteq Logger!OnDisk'
<1> DEFINE whole == disk[i] \o lines
<1>1. whole \in Seq(Nat) /\ disk' = [disk EXCEPT ![i] = whole]
  OBVIOUS
<1>2. Logger!ToSet(whole) = Logger!ToSet(disk[i]) \cup Logger!ToSet(lines)
  BY LinesOfJoined
<1> HIDE DEF whole
<1>3. disk' \in [Logger!Backup -> Seq(Nat)] /\ disk'[i] = whole
      /\ \A j \in Logger!Backup : j # i => disk'[j] = disk[j]
  BY <1>1
<1>4. \A j \in Logger!Backup : Logger!ToSet(disk[j]) \subseteq Logger!ToSet(disk'[j])
  BY <1>2, <1>3
<1>5. ASSUME NEW x \in Logger!OnDisk PROVE x \in Logger!OnDisk'
  <2>1. PICK j \in Logger!Backup : x \in Logger!ToSet(disk[j])
    BY <1>5 DEF Logger!OnDisk
  <2>2. x \in Logger!ToSet(disk'[j])
    BY <1>4, <2>1
  <2> QED BY <2>2 DEF Logger!OnDisk, Logger!ToSet
<1>6. ASSUME NEW x \in Logger!ToSet(lines) PROVE x \in Logger!OnDisk'
  <2>1. x \in Logger!ToSet(disk'[i])
    BY <1>2, <1>3, <1>6
  <2> QED BY <2>1 DEF Logger!OnDisk, Logger!ToSet
<1> QED BY <1>3, <1>5, <1>6

(* A write reaches its file, or goes with a file that was removed.            *)
LEMMA LandKeeps == ASSUME LogInv, Logger!Land PROVE LogInv'
<1> DEFINE lines == SubSeq(pendingStreamLines, 1, flying)
<1>1. /\ flying > 0 /\ ~landed /\ landed' = TRUE
      /\ UNCHANGED <<at, stream, pendingStreamLines, flying, queuedLines, logBytes,
                     logStreamUnavailable, ready, step, logged, settled, counted>>
      /\ \/ at = Logger!Gone /\ retired' = retired \cup Logger!ToSet(lines) /\ disk' = disk
         \/ at # Logger!Gone /\ disk' = [disk EXCEPT ![at] = @ \o lines] /\ retired' = retired
  BY DEF Logger!Land, Logger!opening, Logger!counts
<1>2. LogType /\ disk \in [Logger!Backup -> Seq(Nat)] /\ flying \in 1 .. Len(pendingStreamLines)
      /\ pendingStreamLines \in Seq(Nat) /\ at \in 0 .. Logger!Gone
  BY <1>1 DEF LogInv, LogType
<1>3. lines \in Seq(Nat) /\ \A i \in 1 .. flying : pendingStreamLines[i] \in Logger!ToSet(lines)
  <2>1. lines \in Seq(Nat) /\ Len(lines) = flying
        /\ \A i \in 1 .. flying : lines[i] = pendingStreamLines[i]
    BY <1>2
  <2> HIDE DEF lines
  <2>2. flying \in Nat
    BY <1>2
  <2> QED BY <2>1, <2>2 DEF Logger!ToSet
<1> HIDE DEF lines
<1>4. /\ disk' \in [Logger!Backup -> Seq(Nat)] /\ Logger!Safe \subseteq Logger!Safe'
      /\ Logger!ToSet(lines) \subseteq Logger!Safe'
  <2>1. CASE at = Logger!Gone
    <3>1. retired' = retired \cup Logger!ToSet(lines) /\ disk' = disk /\ counted' = counted
      BY <1>1, <2>1
    <3>2. Logger!OnDisk' = Logger!OnDisk
      BY <3>1 DEF Logger!OnDisk, Logger!ToSet
    <3> QED BY <1>2, <3>1, <3>2 DEF Logger!Safe
  <2>2. CASE at # Logger!Gone
    <3>1. at \in Logger!Backup
      BY <1>2, <2>2, JournalsAssumption DEF Logger!Gone, Logger!Backup
    <3> QED BY <1>1, <1>2, <1>3, <2>2, <3>1, DiskGains DEF Logger!Safe
  <2> QED BY <2>1, <2>2
<1>5. LogType'
  BY <1>1, <1>2, <1>4 DEF LogType
<1>6. StreamKept'
  BY <1>1, <1>2, <1>3, <1>4 DEF LogInv, StreamKept
<1>7. Logger!LinesKept' /\ Logger!FlushedIsSafe' /\ Logger!NoneStuck'
  BY <1>1, <1>4 DEF LogInv, Logger!LinesKept, Logger!FlushedIsSafe, Logger!NoneStuck, Logger!ToSet
<1> QED BY <1>5, <1>6, <1>7 DEF LogInv

(* The callbacks shift lines that have been written.                          *)
LEMMA CallbackKeeps == ASSUME LogInv, Logger!Callback PROVE LogInv'
<1> DEFINE rest == SubSeq(pendingStreamLines, flying + 1, Len(pendingStreamLines))
           gone == SubSeq(pendingStreamLines, 1, flying)
<1>1. /\ landed /\ landed' = FALSE /\ pendingStreamLines' = rest /\ flying' = Len(rest)
      /\ UNCHANGED <<disk, retired, counted, at, stream, queuedLines, logBytes,
                     logStreamUnavailable, ready, step, logged, settled>>
  BY DEF Logger!Callback, Logger!opening, Logger!counts, Logger!files
<1>2. LogType /\ flying \in 0 .. Len(pendingStreamLines) /\ pendingStreamLines \in Seq(Nat)
  BY DEF LogInv, LogType
<1>3. /\ rest \in Seq(Nat)
      /\ Logger!ToSet(pendingStreamLines) = Logger!ToSet(gone) \cup Logger!ToSet(rest)
  BY <1>2, LinesOfSplit
<1>4. Logger!ToSet(gone) \subseteq Logger!Safe
  <2>1. Len(gone) = flying /\ \A i \in 1 .. flying : gone[i] = pendingStreamLines[i]
    BY <1>2
  <2>2. \A i \in 1 .. flying : pendingStreamLines[i] \in Logger!Safe
    BY <1>1 DEF LogInv, StreamKept
  <2> HIDE DEF gone
  <2>3. \A x \in Logger!ToSet(gone) : \E i \in 1 .. flying : gone[i] = x
    BY <2>1 DEF Logger!ToSet
  <2> QED BY <2>1, <2>2, <2>3
<1>5. Len(rest) = Len(pendingStreamLines) - flying /\ Len(pendingStreamLines) \in Nat
  BY <1>2
<1> HIDE DEF rest, gone
<1>6. Logger!Safe' = Logger!Safe
  BY <1>1, SafeStays
<1>7. LogType'
  <2>1. Len(rest) \in 0 .. Len(rest)
    BY <1>2, <1>5
  <2> QED BY <1>1, <1>2, <1>3, <2>1 DEF LogType
<1>8. StreamKept'
  <2>1. stream = "none" => rest = <<>>
    BY <1>1, <1>2, <1>3, <1>5 DEF LogInv, StreamKept
  <2> QED BY <1>1, <2>1 DEF LogInv, StreamKept
<1>9. Logger!LinesKept' /\ Logger!FlushedIsSafe' /\ Logger!NoneStuck'
  BY <1>1, <1>3, <1>4, <1>6
     DEF LogInv, Logger!LinesKept, Logger!FlushedIsSafe, Logger!NoneStuck, Logger!ToSet
<1> QED BY <1>7, <1>8, <1>9 DEF LogInv

(* What a failed stream had accepted is written the other way, or counted.    *)
LEMMA StreamFailsKeeps == ASSUME LogInv, Logger!StreamFails PROVE LogInv'
<1>1. /\ stream # "none" /\ ~landed /\ stream' = (IF stream = "open" THEN "none" ELSE stream)
      /\ pendingStreamLines' = <<>> /\ flying' = 0
      /\ logStreamUnavailable' = (logStreamUnavailable \/ stream = "open")
      /\ UNCHANGED <<retired, at, landed, queuedLines, logBytes, ready, step, logged, settled>>
      /\ \/ disk' = [disk EXCEPT ![0] = @ \o pendingStreamLines] /\ counted' = counted
         \/ counted' = counted \cup Logger!ToSet(pendingStreamLines) /\ disk' = disk
  BY DEF Logger!StreamFails, Logger!opening, Logger!Recovered
<1>2. /\ LogType /\ disk \in [Logger!Backup -> Seq(Nat)] /\ pendingStreamLines \in Seq(Nat)
      /\ 0 \in Logger!Backup /\ <<>> \in Seq(Nat) /\ 0 \in 0 .. Len(<<>>)
  BY JournalsAssumption DEF LogInv, LogType, Logger!Backup
<1>3. /\ disk' \in [Logger!Backup -> Seq(Nat)] /\ Logger!Safe \subseteq Logger!Safe'
      /\ Logger!ToSet(pendingStreamLines) \subseteq Logger!Safe'
  <2>1. CASE disk' = [disk EXCEPT ![0] = @ \o pendingStreamLines] /\ counted' = counted
    BY <1>1, <1>2, <2>1, DiskGains DEF Logger!Safe
  <2>2. CASE counted' = counted \cup Logger!ToSet(pendingStreamLines) /\ disk' = disk
    <3>1. Logger!OnDisk' = Logger!OnDisk
      BY <2>2 DEF Logger!OnDisk, Logger!ToSet
    <3> QED BY <1>1, <1>2, <2>2, <3>1 DEF Logger!Safe
  <2> QED BY <1>1, <2>1, <2>2
<1>4. LogType'
  BY <1>1, <1>2, <1>3 DEF LogType
<1>5. StreamKept'
  BY <1>1 DEF LogInv, LogType, StreamKept
<1>6. Logger!LinesKept' /\ Logger!FlushedIsSafe' /\ Logger!NoneStuck'
  BY <1>1, <1>3 DEF LogInv, Logger!LinesKept, Logger!FlushedIsSafe, Logger!NoneStuck, Logger!ToSet
<1> QED BY <1>4, <1>5, <1>6 DEF LogInv

(* An opening that gives way to the synchronous path.                         *)
LEMMA BailingKeeps ==
  ASSUME LogInv, ready \notin {"none", "ending"},
         Logger!Fallback(disk, queuedLines, logBytes, <<>>), Logger!Finish, Logger!Kept,
         UNCHANGED Logger!streaming, logStreamUnavailable' \in BOOLEAN
  PROVE  LogInv'
<1>1. /\ ready' = "none" /\ step' = 0
      /\ UNCHANGED <<stream, pendingStreamLines, flying, landed, logged, settled>>
  BY DEF Logger!Finish, Logger!Kept, Logger!streaming
<1>2. /\ LogType /\ disk \in [Logger!Backup -> Seq(Nat)] /\ queuedLines \in Seq(Nat)
      /\ logBytes \in Nat /\ <<>> \in Seq(Nat) /\ 0 \in 0 .. LOG_BACKUP_COUNT
  BY JournalsAssumption DEF LogInv, LogType
<1>3. /\ disk' \in [Logger!Backup -> Seq(Nat)] /\ at' \in 0 .. Logger!Gone
      /\ logBytes' \in Nat /\ queuedLines' = <<>>
      /\ Logger!Safe \subseteq Logger!Safe' /\ Logger!ToSet(queuedLines) \subseteq Logger!Safe'
  BY <1>2, FallbackKeeps
<1>4. LogType'
  BY <1>1, <1>2, <1>3 DEF LogType
<1>5. stream = "none" /\ pendingStreamLines = <<>> /\ ~landed
  <2>1. stream = "none"
    BY <1>2 DEF LogInv, LogType, StreamKept
  <2>2. pendingStreamLines = <<>> /\ flying = 0
    BY <1>2, <2>1 DEF LogInv, LogType, StreamKept
  <2> QED BY <2>1, <2>2 DEF LogInv, StreamKept
<1>6. StreamKept' /\ Logger!NoneStuck'
  BY <1>1, <1>2, <1>3, <1>5 DEF LogType, StreamKept, Logger!NoneStuck
<1>7. Logger!LinesKept' /\ Logger!FlushedIsSafe'
  BY <1>1, <1>3 DEF LogInv, Logger!LinesKept, Logger!FlushedIsSafe, Logger!ToSet
<1> QED BY <1>4, <1>6, <1>7 DEF LogInv

(* An opening that goes on.                                                   *)
LEMMA GoingKeeps ==
  ASSUME LogInv, ready \notin {"none", "ending"}, NEW to \in {"stat", "stat-forced", "move", "create"},
         Logger!Goes(to), Logger!Kept, step' \in 0 .. LOG_BACKUP_COUNT, to = "move" => step' # 0
  PROVE  LogInv'
<1>1. /\ ready' = to
      /\ UNCHANGED <<disk, at, retired, counted, stream, pendingStreamLines, flying, landed,
                     queuedLines, logBytes, logStreamUnavailable, logged, settled>>
  BY DEF Logger!Goes, Logger!Kept, Logger!Quiet, Logger!files
<1>2. Logger!Safe' = Logger!Safe
  BY <1>1, SafeStays
<1>3. LogType'
  BY <1>1 DEF LogInv, LogType
<1>4. StreamKept' /\ Logger!NoneStuck'
  BY <1>1, <1>2 DEF LogInv, StreamKept, Logger!NoneStuck
<1>5. Logger!LinesKept' /\ Logger!FlushedIsSafe'
  BY <1>1, <1>2 DEF LogInv, Logger!LinesKept, Logger!FlushedIsSafe, Logger!ToSet
<1> QED BY <1>3, <1>4, <1>5 DEF LogInv

LEMMA StreamEndedKeeps == ASSUME LogInv, Logger!StreamEnded PROVE LogInv'
<1>1. /\ ready = "ending" /\ pendingStreamLines = <<>> /\ stream' = "none" /\ ready' = "forced"
      /\ UNCHANGED <<disk, at, retired, counted, pendingStreamLines, flying, landed,
                     queuedLines, logBytes, logStreamUnavailable, logged, settled, step>>
  BY DEF Logger!StreamEnded, Logger!Kept, Logger!Quiet, Logger!files
<1>2. Logger!Safe' = Logger!Safe
  BY <1>1, SafeStays
<1>3. LogType'
  BY <1>1 DEF LogInv, LogType
<1>4. StreamKept' /\ Logger!NoneStuck'
  BY <1>1, <1>2 DEF LogInv, StreamKept, Logger!NoneStuck
<1>5. Logger!LinesKept' /\ Logger!FlushedIsSafe'
  BY <1>1, <1>2 DEF LogInv, Logger!LinesKept, Logger!FlushedIsSafe, Logger!ToSet
<1> QED BY <1>3, <1>4, <1>5 DEF LogInv

LEMMA DirKeeps == ASSUME LogInv, Logger!Dir PROVE LogInv'
<1>1. CASE Logger!BailsOut
  BY <1>1, BailingKeeps DEF Logger!Dir, Logger!BailsOut, LogInv, LogType
<1>2. CASE ~Logger!BailsOut
  <2>1. /\ ready \in {"dir", "forced"} /\ Logger!Kept /\ step' = step
        /\ Logger!Goes(IF ready = "forced" THEN "stat-forced" ELSE "stat")
    BY <1>2 DEF Logger!Dir
  <2> QED BY <2>1, GoingKeeps DEF LogInv, LogType
<1> QED BY <1>1, <1>2

LEMMA StatKeeps == ASSUME LogInv, Logger!Stat PROVE LogInv'
<1> DEFINE rotates == disk[0] # <<>> /\ (ready = "stat-forced" \/ Len(disk[0]) >= MAX_LOG_BYTES)
<1>1. /\ ready \in {"stat", "stat-forced"} /\ Logger!Kept
      /\ Logger!Goes(IF rotates THEN "move" ELSE "create")
      /\ step' = IF rotates THEN LOG_BACKUP_COUNT ELSE 0
  BY DEF Logger!Stat
<1> HIDE DEF rotates
<1>2. LOG_BACKUP_COUNT \in Nat \ {0}
  BY JournalsAssumption
<1> QED BY <1>1, <1>2, GoingKeeps

(* One step of the rotation: the file it overwrites is retired.               *)
LEMMA MoveKeeps == ASSUME LogInv, Logger!Move PROVE LogInv'
<1>1. /\ ready = "move"
      /\ disk' = [disk EXCEPT ![step] = disk[step - 1], ![step - 1] = <<>>]
      /\ retired' = retired \cup Logger!ToSet(disk[step])
      /\ step' = step - 1 /\ ready' = (IF step = 1 THEN "create" ELSE "move")
      /\ UNCHANGED <<at, counted, stream, pendingStreamLines, flying, landed,
                     queuedLines, logBytes, logStreamUnavailable, logged, settled>>
  BY DEF Logger!Move, Logger!Kept, Logger!streaming
<1>2. /\ step \in 1 .. LOG_BACKUP_COUNT /\ step \in Logger!Backup /\ step - 1 \in Logger!Backup
      /\ step # step - 1 /\ disk \in [Logger!Backup -> Seq(Nat)] /\ <<>> \in Seq(Nat)
      /\ step - 1 \in 0 .. LOG_BACKUP_COUNT
  BY <1>1, JournalsAssumption DEF LogInv, LogType, Logger!Backup
<1>3. /\ disk' \in [Logger!Backup -> Seq(Nat)] /\ disk'[step] = disk[step - 1]
      /\ \A j \in Logger!Backup : j \notin {step, step - 1} => disk'[j] = disk[j]
  BY <1>1, <1>2
<1>4. ASSUME NEW x \in Logger!Safe PROVE x \in Logger!Safe'
  <2>1. CASE x \in Logger!OnDisk
    <3>1. PICK j \in Logger!Backup : x \in Logger!ToSet(disk[j])
      BY <2>1 DEF Logger!OnDisk
    <3>2. x \in retired' \/ \E i \in Logger!Backup : x \in Logger!ToSet(disk'[i])
      BY <1>1, <1>2, <1>3, <3>1
    <3> QED BY <3>2 DEF Logger!Safe, Logger!OnDisk, Logger!ToSet
  <2>2. CASE x \in retired \cup counted
    BY <1>1, <2>2 DEF Logger!Safe
  <2> QED BY <1>4, <2>1, <2>2 DEF Logger!Safe
<1>5. LogType'
  BY <1>1, <1>2, <1>3 DEF LogInv, LogType
<1>6. StreamKept' /\ Logger!NoneStuck'
  BY <1>1, <1>4 DEF LogInv, StreamKept, Logger!NoneStuck
<1>7. Logger!LinesKept' /\ Logger!FlushedIsSafe'
  BY <1>1, <1>4 DEF LogInv, Logger!LinesKept, Logger!FlushedIsSafe, Logger!ToSet
<1> QED BY <1>5, <1>6, <1>7 DEF LogInv

(* A new stream takes some of the queue: the rule has a solution.             *)
LEMMA TakenSome ==
  ASSUME NEW lines \in Seq(Nat), NEW bytes \in Nat
  PROVE  Logger!Taken(lines, bytes) \in 0 .. Len(lines)
<1> DEFINE L == Len(lines)
           Fits(n) == /\ \A i \in 1 .. n : bytes + i - 1 = 0 \/ bytes + i <= MAX_LOG_BYTES
                      /\ n = L \/ (bytes + n > 0 /\ bytes + n + 1 > MAX_LOG_BYTES)
           room == IF bytes >= MAX_LOG_BYTES THEN 0 ELSE MAX_LOG_BYTES - bytes
           n == IF room <= L THEN room ELSE L
<1>1. L \in Nat /\ MAX_LOG_BYTES \in Nat \ {0}
  BY JournalsAssumption
<1>2. n \in 0 .. L
  BY <1>1
<1>3. \A i \in 1 .. n : bytes + i - 1 = 0 \/ bytes + i <= MAX_LOG_BYTES
  BY <1>1
<1>4. n = L \/ (bytes + n > 0 /\ bytes + n + 1 > MAX_LOG_BYTES)
  BY <1>1
<1>5. \E k \in 0 .. L : Fits(k)
  BY <1>2, <1>3, <1>4
<1> QED BY <1>5 DEF Logger!Taken

LEMMA CreateKeeps == ASSUME LogInv, Logger!Create PROVE LogInv'
<1>1. CASE Logger!BailsOut
  BY <1>1, BailingKeeps DEF Logger!Create, Logger!BailsOut, LogInv, LogType
<1>2. CASE ~Logger!BailsOut
  <2> DEFINE bytes == Len(disk[0])
             n == Logger!Taken(queuedLines, bytes)
             took == SubSeq(queuedLines, 1, n)
             rest == SubSeq(queuedLines, n + 1, Len(queuedLines))
  <2>1. /\ ready = "create" /\ at' = 0 /\ queuedLines' = rest /\ logBytes' = bytes + n
        /\ pendingStreamLines' = pendingStreamLines \o took
        /\ flying' = (IF flying = 0 THEN Len(took) ELSE flying)
        /\ UNCHANGED <<landed, step, disk, retired, counted, logStreamUnavailable, logged, settled>>
        /\ \/ stream' = "ending" /\ ready' = "ending"
           \/ queuedLines' = <<>> /\ stream' = "open" /\ ready' = "none"
    BY <1>2 DEF Logger!Create, Logger!Kept, Logger!Accepted, Logger!EndsStream, Logger!Rest
  <2>2. /\ LogType /\ queuedLines \in Seq(Nat) /\ disk[0] \in Seq(Nat) /\ bytes \in Nat
        /\ 0 \in 0 .. Logger!Gone /\ Len(queuedLines) \in Nat
    <3>1. LogType /\ queuedLines \in Seq(Nat) /\ Len(queuedLines) \in Nat
      BY DEF LogInv, LogType
    <3>2. 0 \in Logger!Backup /\ 0 \in 0 .. Logger!Gone
      BY JournalsAssumption DEF Logger!Backup, Logger!Gone
    <3>3. disk[0] \in Seq(Nat)
      BY <3>1, <3>2 DEF LogType
    <3> QED BY <3>1, <3>2, <3>3
  <2>3. n \in 0 .. Len(queuedLines)
    BY <2>2, TakenSome
  <2>4. stream = "none" /\ pendingStreamLines = <<>> /\ flying = 0 /\ ~landed
    <3>1. stream = "none"
      BY <2>1, <2>2 DEF LogInv, LogType, StreamKept
    <3>2. pendingStreamLines = <<>> /\ flying = 0
      BY <2>2, <3>1 DEF LogInv, LogType, StreamKept
    <3> QED BY <3>1, <3>2 DEF LogInv, StreamKept
  <2> HIDE DEF n
  <2>5. /\ took \in Seq(Nat) /\ rest \in Seq(Nat) /\ bytes + n \in Nat
        /\ Logger!ToSet(queuedLines) = Logger!ToSet(took) \cup Logger!ToSet(rest)
    BY <2>2, <2>3, LinesOfSplit
  <2> HIDE DEF took, rest, bytes
  <2>6. pendingStreamLines' = took /\ flying' = Len(took) /\ Len(took) \in 0 .. Len(took)
    BY <2>1, <2>4, <2>5
  <2>7. Logger!Safe' = Logger!Safe
    BY <2>1, SafeStays
  <2>8. LogType'
    BY <2>1, <2>2, <2>5, <2>6 DEF LogType
  <2>9. StreamKept' /\ Logger!NoneStuck'
    BY <2>1, <2>4 DEF StreamKept, Logger!NoneStuck
  <2>10. Logger!LinesKept' /\ Logger!FlushedIsSafe'
    <3>1. Logger!ToSet(pendingStreamLines) = {}
      BY <2>4 DEF Logger!ToSet
    <3>2. Logger!ToSet(queuedLines)
            = Logger!ToSet(pendingStreamLines') \cup Logger!ToSet(queuedLines')
      BY <2>1, <2>5, <2>6
    <3>3. 1 .. logged \subseteq Logger!Safe \cup Logger!ToSet(queuedLines)
      BY <3>1 DEF LogInv, Logger!LinesKept
    <3>4. 1 .. logged' \subseteq Logger!Safe' \cup Logger!ToSet(queuedLines')
                                 \cup Logger!ToSet(pendingStreamLines')
      BY <2>1, <2>7, <3>2, <3>3
    <3> QED BY <2>1, <2>7, <3>4 DEF LogInv, Logger!LinesKept, Logger!FlushedIsSafe, Logger!ToSet
  <2> QED BY <2>8, <2>9, <2>10 DEF LogInv
<1> QED BY <1>1, <1>2

(* flushLogsSync: what an open stream has accepted and what is queued is      *)
(* written or counted at once, whatever the stream was writing.               *)
LEMMA FlushKeeps == ASSUME LogInv, Logger!Flush PROVE LogInv'
<1> DEFINE inAir == IF stream = "open" /\ ~landed THEN SubSeq(pendingStreamLines, 1, flying) ELSE <<>>
           bytes == IF stream # "open" THEN logBytes
                    ELSE IF logBytes > Len(pendingStreamLines)
                         THEN logBytes - Len(pendingStreamLines) ELSE 0
<1>0. /\ LogType /\ disk \in [Logger!Backup -> Seq(Nat)] /\ 0 \in Logger!Backup
      /\ pendingStreamLines \in Seq(Nat) /\ queuedLines \in Seq(Nat) /\ <<>> \in Seq(Nat)
      /\ flying \in 0 .. Len(pendingStreamLines) /\ logBytes \in Nat /\ logged \in Nat
  BY JournalsAssumption DEF LogInv, LogType, Logger!Backup
<1>1. /\ logStreamUnavailable' = TRUE /\ logged' = logged /\ UNCHANGED <<ready, step>>
      /\ settled' = (IF stream = "ending" THEN settled ELSE logged)
      /\ IF stream = "open"
         THEN stream' = "none" /\ pendingStreamLines' = <<>> /\ flying' = 0 /\ landed' = FALSE
         ELSE UNCHANGED <<stream, pendingStreamLines, flying, landed>>
  BY DEF Logger!Flush, Logger!opening, Logger!streaming
<1>2. PICK before \in {<<>>, inAir}, after \in {<<>>, inAir} :
        Logger!Fallback([disk EXCEPT ![0] = @ \o before], Logger!AtHand, bytes, after)
  BY DEF Logger!Flush
<1>3. before \in Seq(Nat) /\ after \in Seq(Nat) /\ bytes \in Nat
  <2>1. SubSeq(pendingStreamLines, 1, flying) \in Seq(Nat)
    BY <1>0, LinesOfSplit
  <2>2. Len(pendingStreamLines) \in Nat
    BY <1>0
  <2>3. bytes \in Nat
    BY <1>0, <2>2
  <2>4. inAir \in Seq(Nat)
    BY <1>0, <2>1
  <2> HIDE DEF inAir, bytes
  <2> QED BY <1>0, <1>2, <2>3, <2>4
<1>4. /\ Logger!AtHand \in Seq(Nat)
      /\ Logger!ToSet(queuedLines) \subseteq Logger!ToSet(Logger!AtHand)
      /\ stream = "open" => Logger!ToSet(pendingStreamLines) \subseteq Logger!ToSet(Logger!AtHand)
  <2>1. pendingStreamLines \o queuedLines \in Seq(Nat)
    BY <1>0
  <2> QED BY <1>0, <2>1, LinesOfJoined DEF Logger!AtHand
<1> DEFINE d == [disk EXCEPT ![0] = @ \o before]
<1>5. /\ d \in [Logger!Backup -> Seq(Nat)]
      /\ \A i \in Logger!Backup : Logger!ToSet(disk[i]) \subseteq Logger!ToSet(d[i])
  <2> DEFINE whole == disk[0] \o before
  <2>1. whole \in Seq(Nat) /\ Logger!ToSet(disk[0]) \subseteq Logger!ToSet(whole)
        /\ d = [disk EXCEPT ![0] = whole]
    BY <1>0, <1>3, LinesOfJoined
  <2> HIDE DEF whole
  <2> QED BY <1>0, <2>1
<1> HIDE DEF inAir, bytes, d
<1>6. /\ disk' \in [Logger!Backup -> Seq(Nat)] /\ at' \in 0 .. Logger!Gone
      /\ logBytes' \in Nat /\ queuedLines' = <<>>
      /\ Logger!Safe \subseteq Logger!Safe' /\ Logger!ToSet(Logger!AtHand) \subseteq Logger!Safe'
  <2>1. Logger!Fallback(d, Logger!AtHand, bytes, after)
    BY <1>2 DEF d
  <2> QED BY <1>0, <1>3, <1>4, <1>5, <2>1, FallbackKeeps
<1>7. LogType'
  <2>1. 0 \in 0 .. Len(<<>>) /\ logged \in 0 .. logged
    BY <1>0
  <2>2. /\ pendingStreamLines' \in Seq(Nat) /\ flying' \in 0 .. Len(pendingStreamLines')
        /\ landed' \in BOOLEAN /\ settled' \in 0 .. logged'
        /\ stream' \in {"none", "open", "ending"}
    BY <1>0, <1>1, <2>1 DEF LogType
  <2> QED BY <1>0, <1>1, <1>6, <2>2 DEF LogType
<1>8. StreamKept' /\ Logger!NoneStuck'
  BY <1>1, <1>6 DEF LogInv, StreamKept, Logger!NoneStuck
<1>9. 1 .. logged \subseteq Logger!Safe' \cup Logger!ToSet(pendingStreamLines')
      /\ (stream # "ending" => 1 .. logged \subseteq Logger!Safe')
  <2>1. 1 .. logged \subseteq Logger!Safe' \cup Logger!ToSet(pendingStreamLines)
    BY <1>4, <1>6 DEF LogInv, Logger!LinesKept
  <2>2. CASE stream = "open"
    BY <1>4, <1>6, <2>1, <2>2
  <2>3. CASE stream # "open"
    <3>1. pendingStreamLines' = pendingStreamLines
      BY <1>1, <2>3
    <3>2. stream # "ending" => Logger!ToSet(pendingStreamLines) = {}
      BY <1>0, <2>3 DEF LogInv, LogType, StreamKept, Logger!ToSet
    <3> QED BY <2>1, <3>1, <3>2
  <2> QED BY <2>2, <2>3
<1>10. Logger!LinesKept' /\ Logger!FlushedIsSafe'
  BY <1>1, <1>6, <1>9 DEF LogInv, Logger!LinesKept, Logger!FlushedIsSafe, Logger!ToSet
<1> QED BY <1>7, <1>8, <1>10 DEF LogInv

LEMMA ReenableKeeps == ASSUME LogInv, Logger!Reenable PROVE LogInv'
<1>1. /\ UNCHANGED <<disk, at, retired, counted, stream, pendingStreamLines, flying, landed,
                     queuedLines, logBytes, step, logged, settled>>
      /\ logStreamUnavailable' \in {logStreamUnavailable, FALSE}
      /\ ready' = IF stream = "none" /\ ready = "none" /\ queuedLines # <<>> THEN "dir" ELSE ready
  BY DEF Logger!Reenable, Logger!files, Logger!streaming, Logger!counts
<1>2. Logger!Safe' = Logger!Safe
  BY <1>1, SafeStays
<1>3. LogType'
  BY <1>1 DEF LogInv, LogType
<1>4. StreamKept' /\ Logger!NoneStuck'
  BY <1>1, <1>2 DEF LogInv, StreamKept, Logger!NoneStuck
<1>5. Logger!LinesKept' /\ Logger!FlushedIsSafe'
  BY <1>1, <1>2 DEF LogInv, Logger!LinesKept, Logger!FlushedIsSafe, Logger!ToSet
<1> QED BY <1>3, <1>4, <1>5 DEF LogInv

LEMMA LoggerStep == ASSUME LogInv, Logger!Next PROVE LogInv'
<1>1. CASE Logger!OpenFails
  BY <1>1, BailingKeeps DEF Logger!OpenFails
<1> QED BY <1>1, LogKeeps, LandKeeps, CallbackKeeps, StreamFailsKeeps, StreamEndedKeeps, DirKeeps,
           StatKeeps, MoveKeeps, CreateKeeps, FlushKeeps, ReenableKeeps DEF Logger!Next

LEMMA LogIdle == ASSUME LogInv, UNCHANGED logVars PROVE LogInv'
<1>1. Logger!Safe' = Logger!Safe
  BY SafeStays DEF logVars
<1>2. LogType' /\ StreamKept'
  BY <1>1 DEF LogInv, LogType, StreamKept, logVars
<1>3. Logger!LinesKept' /\ Logger!FlushedIsSafe' /\ Logger!NoneStuck'
  BY <1>1 DEF LogInv, Logger!LinesKept, Logger!FlushedIsSafe, Logger!NoneStuck, Logger!ToSet, logVars
<1> QED BY <1>2, <1>3 DEF LogInv

----------------------------------------------------------------------------
(* The order of the lines.  Joined sequences admit a line that both admit, or *)
(* that the first has.                                                        *)
LEMMA AdmitsJoined ==
  ASSUME NEW s \in Seq(Nat), NEW t \in Seq(Nat), NEW v \in Nat, Admits(s, v),
         v \in Logger!ToSet(s) \/ Admits(t, v)
  PROVE  Admits(s \o t, v)
<1> DEFINE a == s \o t
<1>1. /\ a \in Seq(Nat) /\ Len(a) = Len(s) + Len(t) /\ Len(s) \in Nat /\ Len(t) \in Nat
      /\ DOMAIN a = 1 .. Len(a) /\ DOMAIN s = 1 .. Len(s) /\ DOMAIN t = 1 .. Len(t)
      /\ \A i \in 1 .. Len(s) : a[i] = s[i]
  OBVIOUS
<1>2. \A i \in 1 .. Len(a) : i > Len(s) => a[i] = t[i - Len(s)]
  OBVIOUS
<1> HIDE DEF a
<1>3. SUFFICES ASSUME NEW i \in 1 .. Len(a), a[i] > v PROVE \E h \in 1 .. i - 1 : a[h] = v
  BY <1>1 DEF Admits, a
<1>4. CASE i <= Len(s)
  <2>1. i \in 1 .. Len(s) /\ s[i] > v
    BY <1>1, <1>3, <1>4
  <2>2. PICK h \in 1 .. i - 1 : s[h] = v
    BY <1>1, <2>1 DEF Admits
  <2>3. h \in 1 .. Len(s)
    BY <1>1, <2>1
  <2> QED BY <1>1, <2>2, <2>3
<1>5. CASE i > Len(s) /\ v \in Logger!ToSet(s)
  <2>1. PICK h \in 1 .. Len(s) : s[h] = v
    BY <1>1, <1>5 DEF Logger!ToSet
  <2>2. h \in 1 .. i - 1
    BY <1>1, <1>5
  <2> QED BY <1>1, <2>1, <2>2
<1>6. CASE i > Len(s) /\ Admits(t, v)
  <2> DEFINE j == i - Len(s)
  <2>1. j \in 1 .. Len(t) /\ a[i] = t[j]
    BY <1>1, <1>2, <1>6
  <2>2. PICK h \in 1 .. j - 1 : t[h] = v
    BY <1>1, <1>3, <1>6, <2>1 DEF Admits
  <2>3. Len(s) + h \in 1 .. i - 1 /\ Len(s) + h \in 1 .. Len(a) /\ Len(s) + h > Len(s)
        /\ (Len(s) + h) - Len(s) = h
    BY <1>1, <2>1
  <2>4. a[Len(s) + h] = t[h]
    BY <1>2, <2>3
  <2> QED BY <2>2, <2>3, <2>4
<1> QED BY <1>1, <1>4, <1>5, <1>6

LEMMA AdmitsNewer ==
  ASSUME NEW s \in Seq(Nat), NEW v \in Nat, \A x \in Logger!ToSet(s) : x <= v
  PROVE  Admits(s, v)
<1>1. \A i \in DOMAIN s : s[i] \in Logger!ToSet(s) /\ s[i] \in Nat
  BY DEF Logger!ToSet
<1> QED BY <1>1 DEF Admits

LEMMA OrderedJoined ==
  ASSUME NEW s \in Seq(Nat), NEW t \in Seq(Nat), Ordered(s), Ordered(t),
         \A v \in Logger!ToSet(t) : Admits(s, v)
  PROVE  Ordered(s \o t)
<1>1. \A v \in Logger!ToSet(s) \cup Logger!ToSet(t) : v \in Nat
  BY DEF Logger!ToSet
<1>2. Logger!ToSet(s \o t) = Logger!ToSet(s) \cup Logger!ToSet(t)
  BY LinesOfJoined
<1>3. ASSUME NEW v \in Logger!ToSet(s) PROVE Admits(s \o t, v)
  BY <1>1, <1>3, AdmitsJoined DEF Ordered
<1>4. ASSUME NEW v \in Logger!ToSet(t) PROVE Admits(s \o t, v)
  BY <1>1, <1>4, AdmitsJoined DEF Ordered
<1> QED BY <1>2, <1>3, <1>4 DEF Ordered

LEMMA IncreasingIsOrdered ==
  ASSUME NEW s \in Seq(Nat), Increasing(s)
  PROVE  Ordered(s)
<1> SUFFICES ASSUME NEW k \in 1 .. Len(s), NEW i \in 1 .. Len(s), s[i] > s[k]
             PROVE  \E h \in 1 .. i - 1 : s[h] = s[k]
  BY DEF Ordered, Admits, Logger!ToSet
<1>1. s[i] \in Nat /\ s[k] \in Nat /\ Len(s) \in Nat
  OBVIOUS
<1>2. ~(i < k) /\ i # k
  BY <1>1 DEF Increasing
<1>3. k \in 1 .. i - 1
  BY <1>1, <1>2
<1> QED BY <1>3

LEMMA IncreasingSplit ==
  ASSUME NEW s \in Seq(Nat), Increasing(s), NEW n \in 0 .. Len(s)
  PROVE  /\ Increasing(SubSeq(s, 1, n)) /\ Increasing(SubSeq(s, n + 1, Len(s)))
         /\ AllBelow(Logger!ToSet(SubSeq(s, 1, n)), Logger!ToSet(SubSeq(s, n + 1, Len(s))))
<1> DEFINE a == SubSeq(s, 1, n)
           b == SubSeq(s, n + 1, Len(s))
<1>1. a \in Seq(Nat) /\ Len(a) = n /\ DOMAIN a = 1 .. n /\ \A i \in 1 .. n : a[i] = s[i]
  OBVIOUS
<1>2. b \in Seq(Nat) /\ Len(b) = Len(s) - n /\ DOMAIN b = 1 .. Len(s) - n
      /\ \A i \in 1 .. Len(s) - n : b[i] = s[n + i]
  BY SMTT(20)
<1>3. Len(s) \in Nat /\ n \in Nat /\ n <= Len(s)
  OBVIOUS
<1> HIDE DEF a, b
<1>4. \A i, j \in 1 .. Len(s) : i < j => s[i] < s[j]
  BY DEF Increasing
<1>5. Increasing(a)
  <2> SUFFICES ASSUME NEW i \in 1 .. n, NEW j \in 1 .. n, i < j PROVE a[i] < a[j]
    BY <1>1 DEF Increasing
  <2>1. i \in 1 .. Len(s) /\ j \in 1 .. Len(s)
    BY <1>3
  <2> QED BY <1>1, <1>4, <2>1
<1>6. Increasing(b)
  <2> SUFFICES ASSUME NEW i \in 1 .. Len(s) - n, NEW j \in 1 .. Len(s) - n, i < j
               PROVE  b[i] < b[j]
    BY <1>2 DEF Increasing
  <2>1. n + i \in 1 .. Len(s) /\ n + j \in 1 .. Len(s) /\ n + i < n + j
    BY <1>2, <1>3
  <2> QED BY <1>2, <1>4, <2>1
<1>7. AllBelow(Logger!ToSet(a), Logger!ToSet(b))
  <2> SUFFICES ASSUME NEW i \in 1 .. n, NEW j \in 1 .. Len(s) - n PROVE a[i] < b[j]
    BY <1>1, <1>2 DEF AllBelow, Logger!ToSet
  <2>1. i \in 1 .. Len(s) /\ n + j \in 1 .. Len(s) /\ i < n + j
    BY <1>3
  <2> QED BY <1>1, <1>2, <1>4, <2>1
<1> QED BY <1>5, <1>6, <1>7 DEF a, b

LEMMA IncreasingJoined ==
  ASSUME NEW s \in Seq(Nat), NEW t \in Seq(Nat), Increasing(s), Increasing(t),
         AllBelow(Logger!ToSet(s), Logger!ToSet(t))
  PROVE  Increasing(s \o t)
<1> DEFINE a == s \o t
<1>1. /\ Len(a) = Len(s) + Len(t) /\ Len(s) \in Nat /\ Len(t) \in Nat
      /\ DOMAIN a = 1 .. Len(a) /\ DOMAIN s = 1 .. Len(s) /\ DOMAIN t = 1 .. Len(t)
      /\ \A i \in 1 .. Len(s) : a[i] = s[i]
  OBVIOUS
<1>2. \A i \in 1 .. Len(a) : i > Len(s) => a[i] = t[i - Len(s)] /\ i - Len(s) \in 1 .. Len(t)
  OBVIOUS
<1> HIDE DEF a
<1>3. SUFFICES ASSUME NEW i \in 1 .. Len(a), NEW j \in 1 .. Len(a), i < j PROVE a[i] < a[j]
  BY <1>1 DEF Increasing, a
<1>4. CASE j <= Len(s)
  <2>1. i \in 1 .. Len(s) /\ j \in 1 .. Len(s)
    BY <1>1, <1>3, <1>4
  <2> QED BY <1>1, <1>3, <2>1 DEF Increasing
<1>5. CASE i > Len(s)
  <2>1. j > Len(s) /\ i - Len(s) < j - Len(s)
    BY <1>1, <1>3, <1>5
  <2> QED BY <1>1, <1>2, <1>3, <1>5, <2>1 DEF Increasing
<1>6. CASE i <= Len(s) /\ j > Len(s)
  <2>1. a[i] = s[i] /\ i \in 1 .. Len(s) /\ a[j] = t[j - Len(s)] /\ j - Len(s) \in 1 .. Len(t)
    BY <1>1, <1>2, <1>6
  <2>2. a[i] \in Logger!ToSet(s) /\ a[j] \in Logger!ToSet(t)
    BY <1>1, <2>1 DEF Logger!ToSet
  <2> QED BY <2>2 DEF AllBelow
<1> QED BY <1>1, <1>4, <1>5, <1>6

(* The files stay in order when they are rotated, and when lines that the     *)
(* last one admits and that are newer than the others are added.              *)
LEMMA RotatedInOrder ==
  ASSUME NEW d, InOrder(d)
  PROVE  InOrder(Logger!RotatedSync(d))
<1> DEFINE r == Logger!RotatedSync(d)
<1>1. LOG_BACKUP_COUNT \in Nat /\ \A f \in Logger!Backup : f \in Nat /\ (f # 0 => f - 1 \in Logger!Backup)
  BY JournalsAssumption DEF Logger!Backup
<1>2. \A f \in Logger!Backup : r[f] = IF f = 0 THEN <<>> ELSE d[f - 1]
  BY DEF Logger!RotatedSync
<1>3. Ordered(<<>>) /\ Logger!ToSet(<<>>) = {}
  BY DEF Ordered, Logger!ToSet
<1> HIDE DEF r
<1>4. \A f \in Logger!Backup : Ordered(r[f])
  BY <1>1, <1>2, <1>3 DEF InOrder
<1>5. ASSUME NEW f \in Logger!Backup, NEW g \in Logger!Backup, f > g
      PROVE  NoneAbove(Logger!ToSet(r[f]), Logger!ToSet(r[g]))
  <2>1. CASE g = 0
    BY <1>2, <1>3, <2>1 DEF NoneAbove
  <2>2. CASE g # 0
    <3>1. f - 1 \in Logger!Backup /\ g - 1 \in Logger!Backup /\ f - 1 > g - 1 /\ f # 0
      BY <1>1, <1>5, <2>2
    <3> QED BY <1>2, <2>2, <3>1 DEF InOrder
  <2> QED BY <2>1, <2>2
<1> QED BY <1>4, <1>5 DEF InOrder, r

LEMMA AddedInOrder ==
  ASSUME NEW d \in [Logger!Backup -> Seq(Nat)], InOrder(d), NEW lines \in Seq(Nat), Ordered(lines),
         \A v \in Logger!ToSet(lines) : Admits(d[0], v),
         \A f \in Logger!Backup : f # 0 => NoneAbove(Logger!ToSet(d[f]), Logger!ToSet(lines)),
         NEW e, e = [d EXCEPT ![0] = @ \o lines]
  PROVE  /\ e \in [Logger!Backup -> Seq(Nat)] /\ InOrder(e) /\ Held(e) = Held(d) \cup Logger!ToSet(lines)
         /\ e[0] = d[0] \o lines /\ \A f \in Logger!Backup : f # 0 => e[f] = d[f]
<1> DEFINE whole == d[0] \o lines
<1>1. 0 \in Logger!Backup /\ \A f \in Logger!Backup : f \in Nat
  BY JournalsAssumption DEF Logger!Backup
<1>2. whole \in Seq(Nat) /\ d[0] \in Seq(Nat) /\ e = [d EXCEPT ![0] = whole]
  BY <1>1
<1>3. /\ Ordered(whole)
      /\ Logger!ToSet(whole) = Logger!ToSet(d[0]) \cup Logger!ToSet(lines)
  BY <1>1, <1>2, OrderedJoined, LinesOfJoined DEF InOrder
<1> HIDE DEF whole
<1>4. /\ e \in [Logger!Backup -> Seq(Nat)] /\ e[0] = whole
      /\ \A f \in Logger!Backup : f # 0 => e[f] = d[f]
  BY <1>1, <1>2
<1>5. \A f \in Logger!Backup : Ordered(e[f])
  BY <1>3, <1>4 DEF InOrder
<1>6. ASSUME NEW f \in Logger!Backup, NEW g \in Logger!Backup, f > g
      PROVE  NoneAbove(Logger!ToSet(e[f]), Logger!ToSet(e[g]))
  <2>1. e[f] = d[f] /\ f # 0
    BY <1>1, <1>4, <1>6
  <2>2. NoneAbove(Logger!ToSet(d[f]), Logger!ToSet(d[g]))
    BY <1>6 DEF InOrder
  <2>3. CASE g = 0
    BY <1>3, <1>4, <2>1, <2>2, <2>3 DEF NoneAbove
  <2>4. CASE g # 0
    BY <1>4, <2>1, <2>2, <2>4
  <2> QED BY <2>3, <2>4
<1>7. Held(e) = Held(d) \cup Logger!ToSet(lines)
  <2>1. \A f \in Logger!Backup : Logger!ToSet(e[f])
          = IF f = 0 THEN Logger!ToSet(d[0]) \cup Logger!ToSet(lines) ELSE Logger!ToSet(d[f])
    BY <1>3, <1>4
  <2>2. \A E : (\E f \in Logger!Backup : E \in Logger!ToSet(e[f]))
               <=> (\E f \in Logger!Backup : E \in Logger!ToSet(d[f])) \/ E \in Logger!ToSet(lines)
    BY <1>1, <2>1
  <2> QED BY <2>2 DEF Held
<1> QED BY <1>4, <1>5, <1>6, <1>7 DEF InOrder, whole

(* The synchronous path writes newer lines, or lines that the log admits, and *)
(* rotates only behind older ones.                                            *)
LEMMA FallbackOrders ==
  ASSUME LogInv, LogInv', stream' = "none", FilesInOrder, logged' >= logged,
         ready' = "move" => ready = "move" /\ step' = step,
         NEW d \in [Logger!Backup -> Seq(Nat)], NEW lines \in Seq(Nat), NEW bytes \in Nat,
         NEW late \in Seq(Nat), Logger!Fallback(d, lines, bytes, late),
         InOrder(d), \A f \in Logger!Backup : f # 0 => d[f] = disk[f],
         NEW all \in Seq(Nat), all = lines \o late, Ordered(lines), Ordered(all),
         Logger!ToSet(all) \subseteq 0 .. logged', Held(d) \subseteq Held(disk) \cup Logger!ToSet(all),
         \A v \in Logger!ToSet(all) : Admits(d[0], v),
         \A f \in Logger!Backup : f # 0 => NoneAbove(Logger!ToSet(disk[f]), Logger!ToSet(all)),
         raced \/ NoneAbove(retired, Logger!ToSet(all)),
         Logger!RotatesSync(d, lines, bytes) => NoneAbove(Logger!ToSet(d[0]), Logger!ToSet(all))
  PROVE  OrderInv'
<1> DEFINE rotates == Logger!RotatesSync(d, lines, bytes)
           base == IF rotates THEN Logger!RotatedSync(d) ELSE d
           last == IF rotates THEN Logger!ToSet(d[LOG_BACKUP_COUNT]) ELSE {}
<1>0. /\ LOG_BACKUP_COUNT \in Nat \ {0} /\ 0 \in Logger!Backup /\ LOG_BACKUP_COUNT \in Logger!Backup
      /\ \A f \in Logger!Backup : f \in Nat /\ f <= LOG_BACKUP_COUNT /\ (f # 0 => f - 1 \in Logger!Backup)
  BY JournalsAssumption DEF Logger!Backup
<1>1. /\ queuedLines' = <<>> /\ retired' = retired \cup last
      /\ raced' = (raced \/ (rotates /\ ready = "move"))
      /\ (disk' = [base EXCEPT ![0] = @ \o lines \o late] \/ disk' = base)
  BY DEF Logger!Fallback
<1>2. pendingStreamLines' = <<>> /\ ~landed' /\ Logger!ToSet(pendingStreamLines') = {}
      /\ Logger!ToSet(queuedLines') = {} /\ logged' \in Nat /\ logged \in Nat
  BY <1>1 DEF LogInv, LogType, StreamKept, Logger!ToSet
<1>3. StreamInOrder'
  BY <1>1, <1>2 DEF StreamInOrder, Increasing, AllBelow
<1>4. base \in [Logger!Backup -> Seq(Nat)] /\ InOrder(base)
  <2>1. \A f \in Logger!Backup : f # 0 => d[f - 1] \in Seq(Nat)
    BY <1>0
  <2>2. Logger!RotatedSync(d) \in [Logger!Backup -> Seq(Nat)]
    BY <2>1 DEF Logger!RotatedSync
  <2> QED BY <2>2, RotatedInOrder
<1>5. /\ \A v \in Logger!ToSet(all) : Admits(base[0], v)
      /\ \A f \in Logger!Backup : f # 0 => NoneAbove(Logger!ToSet(base[f]), Logger!ToSet(all))
  <2>1. CASE ~rotates
    BY <2>1
  <2>2. CASE rotates
    <3>1. \A f \in Logger!Backup : base[f] = IF f = 0 THEN <<>> ELSE d[f - 1]
      BY <2>2 DEF Logger!RotatedSync
    <3>2. \A v : Admits(<<>>, v)
      BY DEF Admits
    <3>3. NoneAbove(Logger!ToSet(d[0]), Logger!ToSet(all))
      BY <2>2
    <3>4. \A f \in Logger!Backup : NoneAbove(Logger!ToSet(d[f]), Logger!ToSet(all))
      BY <3>3
    <3> HIDE DEF base
    <3> QED BY <1>0, <3>1, <3>2, <3>4
  <2> QED BY <2>1, <2>2
<1>6. Held(base) \cup last = Held(d)
  <2>1. CASE ~rotates
    BY <2>1
  <2>2. CASE rotates
    <3>1. \A f \in Logger!Backup : base[f] = IF f = 0 THEN <<>> ELSE d[f - 1]
      BY <2>2 DEF Logger!RotatedSync
    <3>2. Logger!ToSet(<<>>) = {} /\ last = Logger!ToSet(d[LOG_BACKUP_COUNT])
      BY <2>2 DEF Logger!ToSet
    <3> HIDE DEF base, last
    <3>3. ASSUME NEW x \in Held(base) PROVE x \in Held(d)
      <4>1. PICK f \in Logger!Backup : x \in Logger!ToSet(base[f])
        BY <3>3 DEF Held
      <4>2. f # 0 /\ x \in Logger!ToSet(d[f - 1])
        BY <3>1, <3>2, <4>1
      <4> QED BY <1>0, <4>2 DEF Held
    <3>4. last \subseteq Held(d)
      BY <1>0, <3>2 DEF Held
    <3>5. ASSUME NEW x \in Held(d) PROVE x \in Held(base) \cup last
      <4>1. PICK f \in Logger!Backup : x \in Logger!ToSet(d[f])
        BY <3>5 DEF Held
      <4>2. CASE f = LOG_BACKUP_COUNT
        BY <3>2, <4>1, <4>2
      <4>3. CASE f # LOG_BACKUP_COUNT
        <5>1. f + 1 \in Logger!Backup /\ f + 1 # 0 /\ (f + 1) - 1 = f
          BY <1>0, <4>3 DEF Logger!Backup
        <5>2. base[f + 1] = d[f]
          BY <3>1, <5>1
        <5>3. x \in Logger!ToSet(base[f + 1])
          BY <4>1, <5>2
        <5> QED BY <5>1, <5>3 DEF Held
      <4> QED BY <4>2, <4>3
    <3> QED BY <3>3, <3>4, <3>5
  <2> QED BY <2>1, <2>2
<1>7. NoneAbove(last, Held(base))
  <2>1. CASE ~rotates
    BY <2>1 DEF NoneAbove
  <2>2. CASE rotates
    <3>1. \A f \in Logger!Backup : base[f] = IF f = 0 THEN <<>> ELSE d[f - 1]
      BY <2>2 DEF Logger!RotatedSync
    <3>2. Logger!ToSet(<<>>) = {} /\ last = Logger!ToSet(d[LOG_BACKUP_COUNT])
      BY <2>2 DEF Logger!ToSet
    <3> HIDE DEF base, last
    <3> SUFFICES ASSUME NEW x \in last, NEW y \in Held(base) PROVE x <= y
      BY DEF NoneAbove
    <3>3. PICK f \in Logger!Backup : y \in Logger!ToSet(base[f])
      BY DEF Held
    <3>4. f # 0 /\ f - 1 \in Logger!Backup /\ LOG_BACKUP_COUNT > f - 1 /\ y \in Logger!ToSet(d[f - 1])
      BY <1>0, <3>1, <3>2, <3>3
    <3> QED BY <1>0, <3>2, <3>4 DEF InOrder, NoneAbove
  <2> QED BY <2>1, <2>2
<1>8. ~(raced \/ (rotates /\ ready = "move")) /\ ready' = "move" => base[step'] = disk[step]
  <2> SUFFICES ASSUME ~raced, ~rotates, ready = "move", step' = step PROVE base[step'] = disk[step]
    OBVIOUS
  <2>1. step \in Logger!Backup /\ step # 0
    BY DEF LogInv, LogType, Logger!Backup
  <2> QED BY <2>1
<1>9. last \subseteq Held(d)
  BY <1>6
<1> HIDE DEF rotates, base, last
<1>10. /\ disk' \in [Logger!Backup -> Seq(Nat)] /\ InOrder(disk')
       /\ Held(disk') \subseteq Held(base) \cup Logger!ToSet(all)
       /\ \A f \in Logger!Backup : f # 0 => disk'[f] = base[f]
  <2>1. CASE disk' = base
    BY <1>4, <2>1
  <2>2. CASE disk' = [base EXCEPT ![0] = @ \o lines \o late]
    <3>1. base[0] \in Seq(Nat)
      BY <1>0, <1>4
    <3>2. (base[0] \o lines) \o late = base[0] \o all
      <4>1. \A s \in Seq(Nat) : (s \o lines) \o late = s \o (lines \o late)
        BY ConcatAssociative
      <4> QED BY <3>1, <4>1
    <3>3. disk' = [base EXCEPT ![0] = @ \o all]
      BY <1>0, <1>4, <2>2, <3>2
    <3>4. ASSUME NEW e, e = [base EXCEPT ![0] = @ \o all]
          PROVE  /\ e \in [Logger!Backup -> Seq(Nat)] /\ InOrder(e)
                 /\ Held(e) = Held(base) \cup Logger!ToSet(all)
                 /\ \A f \in Logger!Backup : f # 0 => e[f] = base[f]
      BY <1>4, <1>5, <3>4, AddedInOrder
    <3> QED BY <3>3, <3>4
  <2> QED BY <1>1, <2>1, <2>2
<1>11. Held(disk') \cup retired' \subseteq 0 .. logged'
  <2>1. Held(disk) \cup retired \subseteq 0 .. logged'
    BY <1>2 DEF FilesInOrder
  <2> QED BY <1>1, <1>6, <1>10, <2>1
<1>12. Written' = {} /\ Unwritten' = {} /\ (Held(disk)' = Held(disk'))
  BY <1>2 DEF Written, Unwritten, Held, Logger!ToSet
<1>13. raced' \/ NoneAbove(retired', Held(disk'))
  <2> SUFFICES ASSUME ~raced', NEW x \in retired', NEW y \in Held(disk') PROVE x <= y
    BY DEF NoneAbove
  <2>1. ~raced /\ NoneAbove(retired, Held(disk)) /\ NoneAbove(retired, Logger!ToSet(all))
    BY <1>1 DEF FilesInOrder
  <2>2. y \in Held(base) \/ y \in Logger!ToSet(all)
    BY <1>10
  <2>3. CASE x \in retired
    BY <1>6, <2>1, <2>2, <2>3 DEF NoneAbove
  <2>4. CASE x \in last
    <3>1. CASE y \in Held(base)
      BY <1>7, <2>4, <3>1 DEF NoneAbove
    <3>2. CASE y \in Logger!ToSet(all)
      <4>1. LOG_BACKUP_COUNT # 0 /\ x \in Logger!ToSet(disk[LOG_BACKUP_COUNT])
        BY <1>0, <2>4 DEF last
      <4> QED BY <1>0, <3>2, <4>1 DEF NoneAbove
    <3> QED BY <2>2, <3>1, <3>2
  <2> QED BY <1>1, <2>3, <2>4
<1>14. raced' \/ (ready' = "move" /\ step' # LOG_BACKUP_COUNT => disk'[step'] = <<>>)
  <2> SUFFICES ASSUME ~raced', ready' = "move", step' # LOG_BACKUP_COUNT PROVE disk'[step'] = <<>>
    OBVIOUS
  <2>1. step' \in Logger!Backup /\ step' # 0 /\ step' = step /\ ready = "move"
    BY DEF LogInv, LogType, Logger!Backup
  <2>2. ~raced /\ disk[step] = <<>>
    BY <1>1, <2>1 DEF FilesInOrder
  <2> QED BY <1>1, <1>8, <1>10, <2>1, <2>2
<1>15. FilesInOrder'
  <2>1. InOrder(disk)'
    BY <1>10 DEF InOrder, Ordered, Admits, NoneAbove, Logger!ToSet
  <2>2. AllBelow(Held(disk) \cup retired, Logger!ToSet(queuedLines) \cup Unwritten)'
    BY <1>2, <1>12 DEF AllBelow
  <2>3. (raced \/ NoneAbove(retired, Held(disk)))'
    BY <1>12, <1>13 DEF NoneAbove
  <2>4. (Written \subseteq Logger!ToSet(disk[0]))'
    BY <1>12
  <2> QED BY <1>11, <1>12, <1>14, <2>1, <2>2, <2>3, <2>4 DEF FilesInOrder
<1> QED BY <1>3, <1>15 DEF OrderInv

(* Nothing is written, and the stream is as it was.                           *)
LEMMA OrderUntouched ==
  ASSUME LogInv, OrderInv,
         UNCHANGED <<disk, retired, raced, early, at, stream, pendingStreamLines, flying, landed,
                     queuedLines, logBytes, logged>>,
         stream # "none" => ~logStreamUnavailable',
         ready' = "move" => (ready = "move" /\ step' = step) \/ step' = LOG_BACKUP_COUNT
  PROVE  OrderInv'
<1>1. StreamInOrder => StreamInOrder'
  BY DEF StreamInOrder, Increasing, AllBelow, Logger!ToSet
<1>2. FilesInOrder => FilesInOrder'
  <2> SUFFICES ASSUME FilesInOrder PROVE FilesInOrder'
    OBVIOUS
  <2>1. InOrder(disk)' /\ Held(disk)' = Held(disk)
    BY DEF FilesInOrder, InOrder, Ordered, Admits, NoneAbove, Logger!ToSet, Held
  <2>2. Written' = Written /\ Unwritten' = Unwritten /\ Logger!ToSet(queuedLines)' = Logger!ToSet(queuedLines)
        /\ Logger!ToSet(disk[0])' = Logger!ToSet(disk[0])
    BY DEF Written, Unwritten, Logger!ToSet
  <2>3. AllBelow(Held(disk) \cup retired, Logger!ToSet(queuedLines) \cup Unwritten)'
    BY <2>1, <2>2 DEF FilesInOrder, AllBelow
  <2>4. (raced \/ NoneAbove(retired, Held(disk)))'
    BY <2>1 DEF FilesInOrder, NoneAbove
  <2>5. (raced \/ (ready = "move" /\ step # LOG_BACKUP_COUNT => disk[step] = <<>>))'
    BY DEF FilesInOrder
  <2> QED BY <2>1, <2>2, <2>3, <2>4, <2>5 DEF FilesInOrder
<1> QED BY <1>1, <1>2 DEF OrderInv

LEMMA LinesAreNumbers == ASSUME NEW s \in Seq(Nat) PROVE Logger!ToSet(s) \subseteq Nat
BY DEF Logger!ToSet

LEMMA BelowIsNotAbove ==
  ASSUME NEW A, NEW B, A \subseteq Nat, B \subseteq Nat, AllBelow(A, B)
  PROVE  NoneAbove(A, B)
<1> SUFFICES ASSUME NEW x \in A, NEW y \in B PROVE x <= y
  BY DEF NoneAbove
<1>1. x \in Nat /\ y \in Nat /\ x < y
  BY DEF AllBelow
<1> QED BY <1>1

LEMMA NewestJoined ==
  ASSUME NEW s \in Seq(Nat), NEW n \in Nat, Increasing(s), AllBelow(Logger!ToSet(s), {n})
  PROVE  /\ Append(s, n) = s \o <<n>> /\ s \o <<n>> \in Seq(Nat) /\ Increasing(s \o <<n>>)
         /\ Logger!ToSet(s \o <<n>>) = Logger!ToSet(s) \cup {n}
<1> DEFINE t == <<n>>
<1>1. t \in Seq(Nat) /\ Increasing(t) /\ Logger!ToSet(t) = {n} /\ Append(s, n) = s \o t
  BY DEF Increasing, Logger!ToSet
<1> HIDE DEF t
<1>2. s \o t \in Seq(Nat) /\ Increasing(s \o t)
  <2>1. AllBelow(Logger!ToSet(s), Logger!ToSet(t))
    BY <1>1
  <2>2. Increasing(s \o t)
    BY <1>1, <2>1, IncreasingJoined
  <2>3. s \o t \in Seq(Nat)
    BY <1>1
  <2> QED BY <2>2, <2>3
<1>3. Logger!ToSet(s \o t) = Logger!ToSet(s) \cup {n}
  BY <1>1, LinesOfJoined
<1> QED BY <1>1, <1>2, <1>3 DEF t

LEMMA NewerFallback ==
  ASSUME LogInv, LogInv', stream' = "none", FilesInOrder, logged' >= logged,
         ready' = "move" => ready = "move" /\ step' = step,
         NEW lines \in Seq(Nat), NEW bytes \in Nat, Logger!Fallback(disk, lines, bytes, <<>>),
         Increasing(lines), Logger!ToSet(lines) \subseteq 0 .. logged',
         AllBelow(Held(disk) \cup retired, Logger!ToSet(lines))
  PROVE  OrderInv'
<1>1. /\ disk \in [Logger!Backup -> Seq(Nat)] /\ 0 \in Logger!Backup /\ <<>> \in Seq(Nat)
      /\ Logger!ToSet(lines) \subseteq Nat
  <2>1. disk \in [Logger!Backup -> Seq(Nat)] /\ 0 \in Logger!Backup
    BY JournalsAssumption DEF LogInv, LogType, Logger!Backup
  <2>2. Logger!ToSet(lines) \subseteq Nat
    BY LinesAreNumbers
  <2> QED BY <2>1, <2>2
<1>2. lines = lines \o <<>>
  OBVIOUS
<1>3. Ordered(lines)
  BY IncreasingIsOrdered
<1>4. \A f \in Logger!Backup : Logger!ToSet(disk[f]) \subseteq Held(disk) /\ Logger!ToSet(disk[f]) \subseteq Nat
  BY <1>1, LinesAreNumbers DEF Held
<1>5. retired \subseteq Nat
  BY DEF FilesInOrder
<1>6. NoneAbove(Held(disk) \cup retired, Logger!ToSet(lines))
  <2>1. Held(disk) \subseteq Nat
    BY <1>4 DEF Held
  <2> QED BY <1>1, <1>5, <2>1, BelowIsNotAbove
<1>7. \A v \in Logger!ToSet(lines) : Admits(disk[0], v)
  <2> TAKE v \in Logger!ToSet(lines)
  <2>1. disk[0] \in Seq(Nat) /\ v \in Nat /\ \A x \in Logger!ToSet(disk[0]) : x <= v
    BY <1>1, <1>4, <1>6 DEF NoneAbove
  <2> QED BY <2>1, AdmitsNewer
<1>8. /\ \A f \in Logger!Backup : NoneAbove(Logger!ToSet(disk[f]), Logger!ToSet(lines))
      /\ NoneAbove(retired, Logger!ToSet(lines))
  BY <1>4, <1>6 DEF NoneAbove
<1>9. InOrder(disk)
  BY DEF FilesInOrder
<1>10. NoneAbove(Logger!ToSet(disk[0]), Logger!ToSet(lines))
  BY <1>1, <1>8
<1>11. ASSUME NEW late, late = <<>>, NEW all, all = lines PROVE OrderInv'
  <2>1. late \in Seq(Nat) /\ Logger!Fallback(disk, lines, bytes, late) /\ all = lines \o late
        /\ all \in Seq(Nat)
    BY <1>1, <1>2, <1>11
  <2>2. Ordered(all) /\ Logger!ToSet(all) = Logger!ToSet(lines)
    BY <1>3, <1>11
  <2>3. Held(disk) \subseteq Held(disk) \cup Logger!ToSet(all)
    OBVIOUS
  <2> QED BY <1>1, <1>3, <1>7, <1>8, <1>9, <1>10, <2>1, <2>2, <2>3, FallbackOrders
<1> QED BY <1>11

(* The files are as they were, and what waits is newer.                       *)
LEMMA FilesUnmoved ==
  ASSUME FilesInOrder, UNCHANGED <<disk, retired, raced>>, logged \in Nat, logged' \in Nat,
         logged' >= logged, Written' \subseteq Written,
         AllBelow(Held(disk) \cup retired, Logger!ToSet(queuedLines') \cup Unwritten'),
         ready' = "move" => (ready = "move" /\ step' = step) \/ step' = LOG_BACKUP_COUNT
  PROVE  FilesInOrder'
<1>1. InOrder(disk)' /\ Held(disk)' = Held(disk)
  BY DEF FilesInOrder, InOrder, Ordered, Admits, NoneAbove, Logger!ToSet, Held
<1>2. Logger!ToSet(disk[0])' = Logger!ToSet(disk[0]) /\ Logger!ToSet(queuedLines)' = Logger!ToSet(queuedLines')
  BY DEF Logger!ToSet
<1>3. AllBelow(Held(disk) \cup retired, Logger!ToSet(queuedLines) \cup Unwritten)'
  BY <1>1, <1>2 DEF AllBelow
<1>4. (raced \/ NoneAbove(retired, Held(disk)))'
  BY <1>1 DEF FilesInOrder, NoneAbove
<1>5. (raced \/ (ready = "move" /\ step # LOG_BACKUP_COUNT => disk[step] = <<>>))'
  BY DEF FilesInOrder
<1>6. (Held(disk) \cup retired)' \subseteq 0 .. logged'
  BY <1>1 DEF FilesInOrder
<1>7. (Written \subseteq Logger!ToSet(disk[0]))'
  BY <1>2 DEF FilesInOrder
<1> QED BY <1>1, <1>3, <1>4, <1>5, <1>6, <1>7 DEF FilesInOrder

(* Newer lines are added to the log.                                          *)
LEMMA NewerWritten ==
  ASSUME LogType, FilesInOrder, NEW lines \in Seq(Nat), Increasing(lines),
         AllBelow(Held(disk) \cup retired, Logger!ToSet(lines)),
         NEW e, e = [disk EXCEPT ![0] = @ \o lines]
  PROVE  /\ e \in [Logger!Backup -> Seq(Nat)] /\ InOrder(e) /\ Held(e) = Held(disk) \cup Logger!ToSet(lines)
         /\ raced \/ NoneAbove(retired, Held(e))
         /\ e[0] = disk[0] \o lines /\ Logger!ToSet(e[0]) = Logger!ToSet(disk[0]) \cup Logger!ToSet(lines)
         /\ \A f \in Logger!Backup : f # 0 => e[f] = disk[f]
<1>0. logged \in Nat /\ Held(disk) \cup retired \subseteq 0 .. logged
  BY DEF LogType, FilesInOrder
<1>1. /\ disk \in [Logger!Backup -> Seq(Nat)] /\ 0 \in Logger!Backup /\ disk[0] \in Seq(Nat)
      /\ Logger!ToSet(lines) \subseteq Nat /\ Held(disk) \cup retired \subseteq Nat
  <2>1. disk \in [Logger!Backup -> Seq(Nat)] /\ 0 \in Logger!Backup
    BY JournalsAssumption DEF LogType, Logger!Backup
  <2>2. Logger!ToSet(lines) \subseteq Nat
    BY LinesAreNumbers
  <2>3. Held(disk) \cup retired \subseteq Nat
    BY <1>0
  <2>4. disk[0] \in Seq(Nat)
    BY <2>1
  <2> QED BY <2>1, <2>2, <2>3, <2>4
<1>2. Ordered(lines) /\ InOrder(disk)
  BY IncreasingIsOrdered DEF FilesInOrder
<1>3. \A f \in Logger!Backup : Logger!ToSet(disk[f]) \subseteq Held(disk)
  BY DEF Held
<1>4. \A x \in Held(disk) \cup retired, v \in Logger!ToSet(lines) : x <= v
  BY <1>1, BelowIsNotAbove DEF NoneAbove
<1>5. \A v \in Logger!ToSet(lines) : Admits(disk[0], v)
  <2> TAKE v \in Logger!ToSet(lines)
  <2>1. v \in Nat /\ \A x \in Logger!ToSet(disk[0]) : x <= v
    BY <1>1, <1>3, <1>4
  <2> QED BY <1>1, <2>1, AdmitsNewer
<1>6. \A f \in Logger!Backup : f # 0 => NoneAbove(Logger!ToSet(disk[f]), Logger!ToSet(lines))
  BY <1>3, <1>4 DEF NoneAbove
<1>7. /\ e \in [Logger!Backup -> Seq(Nat)] /\ InOrder(e) /\ Held(e) = Held(disk) \cup Logger!ToSet(lines)
      /\ e[0] = disk[0] \o lines /\ \A f \in Logger!Backup : f # 0 => e[f] = disk[f]
  BY <1>1, <1>2, <1>5, <1>6, AddedInOrder
<1>8. raced \/ NoneAbove(retired, Held(e))
  BY <1>4, <1>7 DEF NoneAbove, FilesInOrder
<1>9. Logger!ToSet(e[0]) = Logger!ToSet(disk[0]) \cup Logger!ToSet(lines)
  BY <1>1, <1>7, LinesOfJoined
<1> QED BY <1>7, <1>8, <1>9

(* appendToFile: a line is newer than all others.                             *)
LEMMA LogOrders == ASSUME LogInv, LogInv', OrderInv, Logger!Log PROVE OrderInv'
<1> DEFINE line == logged + 1
<1>0. early' = early /\ logged' = line /\ logged \in Nat /\ line \in Nat /\ line > logged
      /\ UNCHANGED <<logStreamUnavailable>>
  BY DEF Logger!Log, LogInv, LogType
<1> SUFFICES ASSUME ~early PROVE OrderInv'
  BY <1>0 DEF OrderInv
<1>1. StreamInOrder /\ FilesInOrder
  BY DEF OrderInv
<1>3. /\ pendingStreamLines \in Seq(Nat) /\ queuedLines \in Seq(Nat)
      /\ Logger!ToSet(pendingStreamLines) \subseteq 0 .. logged
      /\ Logger!ToSet(queuedLines) \subseteq 0 .. logged
      /\ Held(disk) \cup retired \subseteq 0 .. logged
  BY <1>1 DEF LogInv, LogType, StreamInOrder, FilesInOrder
<1>4. ASSUME NEW A, A \subseteq 0 .. logged PROVE AllBelow(A, {line})
  BY <1>0, <1>4 DEF AllBelow
<1>5. CASE stream = "open" /\ logBytes + 1 < MAX_LOG_BYTES
  <2>1. /\ pendingStreamLines' = pendingStreamLines \o <<line>> /\ logBytes' = logBytes + 1
        /\ flying' = (IF flying = 0 THEN 1 ELSE flying)
        /\ UNCHANGED <<disk, at, retired, raced, landed, stream, queuedLines, ready, step>>
    BY <1>5 DEF Logger!Log, Logger!Accepted, Logger!Quiet, Logger!files, Logger!opening
  <2>2. queuedLines = <<>> /\ Logger!ToSet(queuedLines) = {}
    BY <1>5 DEF LogInv, StreamKept, Logger!NoneStuck, Logger!ToSet
  <2> HIDE DEF line
  <2>3. /\ Increasing(pendingStreamLines')
        /\ Logger!ToSet(pendingStreamLines') = Logger!ToSet(pendingStreamLines) \cup {line}
    <3>1. AllBelow(Logger!ToSet(pendingStreamLines), {line}) /\ Increasing(pendingStreamLines)
      BY <1>1, <1>3, <1>4 DEF StreamInOrder
    <3> QED BY <1>0, <1>3, <2>1, <3>1, NewestJoined
  <2>4. StreamInOrder'
    <3>1. at' = 0 /\ ~logStreamUnavailable' /\ logBytes' < MAX_LOG_BYTES
      BY <1>0, <1>1, <1>5, <2>1 DEF StreamInOrder
    <3>2. Increasing(queuedLines)' /\ Logger!ToSet(queuedLines)' = {}
      BY <2>1, <2>2 DEF Increasing, Logger!ToSet
    <3>3. Logger!ToSet(pendingStreamLines)' = Logger!ToSet(pendingStreamLines')
          /\ Increasing(pendingStreamLines)'
      BY <2>3 DEF Logger!ToSet, Increasing
    <3>4. Logger!ToSet(pendingStreamLines') \subseteq 0 .. logged'
      BY <1>0, <1>3, <2>3
    <3> QED BY <3>1, <3>2, <3>3, <3>4 DEF StreamInOrder, AllBelow
  <2>5. /\ Len(pendingStreamLines) \in Nat /\ Len(pendingStreamLines') = Len(pendingStreamLines) + 1
        /\ DOMAIN pendingStreamLines' = 1 .. Len(pendingStreamLines) + 1
        /\ DOMAIN pendingStreamLines = 1 .. Len(pendingStreamLines)
        /\ pendingStreamLines'[Len(pendingStreamLines) + 1] = line
        /\ \A i \in 1 .. Len(pendingStreamLines) : pendingStreamLines'[i] = pendingStreamLines[i]
    BY <1>0, <1>3, <2>1
  <2>6. flying \in 0 .. Len(pendingStreamLines) /\ (landed => flying # 0)
    BY DEF LogInv, LogType, StreamKept
  <2>7. Written' \subseteq Written
    BY <2>1, <2>5, <2>6 DEF Written
  <2>8. Unwritten' \subseteq Unwritten \cup {line}
    <3> SUFFICES ASSUME NEW k \in DOMAIN pendingStreamLines', landed => k > flying'
                 PROVE  pendingStreamLines'[k] \in Unwritten \cup {line}
      BY <2>1 DEF Unwritten
    <3>1. CASE k = Len(pendingStreamLines) + 1
      BY <2>5, <3>1
    <3>2. CASE k # Len(pendingStreamLines) + 1
      <4>1. k \in DOMAIN pendingStreamLines /\ pendingStreamLines'[k] = pendingStreamLines[k]
        BY <2>5, <3>2
      <4>2. landed => k > flying
        BY <2>1, <2>6
      <4> QED BY <4>1, <4>2 DEF Unwritten
    <3> QED BY <3>1, <3>2
  <2>9. AllBelow(Held(disk) \cup retired, Logger!ToSet(queuedLines') \cup Unwritten')
    <3>1. AllBelow(Held(disk) \cup retired, {line})
      BY <1>3, <1>4
    <3>2. Logger!ToSet(queuedLines') = {}
      BY <2>1, <2>2
    <3> QED BY <1>1, <2>8, <3>1, <3>2 DEF FilesInOrder, AllBelow
  <2>10. FilesInOrder'
    BY <1>0, <1>1, <2>1, <2>7, <2>9, FilesUnmoved
  <2> QED BY <2>4, <2>10 DEF OrderInv
<1>6. ASSUME NEW lines, lines = Append(queuedLines, line)
      PROVE  /\ lines \in Seq(Nat) /\ Increasing(lines) /\ Logger!ToSet(lines) = Logger!ToSet(queuedLines) \cup {line}
             /\ Logger!ToSet(lines) \subseteq 0 .. logged'
             /\ AllBelow(Held(disk) \cup retired, Logger!ToSet(lines))
  <2> HIDE DEF line
  <2>1. AllBelow(Logger!ToSet(queuedLines), {line}) /\ Increasing(queuedLines)
    BY <1>1, <1>3, <1>4 DEF StreamInOrder
  <2>2. /\ lines \in Seq(Nat) /\ Increasing(lines)
        /\ Logger!ToSet(lines) = Logger!ToSet(queuedLines) \cup {line}
    BY <1>0, <1>3, <1>6, <2>1, NewestJoined
  <2>3. Logger!ToSet(lines) \subseteq 0 .. logged'
    BY <1>0, <1>3, <2>2
  <2>4. AllBelow(Held(disk) \cup retired, Logger!ToSet(lines))
    <3>1. AllBelow(Held(disk) \cup retired, {line})
      BY <1>3, <1>4
    <3> QED BY <1>1, <2>2, <3>1 DEF FilesInOrder, AllBelow
  <2> QED BY <2>2, <2>3, <2>4
<1>7. CASE ~(stream = "open" /\ logBytes + 1 < MAX_LOG_BYTES) /\ logStreamUnavailable
  <2>1. /\ UNCHANGED <<step, stream, ready>>
        /\ Logger!Fallback(disk, Append(queuedLines, line), logBytes, <<>>)
    BY <1>7 DEF Logger!Log
  <2>2. stream' = "none" /\ logBytes \in Nat /\ logged' >= logged
    BY <1>0, <1>1, <1>7, <2>1 DEF StreamInOrder, LogInv, LogType
  <2> DEFINE lines == Append(queuedLines, line)
  <2>3. /\ lines \in Seq(Nat) /\ Increasing(lines) /\ Logger!ToSet(lines) \subseteq 0 .. logged'
        /\ AllBelow(Held(disk) \cup retired, Logger!ToSet(lines))
    BY <1>6
  <2>4. Logger!Fallback(disk, lines, logBytes, <<>>)
    BY <2>1
  <2> HIDE DEF lines, line
  <2> QED BY <1>1, <2>1, <2>2, <2>3, <2>4, NewerFallback
<1>8. CASE ~(stream = "open" /\ logBytes + 1 < MAX_LOG_BYTES) /\ ~logStreamUnavailable
  <2>1. /\ UNCHANGED <<pendingStreamLines, flying, landed, step, logBytes, disk, at, retired, raced>>
        /\ queuedLines' = Append(queuedLines, line)
        /\ \/ ready # "none" /\ UNCHANGED <<stream, ready>>
           \/ ready = "none" /\ stream = "open" /\ stream' = "ending" /\ ready' = "ending"
           \/ ready = "none" /\ stream # "open" /\ stream' = stream /\ ready' = "dir"
    BY <1>8 DEF Logger!Log, Logger!Quiet, Logger!files, Logger!EndsStream, Logger!Opens
  <2>2. /\ Increasing(queuedLines') /\ Logger!ToSet(queuedLines') = Logger!ToSet(queuedLines) \cup {line}
        /\ Logger!ToSet(queuedLines') \subseteq 0 .. logged'
        /\ AllBelow(Held(disk) \cup retired, Logger!ToSet(queuedLines'))
    BY <1>6, <2>1
  <2> HIDE DEF line
  <2>3. StreamInOrder'
    <3>1. (stream' # "none" => at' = 0 /\ ~logStreamUnavailable') /\ (stream' = "open" => logBytes' < MAX_LOG_BYTES)
      BY <1>0, <1>1, <2>1 DEF StreamInOrder
    <3>2. Increasing(pendingStreamLines)' /\ Logger!ToSet(pendingStreamLines)' = Logger!ToSet(pendingStreamLines)
          /\ Increasing(queuedLines)' /\ Logger!ToSet(queuedLines)' = Logger!ToSet(queuedLines')
      BY <1>1, <2>1, <2>2 DEF StreamInOrder, Increasing, Logger!ToSet
    <3>3. AllBelow(Logger!ToSet(pendingStreamLines), Logger!ToSet(queuedLines'))
      <4>1. AllBelow(Logger!ToSet(pendingStreamLines), {line})
        BY <1>3, <1>4
      <4> QED BY <1>1, <2>2, <4>1 DEF StreamInOrder, AllBelow
    <3>4. Logger!ToSet(pendingStreamLines) \cup Logger!ToSet(queuedLines') \subseteq 0 .. logged'
      BY <1>0, <1>3, <2>2
    <3> QED BY <3>1, <3>2, <3>3, <3>4 DEF StreamInOrder, AllBelow
  <2>4. Written' = Written /\ Unwritten' = Unwritten
    BY <2>1 DEF Written, Unwritten
  <2>5. AllBelow(Held(disk) \cup retired, Logger!ToSet(queuedLines') \cup Unwritten')
    BY <1>1, <2>2, <2>4 DEF FilesInOrder, AllBelow
  <2>6. FilesInOrder'
    BY <1>0, <1>1, <2>1, <2>4, <2>5, FilesUnmoved
  <2> QED BY <2>3, <2>6 DEF OrderInv
<1> QED BY <1>5, <1>7, <1>8

(* Newer lines reach the log, and what waits afterwards is newer still.       *)
LEMMA FilesWritten ==
  ASSUME LogType, FilesInOrder, NEW lines \in Seq(Nat), Increasing(lines),
         disk' = [disk EXCEPT ![0] = @ \o lines], UNCHANGED <<retired, raced, logged>>,
         AllBelow(Held(disk) \cup retired, Logger!ToSet(lines)), Logger!ToSet(lines) \subseteq 0 .. logged,
         AllBelow(Held(disk) \cup retired \cup Logger!ToSet(lines), Logger!ToSet(queuedLines') \cup Unwritten'),
         Written' \subseteq Logger!ToSet(disk[0]) \cup Logger!ToSet(lines), ready' # "move"
  PROVE  FilesInOrder'
<1>1. ASSUME NEW e, e = disk'
      PROVE  /\ InOrder(e) /\ Held(e) = Held(disk) \cup Logger!ToSet(lines)
             /\ raced \/ NoneAbove(retired, Held(e))
             /\ Logger!ToSet(e[0]) = Logger!ToSet(disk[0]) \cup Logger!ToSet(lines)
  BY <1>1, NewerWritten
<1>2. /\ InOrder(disk') /\ Held(disk') = Held(disk) \cup Logger!ToSet(lines)
      /\ raced \/ NoneAbove(retired, Held(disk'))
      /\ Logger!ToSet(disk'[0]) = Logger!ToSet(disk[0]) \cup Logger!ToSet(lines)
  BY <1>1
<1>3. InOrder(disk)' /\ Held(disk)' = Held(disk')
  BY <1>2 DEF InOrder, Ordered, Admits, NoneAbove, Logger!ToSet, Held
<1>4. Logger!ToSet(disk[0])' = Logger!ToSet(disk'[0]) /\ Logger!ToSet(queuedLines)' = Logger!ToSet(queuedLines')
  BY DEF Logger!ToSet
<1>5. AllBelow(Held(disk) \cup retired, Logger!ToSet(queuedLines) \cup Unwritten)'
  BY <1>2, <1>3, <1>4 DEF AllBelow
<1>6. (raced \/ NoneAbove(retired, Held(disk)))'
  BY <1>2, <1>3 DEF NoneAbove
<1>7. (Held(disk) \cup retired)' \subseteq 0 .. logged'
  BY <1>2, <1>3 DEF FilesInOrder
<1>8. (Written \subseteq Logger!ToSet(disk[0]))'
  BY <1>2, <1>4
<1> QED BY <1>3, <1>5, <1>6, <1>7, <1>8 DEF FilesInOrder

(* The stream's operations.                                                   *)
LEMMA LandOrders == ASSUME LogInv, LogInv', OrderInv, Logger!Land PROVE OrderInv'
<1> DEFINE lines == SubSeq(pendingStreamLines, 1, flying)
           others == SubSeq(pendingStreamLines, flying + 1, Len(pendingStreamLines))
<1>0. /\ early' = early /\ flying > 0 /\ ~landed /\ landed'
      /\ UNCHANGED <<at, stream, pendingStreamLines, flying, queuedLines, logBytes,
                     logStreamUnavailable, ready, step, logged, raced>>
      /\ IF at = Logger!Gone THEN retired' = retired \cup Logger!ToSet(lines) /\ UNCHANGED disk
         ELSE disk' = [disk EXCEPT ![at] = @ \o lines] /\ UNCHANGED retired
  BY DEF Logger!Land, Logger!opening, Logger!counts
<1> SUFFICES ASSUME ~early PROVE OrderInv'
  BY <1>0 DEF OrderInv
<1>1. StreamInOrder /\ FilesInOrder /\ LogType
  BY DEF OrderInv, LogInv
<1>2. stream # "none" /\ at = 0 /\ ready # "move" /\ at # Logger!Gone
  <2>1. /\ stream = "open" => ready = "none"
        /\ stream = "ending" => ready = "ending"
        /\ stream = "none" => pendingStreamLines = <<>>
    BY DEF LogInv, StreamKept
  <2>2. flying \in 0 .. Len(pendingStreamLines) /\ stream \in {"none", "open", "ending"}
    BY <1>1 DEF LogType
  <2>3. stream # "none"
    BY <1>0, <2>1, <2>2
  <2>4. at = 0
    BY <1>1, <2>3 DEF StreamInOrder
  <2>5. Logger!Gone # 0
    BY JournalsAssumption DEF Logger!Gone
  <2> QED BY <2>1, <2>2, <2>3, <2>4, <2>5
<1>3. disk' = [disk EXCEPT ![0] = @ \o lines] /\ UNCHANGED retired
  BY <1>0, <1>2
<1>4. pendingStreamLines \in Seq(Nat) /\ flying \in 0 .. Len(pendingStreamLines)
      /\ Increasing(pendingStreamLines)
  BY <1>1 DEF LogType, StreamInOrder
<1>5. /\ lines \in Seq(Nat) /\ others \in Seq(Nat) /\ Increasing(lines)
      /\ Logger!ToSet(pendingStreamLines) = Logger!ToSet(lines) \cup Logger!ToSet(others)
      /\ AllBelow(Logger!ToSet(lines), Logger!ToSet(others))
  BY <1>4, LinesOfSplit, IncreasingSplit
<1>6. Len(lines) = flying /\ \A i \in 1 .. flying : lines[i] = pendingStreamLines[i]
  BY <1>4
<1>7. Len(others) = Len(pendingStreamLines) - flying
      /\ \A i \in 1 .. Len(pendingStreamLines) - flying : others[i] = pendingStreamLines[flying + i]
  <2>1. /\ flying + 1 \in 1 .. Len(pendingStreamLines) + 1 /\ Len(pendingStreamLines) \in Nat
        /\ flying \in Nat
    BY <1>4
  <2>2. /\ Len(others) = Len(pendingStreamLines) - (flying + 1) + 1
        /\ \A i \in 1 .. Len(pendingStreamLines) - (flying + 1) + 1 :
              others[i] = pendingStreamLines[flying + 1 + i - 1]
    BY <1>4, <2>1, SubSeqProperties
  <2> HIDE DEF others
  <2> QED BY <2>1, <2>2
<1> HIDE DEF lines, others
<1>8. Written' = Logger!ToSet(lines)
  <2>1. Written' = {pendingStreamLines[k] : k \in 1 .. flying}
    BY <1>0 DEF Written
  <2>2. DOMAIN lines = 1 .. flying
    BY <1>5, <1>6
  <2>3. Logger!ToSet(lines) = {lines[k] : k \in 1 .. flying}
    BY <2>2, Zenon DEF Logger!ToSet
  <2>4. {lines[k] : k \in 1 .. flying} = {pendingStreamLines[k] : k \in 1 .. flying}
    BY <1>6
  <2> QED BY <2>1, <2>3, <2>4, Zenon
<1>9. Unwritten' \subseteq Logger!ToSet(others) /\ Unwritten = Logger!ToSet(pendingStreamLines)
  <2>1. Unwritten = Logger!ToSet(pendingStreamLines)
    BY <1>0 DEF Unwritten, Logger!ToSet
  <2>0. Unwritten' = {pendingStreamLines[k] : k \in {k \in 1 .. Len(pendingStreamLines) : k > flying}}
    BY <1>0, <1>4 DEF Unwritten
  <2> SUFFICES ASSUME NEW k \in 1 .. Len(pendingStreamLines), k > flying
               PROVE  pendingStreamLines[k] \in Logger!ToSet(others)
    BY <2>0, <2>1
  <2>2. k - flying \in 1 .. Len(others) /\ others[k - flying] = pendingStreamLines[k]
    BY <1>4, <1>7
  <2> QED BY <1>5, <2>2 DEF Logger!ToSet
<1>10. AllBelow(Held(disk) \cup retired, Logger!ToSet(lines)) /\ Logger!ToSet(lines) \subseteq 0 .. logged
  BY <1>1, <1>5, <1>9 DEF FilesInOrder, StreamInOrder, AllBelow
<1>11. AllBelow(Held(disk) \cup retired \cup Logger!ToSet(lines), Logger!ToSet(queuedLines) \cup Unwritten')
  BY <1>1, <1>5, <1>9 DEF FilesInOrder, StreamInOrder, AllBelow
<1>12. FilesInOrder'
  <2>1. Logger!ToSet(queuedLines') = Logger!ToSet(queuedLines)
    BY <1>0
  <2> QED BY <1>0, <1>1, <1>2, <1>3, <1>5, <1>8, <1>10, <1>11, <2>1, FilesWritten
<1>13. StreamInOrder'
  BY <1>0, <1>1 DEF StreamInOrder, Increasing, AllBelow, Logger!ToSet
<1> QED BY <1>12, <1>13 DEF OrderInv

LEMMA CallbackOrders == ASSUME LogInv, LogInv', OrderInv, Logger!Callback PROVE OrderInv'
<1> DEFINE others == SubSeq(pendingStreamLines, flying + 1, Len(pendingStreamLines))
<1>0. /\ early' = early /\ landed /\ ~landed' /\ pendingStreamLines' = others
      /\ UNCHANGED <<disk, retired, at, stream, queuedLines, logBytes, logStreamUnavailable, ready,
                     step, logged, raced>>
  BY DEF Logger!Callback, Logger!opening, Logger!counts, Logger!files, LogInv, LogType
<1> SUFFICES ASSUME ~early PROVE OrderInv'
  BY <1>0 DEF OrderInv
<1>1. StreamInOrder /\ FilesInOrder /\ LogType
  BY DEF OrderInv, LogInv
<1>2. pendingStreamLines \in Seq(Nat) /\ flying \in 0 .. Len(pendingStreamLines)
      /\ Increasing(pendingStreamLines) /\ logged \in Nat
  BY <1>1 DEF LogType, StreamInOrder
<1>3. /\ others \in Seq(Nat) /\ Increasing(others)
      /\ Logger!ToSet(others) \subseteq Logger!ToSet(pendingStreamLines)
  BY <1>2, LinesOfSplit, IncreasingSplit
<1>4. Len(others) = Len(pendingStreamLines) - flying
      /\ \A i \in 1 .. Len(pendingStreamLines) - flying : others[i] = pendingStreamLines[flying + i]
  BY <1>2, SMTT(20)
<1> HIDE DEF others
<1>5. Written' = {}
  BY <1>0 DEF Written
<1>6. Unwritten' \subseteq Unwritten
  <2> SUFFICES ASSUME NEW i \in 1 .. Len(others) PROVE others[i] \in Unwritten
    BY <1>0, <1>3 DEF Unwritten
  <2>1. /\ flying + i \in DOMAIN pendingStreamLines /\ flying + i > flying
        /\ others[i] = pendingStreamLines[flying + i]
    BY <1>2, <1>4
  <2> QED BY <2>1 DEF Unwritten
<1>7. FilesInOrder'
  <2>1. AllBelow(Held(disk) \cup retired, Logger!ToSet(queuedLines') \cup Unwritten')
    BY <1>0, <1>1, <1>6 DEF FilesInOrder, AllBelow
  <2>2. logged' >= logged /\ logged' \in Nat
    BY <1>0, <1>2
  <2> QED BY <1>0, <1>1, <1>2, <1>5, <2>1, <2>2, FilesUnmoved
<1>8. StreamInOrder'
  <2>1. Increasing(pendingStreamLines)' /\ Logger!ToSet(pendingStreamLines)' \subseteq Logger!ToSet(pendingStreamLines)
    BY <1>0, <1>3 DEF Increasing, Logger!ToSet
  <2>2. Increasing(queuedLines)' /\ Logger!ToSet(queuedLines)' = Logger!ToSet(queuedLines)
    BY <1>0, <1>1 DEF StreamInOrder, Increasing, Logger!ToSet
  <2> QED BY <1>0, <1>1, <2>1, <2>2 DEF StreamInOrder, AllBelow
<1> QED BY <1>7, <1>8 DEF OrderInv

LEMMA StreamFailsOrders == ASSUME LogInv, LogInv', OrderInv, Logger!StreamFails PROVE OrderInv'
<1>0. /\ early' = early /\ stream # "none" /\ ~landed /\ ~landed'
      /\ stream' = (IF stream = "open" THEN "none" ELSE stream)
      /\ pendingStreamLines' = <<>>
      /\ logStreamUnavailable' = (logStreamUnavailable \/ stream = "open")
      /\ UNCHANGED <<retired, at, queuedLines, logBytes, ready, step, logged, raced>>
      /\ \/ disk' = [disk EXCEPT ![0] = @ \o pendingStreamLines]
         \/ UNCHANGED disk
  BY DEF Logger!StreamFails, Logger!Recovered, Logger!opening
<1> SUFFICES ASSUME ~early PROVE OrderInv'
  BY <1>0 DEF OrderInv
<1>1. StreamInOrder /\ FilesInOrder /\ LogType
  BY DEF OrderInv, LogInv
<1>2. ready # "move" /\ logged \in Nat
  BY <1>0 DEF LogInv, LogType, StreamKept
<1>3. Written' = {} /\ Unwritten' = {} /\ Unwritten = Logger!ToSet(pendingStreamLines)
  BY <1>0 DEF Written, Unwritten, Logger!ToSet
<1>4. StreamInOrder'
  <2>1. Increasing(pendingStreamLines)' /\ Logger!ToSet(pendingStreamLines)' = {}
    BY <1>0 DEF Increasing, Logger!ToSet
  <2>2. Increasing(queuedLines)' /\ Logger!ToSet(queuedLines)' = Logger!ToSet(queuedLines)
    BY <1>0, <1>1 DEF StreamInOrder, Increasing, Logger!ToSet
  <2>3. stream' # "none" => at' = 0 /\ ~logStreamUnavailable'
    BY <1>0, <1>1 DEF StreamInOrder
  <2> QED BY <1>0, <1>1, <2>1, <2>2, <2>3 DEF StreamInOrder, AllBelow
<1>5. FilesInOrder'
  <2>1. CASE UNCHANGED disk
    <3>1. AllBelow(Held(disk) \cup retired, Logger!ToSet(queuedLines') \cup Unwritten')
      BY <1>0, <1>1, <1>3 DEF FilesInOrder, AllBelow
    <3>2. logged' >= logged /\ logged' \in Nat
      BY <1>0, <1>2
    <3> QED BY <1>0, <1>1, <1>2, <1>3, <2>1, <3>1, <3>2, FilesUnmoved
  <2>2. CASE disk' = [disk EXCEPT ![0] = @ \o pendingStreamLines]
    <3>1. pendingStreamLines \in Seq(Nat) /\ Increasing(pendingStreamLines)
          /\ Logger!ToSet(pendingStreamLines) \subseteq 0 .. logged
      BY <1>1 DEF LogType, StreamInOrder
    <3>2. AllBelow(Held(disk) \cup retired, Logger!ToSet(pendingStreamLines))
      BY <1>1, <1>3 DEF FilesInOrder, AllBelow
    <3>3. AllBelow(Held(disk) \cup retired \cup Logger!ToSet(pendingStreamLines),
                   Logger!ToSet(queuedLines') \cup Unwritten')
      BY <1>0, <1>1, <1>3 DEF FilesInOrder, StreamInOrder, AllBelow
    <3> QED BY <1>0, <1>1, <1>2, <1>3, <2>2, <3>1, <3>2, <3>3, FilesWritten
  <2> QED BY <1>0, <2>1, <2>2
<1> QED BY <1>4, <1>5 DEF OrderInv

LEMMA StreamEndedOrders == ASSUME LogInv, LogInv', OrderInv, Logger!StreamEnded PROVE OrderInv'
<1>0. /\ early' = early /\ stream' = "none" /\ ready' = "forced"
      /\ UNCHANGED <<disk, retired, raced, at, pendingStreamLines, flying, landed, queuedLines, logBytes,
                     logged>>
  BY DEF Logger!StreamEnded, Logger!Quiet, Logger!Kept, Logger!files
<1> SUFFICES ASSUME ~early PROVE OrderInv'
  BY <1>0 DEF OrderInv
<1>1. StreamInOrder /\ FilesInOrder /\ logged \in Nat /\ logged' \in Nat /\ logged' >= logged
  BY <1>0 DEF OrderInv, LogInv, LogType
<1>2. Written' = Written /\ Unwritten' = Unwritten
  BY <1>0 DEF Written, Unwritten
<1>3. FilesInOrder'
  <2>1. AllBelow(Held(disk) \cup retired, Logger!ToSet(queuedLines') \cup Unwritten')
    BY <1>0, <1>1, <1>2 DEF FilesInOrder
  <2> QED BY <1>0, <1>1, <1>2, <2>1, FilesUnmoved
<1>4. StreamInOrder'
  BY <1>0, <1>1 DEF StreamInOrder, Increasing, AllBelow, Logger!ToSet
<1> QED BY <1>3, <1>4 DEF OrderInv

(* An open that cannot go on writes the queue, which is newer.                *)
LEMMA BailingOrders ==
  ASSUME LogInv, LogInv', OrderInv, UNCHANGED <<early, stream, logged>>, stream = "none", ready' = "none",
         Logger!Fallback(disk, queuedLines, logBytes, <<>>)
  PROVE  OrderInv'
<1> SUFFICES ASSUME ~early PROVE OrderInv'
  BY DEF OrderInv
<1>1. StreamInOrder /\ FilesInOrder
  BY DEF OrderInv
<1>2. /\ queuedLines \in Seq(Nat) /\ logBytes \in Nat /\ logged' >= logged /\ stream' = "none"
      /\ Increasing(queuedLines) /\ Logger!ToSet(queuedLines) \subseteq 0 .. logged'
      /\ AllBelow(Held(disk) \cup retired, Logger!ToSet(queuedLines))
  BY <1>1 DEF LogInv, LogType, StreamInOrder, FilesInOrder, AllBelow
<1> QED BY <1>1, <1>2, NewerFallback

LEMMA DirOrders == ASSUME LogInv, LogInv', OrderInv, Logger!Dir PROVE OrderInv'
<1>1. UNCHANGED <<early, logged>> /\ stream = "none"
  BY DEF Logger!Dir, Logger!Kept, LogInv, LogType, StreamKept
<1>2. CASE Logger!BailsOut
  BY <1>1, <1>2, BailingOrders DEF Logger!BailsOut, Logger!Finish, Logger!streaming
<1>3. CASE ~Logger!BailsOut
  <2>1. /\ UNCHANGED <<disk, retired, raced, at, stream, pendingStreamLines, flying, landed, queuedLines,
                       logBytes>>
        /\ ready' # "move"
    BY <1>3 DEF Logger!Dir, Logger!Goes, Logger!Quiet, Logger!files
  <2> QED BY <1>1, <2>1, OrderUntouched
<1> QED BY <1>2, <1>3

LEMMA StatOrders == ASSUME LogInv, LogInv', OrderInv, Logger!Stat PROVE OrderInv'
<1>1. /\ UNCHANGED <<early, logged, disk, retired, raced, at, stream, pendingStreamLines, flying, landed,
                     queuedLines, logBytes>>
      /\ stream = "none" /\ (ready' = "move" => step' = LOG_BACKUP_COUNT)
  BY DEF Logger!Stat, Logger!Goes, Logger!Quiet, Logger!Kept, Logger!files, LogInv, LogType, StreamKept
<1> QED BY <1>1, OrderUntouched

LEMMA OpenFailsOrders == ASSUME LogInv, LogInv', OrderInv, Logger!OpenFails PROVE OrderInv'
<1>1. UNCHANGED <<early, logged, stream>> /\ stream = "none" /\ ready' = "none"
      /\ Logger!Fallback(disk, queuedLines, logBytes, <<>>)
  BY DEF Logger!OpenFails, Logger!Kept, Logger!Finish, Logger!streaming, LogInv, LogType, StreamKept
<1> QED BY <1>1, BailingOrders

LEMMA MoveOrders == ASSUME LogInv, LogInv', OrderInv, Logger!Move PROVE OrderInv'
<1>0. /\ early' = early /\ ready = "move"
      /\ disk' = [disk EXCEPT ![step] = disk[step - 1], ![step - 1] = <<>>]
      /\ retired' = retired \cup Logger!ToSet(disk[step])
      /\ step' = step - 1 /\ ready' = (IF step = 1 THEN "create" ELSE "move")
      /\ UNCHANGED <<at, stream, pendingStreamLines, flying, landed, queuedLines, logBytes,
                     logStreamUnavailable, logged, raced>>
  BY DEF Logger!Move, Logger!Kept, Logger!streaming
<1> SUFFICES ASSUME ~early PROVE OrderInv'
  BY <1>0 DEF OrderInv
<1>1. StreamInOrder /\ FilesInOrder /\ InOrder(disk)
  BY DEF OrderInv, FilesInOrder
<1>2. /\ step \in Nat \ {0} /\ step <= LOG_BACKUP_COUNT /\ LOG_BACKUP_COUNT \in Nat \ {0}
      /\ step \in Logger!Backup /\ step - 1 \in Logger!Backup
      /\ disk \in [Logger!Backup -> Seq(Nat)] /\ logged \in Nat
      /\ \A f \in Logger!Backup : f \in Nat /\ f <= LOG_BACKUP_COUNT
  BY <1>0, JournalsAssumption DEF LogInv, LogType, Logger!Backup
<1>3. \A f \in Logger!Backup : disk'[f] = IF f = step - 1 THEN <<>>
                                          ELSE IF f = step THEN disk[step - 1] ELSE disk[f]
  BY <1>0, <1>2
<1>4. Ordered(<<>>) /\ Logger!ToSet(<<>>) = {}
  BY DEF Ordered, Logger!ToSet
<1>5. stream = "none" /\ pendingStreamLines = <<>> /\ flying = 0
  BY <1>0 DEF LogInv, LogType, StreamKept
<1>6. Written' = {} /\ Unwritten' = {} /\ Logger!ToSet(queuedLines)' = Logger!ToSet(queuedLines)
  BY <1>0, <1>5 DEF Written, Unwritten, Logger!ToSet
<1>7. InOrder(disk')
  <2>1. \A f \in Logger!Backup : Ordered(disk'[f])
    BY <1>1, <1>2, <1>3, <1>4 DEF InOrder
  <2>2. ASSUME NEW f \in Logger!Backup, NEW g \in Logger!Backup, f > g
        PROVE  NoneAbove(Logger!ToSet(disk'[f]), Logger!ToSet(disk'[g]))
    <3>1. CASE f = step - 1 \/ g = step - 1
      BY <1>3, <1>4, <3>1 DEF NoneAbove
    <3>2. CASE f # step - 1 /\ g # step - 1
      <4>1. \A h \in Logger!Backup : step > h => NoneAbove(Logger!ToSet(disk[step]), Logger!ToSet(disk[h]))
        BY <1>1, <1>2 DEF InOrder
      <4>2. CASE f = step
        <5>1. step - 1 > g /\ disk'[f] = disk[step - 1] /\ disk'[g] = disk[g]
          BY <1>2, <1>3, <2>2, <3>2, <4>2
        <5> QED BY <1>1, <1>2, <5>1 DEF InOrder
      <4>3. CASE g = step
        <5>1. f > step - 1 /\ disk'[f] = disk[f] /\ disk'[g] = disk[step - 1]
          BY <1>2, <1>3, <2>2, <3>2, <4>3
        <5> QED BY <1>1, <1>2, <5>1 DEF InOrder
      <4>4. CASE f # step /\ g # step
        <5>1. disk'[f] = disk[f] /\ disk'[g] = disk[g]
          BY <1>3, <3>2, <4>4
        <5> QED BY <1>1, <2>2, <5>1 DEF InOrder
      <4> QED BY <4>2, <4>3, <4>4
    <3> QED BY <3>1, <3>2
  <2> QED BY <2>1, <2>2 DEF InOrder
<1>8. ASSUME NEW x \in Held(disk') PROVE \E f \in Logger!Backup : f # step /\ x \in Logger!ToSet(disk[f])
  <2>1. PICK f \in Logger!Backup : x \in Logger!ToSet(disk'[f])
    BY <1>8 DEF Held
  <2>2. f # step - 1
    BY <1>3, <1>4, <2>1
  <2>3. step - 1 # step
    BY <1>2
  <2> QED BY <1>2, <1>3, <2>1, <2>2, <2>3
<1>9. Held(disk') \subseteq Held(disk) /\ Logger!ToSet(disk[step]) \subseteq Held(disk)
  BY <1>2, <1>8 DEF Held
<1>10. raced \/ NoneAbove(retired', Held(disk'))
  <2> SUFFICES ASSUME ~raced, NEW x \in retired', NEW y \in Held(disk') PROVE x <= y
    BY DEF NoneAbove
  <2>1. CASE x \in retired
    BY <1>1, <1>9, <2>1 DEF FilesInOrder, NoneAbove
  <2>2. CASE x \in Logger!ToSet(disk[step])
    <3>1. step = LOG_BACKUP_COUNT
      BY <1>0, <1>1, <1>4, <2>2 DEF FilesInOrder
    <3>2. PICK f \in Logger!Backup : f # step /\ y \in Logger!ToSet(disk[f])
      BY <1>8
    <3>3. step > f
      BY <1>2, <3>1, <3>2
    <3> QED BY <1>1, <1>2, <2>2, <3>2, <3>3 DEF InOrder, NoneAbove
  <2> QED BY <1>0, <2>1, <2>2
<1>11. FilesInOrder'
  <2>1. InOrder(disk)' /\ Held(disk)' = Held(disk')
    BY <1>7 DEF InOrder, Ordered, Admits, NoneAbove, Logger!ToSet, Held
  <2>2. (Held(disk) \cup retired)' \subseteq Held(disk) \cup retired
    BY <1>0, <1>9, <2>1
  <2>3. AllBelow(Held(disk) \cup retired, Logger!ToSet(queuedLines) \cup Unwritten)'
    <3>1. AllBelow(Held(disk) \cup retired, Logger!ToSet(queuedLines))
      BY <1>1 DEF FilesInOrder, AllBelow
    <3> QED BY <1>6, <2>2, <3>1 DEF AllBelow
  <2>4. (raced \/ NoneAbove(retired, Held(disk)))'
    BY <1>0, <1>10, <2>1 DEF NoneAbove
  <2>5. (ready = "move" /\ step # LOG_BACKUP_COUNT => disk[step] = <<>>)'
    BY <1>0, <1>2, <1>3
  <2>6. (Held(disk) \cup retired)' \subseteq 0 .. logged'
    BY <1>0, <1>1, <2>2 DEF FilesInOrder
  <2> QED BY <1>6, <2>1, <2>3, <2>4, <2>5, <2>6 DEF FilesInOrder
<1>12. StreamInOrder'
  BY <1>0, <1>1 DEF StreamInOrder, Increasing, AllBelow, Logger!ToSet
<1> QED BY <1>11, <1>12 DEF OrderInv

LEMMA CreateOrders == ASSUME LogInv, LogInv', OrderInv, Logger!Create PROVE OrderInv'
<1>0. UNCHANGED <<early, logged>> /\ stream = "none" /\ pendingStreamLines = <<>> /\ flying = 0 /\ ~landed
  BY DEF Logger!Create, Logger!Kept, LogInv, LogType, StreamKept
<1>1. CASE Logger!BailsOut
  BY <1>0, <1>1, BailingOrders DEF Logger!BailsOut, Logger!Finish, Logger!streaming
<1>2. CASE ~Logger!BailsOut
  <2> DEFINE bytes == Len(disk[0])
             n == Logger!Taken(queuedLines, bytes)
             took == SubSeq(queuedLines, 1, n)
             rest == SubSeq(queuedLines, n + 1, Len(queuedLines))
  <2>1. /\ ~logStreamUnavailable /\ at' = 0 /\ queuedLines' = rest
        /\ pendingStreamLines' = pendingStreamLines \o took
        /\ UNCHANGED <<landed, disk, retired, raced, logStreamUnavailable>>
        /\ \/ stream' = "ending" /\ ready' = "ending"
           \/ logBytes' < MAX_LOG_BYTES /\ stream' = "open" /\ ready' = "none"
    <3>1. logBytes' \in Nat /\ MAX_LOG_BYTES \in Nat
      BY JournalsAssumption DEF LogInv, LogType
    <3>2. /\ ~logStreamUnavailable /\ at' = 0 /\ queuedLines' = rest
          /\ pendingStreamLines' = pendingStreamLines \o took
          /\ UNCHANGED <<landed, disk, retired, raced, logStreamUnavailable>>
          /\ \/ stream' = "ending" /\ ready' = "ending"
             \/ ~(logBytes' >= MAX_LOG_BYTES) /\ stream' = "open" /\ ready' = "none"
      BY <1>2 DEF Logger!Create, Logger!Kept, Logger!Accepted, Logger!EndsStream, Logger!Rest
    <3> QED BY <3>1, <3>2
  <2>2. /\ queuedLines \in Seq(Nat) /\ bytes \in Nat /\ logged \in Nat
        /\ (OrderInv /\ ~early => Increasing(queuedLines))
    <3>1. 0 \in Logger!Backup
      BY JournalsAssumption DEF Logger!Backup
    <3>2. disk[0] \in Seq(Nat)
      BY <3>1 DEF LogInv, LogType
    <3> QED BY <3>2 DEF LogInv, LogType, OrderInv, StreamInOrder
  <2> SUFFICES ASSUME ~early PROVE OrderInv'
    BY <1>0 DEF OrderInv
  <2>3. StreamInOrder /\ FilesInOrder
    BY DEF OrderInv
  <2>4. n \in 0 .. Len(queuedLines)
    BY <2>2, TakenSome
  <2> HIDE DEF n
  <2>5. /\ took \in Seq(Nat) /\ rest \in Seq(Nat) /\ Increasing(took) /\ Increasing(rest)
        /\ Logger!ToSet(queuedLines) = Logger!ToSet(took) \cup Logger!ToSet(rest)
        /\ AllBelow(Logger!ToSet(took), Logger!ToSet(rest))
    BY <2>2, <2>4, LinesOfSplit, IncreasingSplit
  <2> HIDE DEF took, rest, bytes
  <2>6. pendingStreamLines' = took
    BY <1>0, <2>1, <2>5
  <2>7. Written' = {} /\ Unwritten' \subseteq Logger!ToSet(took)
    BY <1>0, <2>1, <2>5, <2>6 DEF Written, Unwritten, Logger!ToSet
  <2>8. FilesInOrder'
    <3>1. AllBelow(Held(disk) \cup retired, Logger!ToSet(queuedLines') \cup Unwritten')
      BY <2>1, <2>3, <2>5, <2>7 DEF FilesInOrder, AllBelow
    <3>2. logged' >= logged /\ logged' \in Nat /\ ready' # "move"
      BY <1>0, <2>1, <2>2
    <3> QED BY <2>1, <2>2, <2>3, <2>7, <3>1, <3>2, FilesUnmoved
  <2>9. StreamInOrder'
    <3>1. Increasing(pendingStreamLines)' /\ Logger!ToSet(pendingStreamLines)' = Logger!ToSet(took)
      BY <2>5, <2>6 DEF Increasing, Logger!ToSet
    <3>2. Increasing(queuedLines)' /\ Logger!ToSet(queuedLines)' = Logger!ToSet(rest)
      BY <2>1, <2>5 DEF Increasing, Logger!ToSet
    <3>3. Logger!ToSet(took) \cup Logger!ToSet(rest) \subseteq 0 .. logged'
      BY <1>0, <2>3, <2>5 DEF StreamInOrder
    <3> QED BY <2>1, <2>5, <3>1, <3>2, <3>3 DEF StreamInOrder, AllBelow
  <2> QED BY <2>8, <2>9 DEF OrderInv
<1> QED BY <1>1, <1>2

LEMMA FlushOrders == ASSUME LogInv, LogInv', OrderInv, Logger!Flush PROVE OrderInv'
<1> DEFINE inAir == IF stream = "open" /\ ~landed THEN SubSeq(pendingStreamLines, 1, flying) ELSE <<>>
           bytes == IF stream # "open" THEN logBytes
                    ELSE IF logBytes > Len(pendingStreamLines)
                         THEN logBytes - Len(pendingStreamLines) ELSE 0
<1>0. /\ early' = (early \/ stream = "ending") /\ logged' = logged /\ UNCHANGED <<ready, step>>
      /\ (stream = "open" => stream' = "none") /\ (stream # "open" => stream' = stream)
  BY DEF Logger!Flush, Logger!opening, Logger!streaming
<1> SUFFICES ASSUME ~early, stream # "ending" PROVE OrderInv'
  BY <1>0 DEF OrderInv
<1>1. /\ disk \in [Logger!Backup -> Seq(Nat)] /\ 0 \in Logger!Backup /\ disk[0] \in Seq(Nat)
      /\ pendingStreamLines \in Seq(Nat) /\ queuedLines \in Seq(Nat) /\ <<>> \in Seq(Nat)
      /\ flying \in 0 .. Len(pendingStreamLines) /\ logBytes \in Nat /\ logged \in Nat
      /\ Len(pendingStreamLines) \in Nat /\ LogType
  <2>1. /\ LogType /\ pendingStreamLines \in Seq(Nat) /\ queuedLines \in Seq(Nat) /\ <<>> \in Seq(Nat)
        /\ flying \in 0 .. Len(pendingStreamLines) /\ logBytes \in Nat /\ logged \in Nat
    BY DEF LogInv, LogType
  <2>2. 0 \in Logger!Backup /\ disk \in [Logger!Backup -> Seq(Nat)]
    BY JournalsAssumption DEF LogInv, LogType, Logger!Backup
  <2>3. disk[0] \in Seq(Nat) /\ Len(pendingStreamLines) \in Nat
    BY <2>1, <2>2
  <2> QED BY <2>1, <2>2, <2>3
<1>2. StreamInOrder /\ FilesInOrder
  BY DEF OrderInv
<1>3. PICK before \in {<<>>, inAir}, after \in {<<>>, inAir} :
        Logger!Fallback([disk EXCEPT ![0] = @ \o before], Logger!AtHand, bytes, after)
  BY DEF Logger!Flush
<1>4. stream' = "none"
  BY <1>0, <1>1 DEF LogType
<1>5. bytes \in Nat
  BY <1>1
<1>6. CASE stream # "open"
  <2>1. before = <<>> /\ after = <<>> /\ Logger!AtHand = queuedLines /\ bytes = logBytes
    BY <1>3, <1>6 DEF Logger!AtHand
  <2>2. [disk EXCEPT ![0] = @ \o <<>>] = disk
    BY <1>1
  <2>3. Logger!Fallback(disk, queuedLines, logBytes, <<>>)
    BY <1>3, <2>1, <2>2
  <2>4. /\ Increasing(queuedLines) /\ Logger!ToSet(queuedLines) \subseteq 0 .. logged'
        /\ AllBelow(Held(disk) \cup retired, Logger!ToSet(queuedLines)) /\ logged' >= logged
    BY <1>0, <1>1, <1>2 DEF StreamInOrder, FilesInOrder, AllBelow
  <2> QED BY <1>0, <1>1, <1>2, <1>4, <2>3, <2>4, NewerFallback
<1>7. CASE stream = "open"
  <2> DEFINE lines == pendingStreamLines
             others == SubSeq(pendingStreamLines, flying + 1, Len(pendingStreamLines))
  <2>1. queuedLines = <<>>
    BY <1>7 DEF LogInv, StreamKept, Logger!NoneStuck
  <2>2. Logger!AtHand = lines
    BY <1>1, <1>7, <2>1 DEF Logger!AtHand
  <2>3. ~(bytes > 0 /\ bytes + Len(lines) > MAX_LOG_BYTES)
    <3>1. logBytes < MAX_LOG_BYTES /\ MAX_LOG_BYTES \in Nat
      BY <1>2, <1>7, JournalsAssumption DEF StreamInOrder
    <3> QED BY <1>1, <1>7, <3>1
  <2>4. /\ lines \in Seq(Nat) /\ Increasing(lines) /\ Ordered(lines) /\ Logger!ToSet(lines) \subseteq 0 .. logged
        /\ Logger!ToSet(lines) \subseteq Nat
    BY <1>1, <1>2, IncreasingIsOrdered, LinesAreNumbers DEF StreamInOrder
  <2>5. ASSUME NEW ls, ls \in {<<>>, inAir}
        PROVE  /\ ls \in Seq(Nat) /\ Increasing(ls) /\ Logger!ToSet(ls) \subseteq Logger!ToSet(lines)
               /\ Logger!ToSet(ls) \subseteq Unwritten
               /\ \A v \in Logger!ToSet(lines) \ Logger!ToSet(ls) : AllBelow(Logger!ToSet(ls), {v})
    <3>1. CASE ls = <<>>
      BY <1>1, <3>1 DEF Increasing, Logger!ToSet, AllBelow
    <3>2. CASE ls # <<>>
      <4>1. ls = SubSeq(lines, 1, flying) /\ ~landed
        BY <2>5, <3>2
      <4>2. /\ ls \in Seq(Nat) /\ Increasing(ls)
            /\ Logger!ToSet(lines) = Logger!ToSet(ls) \cup Logger!ToSet(others)
            /\ AllBelow(Logger!ToSet(ls), Logger!ToSet(others))
        BY <1>1, <2>4, <4>1, LinesOfSplit, IncreasingSplit
      <4>3. Unwritten = Logger!ToSet(lines)
        BY <4>1 DEF Unwritten, Logger!ToSet
      <4> HIDE DEF lines, others
      <4> QED BY <4>2, <4>3 DEF AllBelow
    <3> QED BY <3>1, <3>2
  <2>6. Logger!ToSet(lines) \subseteq Written \cup Unwritten
    BY <1>1 DEF Written, Unwritten, Logger!ToSet
  <2>7. /\ before \in Seq(Nat) /\ Increasing(before) /\ Logger!ToSet(before) \subseteq Logger!ToSet(lines)
        /\ Logger!ToSet(before) \subseteq Unwritten
        /\ \A v \in Logger!ToSet(lines) \ Logger!ToSet(before) : AllBelow(Logger!ToSet(before), {v})
    BY <1>3, <2>5
  <2>8. /\ after \in Seq(Nat) /\ Increasing(after) /\ Logger!ToSet(after) \subseteq Logger!ToSet(lines)
    BY <1>3, <2>5
  <2>9. Logger!Fallback([disk EXCEPT ![0] = @ \o before], lines, bytes, after)
    BY <1>3, <2>2
  <2>10. AllBelow(Held(disk) \cup retired, Unwritten) /\ Written \subseteq Logger!ToSet(disk[0])
         /\ (raced \/ NoneAbove(retired, Held(disk))) /\ InOrder(disk)
    BY <1>2 DEF FilesInOrder, AllBelow
  <2>11. Held(disk) \cup retired \subseteq Nat /\ \A f \in Logger!Backup : Logger!ToSet(disk[f]) \subseteq Held(disk)
    BY <1>1, <1>2 DEF FilesInOrder, Held
  <2> HIDE DEF lines, others, bytes, inAir
  <2>12. ASSUME NEW d, d = [disk EXCEPT ![0] = @ \o before], NEW all, all = lines \o after
         PROVE  OrderInv'
    <3>1. AllBelow(Held(disk) \cup retired, Logger!ToSet(before))
      BY <2>7, <2>10 DEF AllBelow
    <3>2. /\ d \in [Logger!Backup -> Seq(Nat)] /\ InOrder(d)
          /\ Held(d) = Held(disk) \cup Logger!ToSet(before)
          /\ Logger!ToSet(d[0]) = Logger!ToSet(disk[0]) \cup Logger!ToSet(before)
          /\ \A f \in Logger!Backup : f # 0 => d[f] = disk[f]
      BY <1>1, <1>2, <2>7, <2>12, <3>1, NewerWritten
    <3>3. all \in Seq(Nat) /\ Ordered(all) /\ Logger!ToSet(all) = Logger!ToSet(lines)
      <4>1. \A v \in Logger!ToSet(after) : Admits(lines, v)
        BY <2>4, <2>8 DEF Ordered
      <4>2. Ordered(after)
        BY <2>8, IncreasingIsOrdered
      <4>3. Ordered(all)
        BY <2>4, <2>8, <2>12, <4>1, <4>2, OrderedJoined
      <4>4. Logger!ToSet(all) = Logger!ToSet(lines) \cup Logger!ToSet(after)
        BY <2>4, <2>8, <2>12, LinesOfJoined
      <4>5. all \in Seq(Nat)
        BY <2>4, <2>8, <2>12
      <4> QED BY <2>8, <4>3, <4>4, <4>5
    <3>4. ASSUME NEW v \in Logger!ToSet(lines) PROVE Admits(d[0], v)
      <4>1. CASE v \in Logger!ToSet(d[0])
        BY <1>1, <3>2, <4>1 DEF InOrder, Ordered
      <4>2. CASE v \notin Logger!ToSet(d[0])
        <5>1. v \in Unwritten /\ v \notin Logger!ToSet(before)
          BY <2>6, <2>10, <3>2, <3>4, <4>2
        <5>2. ASSUME NEW x \in Logger!ToSet(d[0]) PROVE x <= v
          <6>1. x < v
            BY <1>1, <2>7, <2>10, <2>11, <3>2, <3>4, <5>1, <5>2 DEF AllBelow
          <6>2. x \in Nat /\ v \in Nat
            BY <1>1, <2>4, <2>7, <2>11, <3>2, <3>4, <5>2
          <6> QED BY <6>1, <6>2
        <5>3. d[0] \in Seq(Nat) /\ v \in Nat
          BY <1>1, <2>4, <3>2, <3>4
        <5> QED BY <5>2, <5>3, AdmitsNewer
      <4> QED BY <4>1, <4>2
    <3>5. ASSUME NEW f \in Logger!Backup, f # 0
          PROVE  NoneAbove(Logger!ToSet(disk[f]), Logger!ToSet(lines))
      <4>1. NoneAbove(Logger!ToSet(disk[f]), Logger!ToSet(disk[0]))
        <5>1. f > 0
          BY <3>5, JournalsAssumption DEF Logger!Backup
        <5> QED BY <1>1, <2>10, <5>1 DEF InOrder
      <4> SUFFICES ASSUME NEW x \in Logger!ToSet(disk[f]), NEW v \in Logger!ToSet(lines) PROVE x <= v
        BY DEF NoneAbove
      <4>2. CASE v \in Written
        BY <2>10, <4>1, <4>2 DEF NoneAbove
      <4>3. CASE v \in Unwritten
        <5>1. x < v /\ x \in Nat /\ v \in Nat
          BY <2>4, <2>10, <2>11, <4>3 DEF AllBelow
        <5> QED BY <5>1
      <4> QED BY <2>6, <4>2, <4>3
    <3>6. raced \/ NoneAbove(retired, Logger!ToSet(all))
      <4> SUFFICES ASSUME ~raced, NEW x \in retired, NEW v \in Logger!ToSet(lines) PROVE x <= v
        BY <3>3 DEF NoneAbove
      <4>1. CASE v \in Written
        BY <1>1, <2>10, <2>11, <4>1 DEF NoneAbove
      <4>2. CASE v \in Unwritten
        <5>1. x < v /\ x \in Nat /\ v \in Nat
          BY <2>4, <2>10, <2>11, <4>2 DEF AllBelow
        <5> QED BY <5>1
      <4> QED BY <2>6, <4>1, <4>2
    <3>7. Held(d) \subseteq Held(disk) \cup Logger!ToSet(all) /\ Logger!ToSet(all) \subseteq 0 .. logged'
      BY <1>0, <2>4, <2>7, <3>2, <3>3
    <3>8. ~Logger!RotatesSync(d, lines, bytes)
      BY <2>3 DEF Logger!RotatesSync
    <3>9. /\ \A v \in Logger!ToSet(all) : Admits(d[0], v)
          /\ \A f \in Logger!Backup : f # 0 => NoneAbove(Logger!ToSet(disk[f]), Logger!ToSet(all))
      BY <3>3, <3>4, <3>5
    <3>10. Logger!Fallback(d, lines, bytes, after) /\ logged' >= logged
      BY <1>0, <1>1, <2>9, <2>12
    <3> QED BY <1>0, <1>2, <1>4, <1>5, <2>4, <2>8, <2>12, <3>2, <3>3, <3>6, <3>7, <3>8, <3>9, <3>10,
               FallbackOrders
  <2> QED BY <2>12
<1> QED BY <1>6, <1>7

LEMMA ReenableOrders == ASSUME LogInv, LogInv', OrderInv, Logger!Reenable PROVE OrderInv'
<1>1. /\ UNCHANGED <<early, disk, at, retired, raced, stream, pendingStreamLines, flying, landed,
                     queuedLines, logBytes, step, logged>>
      /\ logStreamUnavailable' \in {logStreamUnavailable, FALSE}
      /\ ready' \in {"dir", ready}
  BY DEF Logger!Reenable, Logger!files, Logger!streaming, Logger!counts
<1>2. CASE early
  BY <1>1, <1>2 DEF OrderInv
<1>3. CASE ~early
  <2>1. stream # "none" => ~logStreamUnavailable'
    BY <1>1, <1>3 DEF OrderInv, StreamInOrder
  <2> QED BY <1>1, <2>1, OrderUntouched
<1> QED BY <1>2, <1>3

LEMMA OrderStep == ASSUME LogInv, LogInv', OrderInv, Logger!Next PROVE OrderInv'
BY LogOrders, LandOrders, CallbackOrders, StreamFailsOrders, StreamEndedOrders, DirOrders, StatOrders,
   MoveOrders, CreateOrders, OpenFailsOrders, FlushOrders, ReenableOrders DEF Logger!Next

LEMMA OrderIdle == ASSUME LogInv, OrderInv, UNCHANGED logVars PROVE OrderInv'
<1>1. CASE early
  BY <1>1 DEF OrderInv, logVars
<1>2. CASE ~early
  <2>1. stream # "none" => ~logStreamUnavailable'
    BY <1>2 DEF OrderInv, StreamInOrder, logVars
  <2> QED BY <2>1, OrderUntouched DEF logVars
<1> QED BY <1>1, <1>2

LEMMA OrderInvInit == Logger!Init => OrderInv
<1> SUFFICES ASSUME Logger!Init PROVE OrderInv
  OBVIOUS
<1>1. PICK before \in {0, MAX_LOG_BYTES} :
        disk = [i \in Logger!Backup |-> IF i = 0 THEN [n \in 1 .. before |-> 0] ELSE <<>>]
  BY DEF Logger!Init
<1>2. /\ stream = "none" /\ pendingStreamLines = <<>> /\ flying = 0 /\ landed = FALSE /\ queuedLines = <<>>
      /\ retired = {} /\ ready = "none" /\ logged = 0
  BY DEF Logger!Init
<1>3. Logger!ToSet(<<>>) = {} /\ Ordered(<<>>) /\ Increasing(<<>>)
  BY DEF Logger!ToSet, Ordered, Increasing
<1>4. \A f \in Logger!Backup : Logger!ToSet(disk[f]) \subseteq {0} /\ Ordered(disk[f])
  <2>1. Logger!ToSet([n \in 1 .. before |-> 0]) \subseteq {0}
    BY DEF Logger!ToSet
  <2>2. Ordered([n \in 1 .. before |-> 0])
    BY DEF Ordered, Admits, Logger!ToSet
  <2> QED BY <1>1, <1>3, <2>1, <2>2
<1>5. InOrder(disk) /\ Held(disk) \subseteq {0}
  BY <1>4 DEF InOrder, NoneAbove, Held
<1>6. Written = {} /\ Unwritten = {}
  BY <1>2 DEF Written, Unwritten
<1>7. FilesInOrder
  BY <1>2, <1>3, <1>5, <1>6 DEF FilesInOrder, AllBelow, NoneAbove
<1>8. StreamInOrder
  BY <1>2, <1>3 DEF StreamInOrder, AllBelow
<1> QED BY <1>7, <1>8 DEF OrderInv

(* What the invariant says of the log.                                        *)
LEMMA OrderIsKept ==
  ASSUME LogInv, OrderInv
  PROVE  Logger!OrderKept /\ Logger!OldestRemoved
<1> SUFFICES ASSUME ~early PROVE Logger!OrderKept /\ Logger!OldestRemoved
  BY DEF Logger!OrderKept, Logger!OldestRemoved
<1>1. FilesInOrder /\ InOrder(disk) /\ Held(disk) = Logger!OnDisk
  BY DEF OrderInv, FilesInOrder, Held, Logger!OnDisk
<1>2. Logger!OldestRemoved
  BY <1>1 DEF Logger!OldestRemoved, FilesInOrder, NoneAbove
<1>3. disk \in [Logger!Backup -> Seq(Nat)] /\ \A f \in Logger!Backup : f \in Nat
  BY JournalsAssumption DEF LogInv, LogType, Logger!Backup
<1>4. ASSUME NEW p \in Logger!Position
      PROVE  /\ p[1] \in Logger!Backup /\ p[2] \in DOMAIN disk[p[1]] /\ p = <<p[1], p[2]>>
             /\ Logger!Line(p) \in Logger!ToSet(disk[p[1]]) /\ Logger!Line(p) \in Nat /\ p[2] \in Nat
  <2>1. PICK f \in Logger!Backup : p \in {f} \X DOMAIN disk[f]
    BY <1>4 DEF Logger!Position
  <2>2. p[1] = f /\ p[2] \in DOMAIN disk[f] /\ p = <<p[1], p[2]>> /\ disk[f] \in Seq(Nat)
    BY <1>3, <2>1
  <2> QED BY <2>2 DEF Logger!Line, Logger!ToSet
<1>5. ASSUME NEW p \in Logger!Position, NEW q \in Logger!Position, Logger!Before(p, q),
             Logger!Line(p) > Logger!Line(q)
      PROVE  \E r \in Logger!Position : Logger!Before(r, p) /\ Logger!Line(r) = Logger!Line(q)
  <2> DEFINE f == p[1]
             v == Logger!Line(q)
  <2>1. f = q[1]
    <3> SUFFICES ASSUME f > q[1] PROVE FALSE
      BY <1>5 DEF Logger!Before
    <3> QED BY <1>1, <1>4, <1>5 DEF InOrder, NoneAbove
  <2>2. /\ f \in Logger!Backup /\ v \in Logger!ToSet(disk[f]) /\ p[2] \in DOMAIN disk[f]
        /\ disk[f][p[2]] > v /\ p[2] \in Nat /\ disk[f] \in Seq(Nat)
    BY <1>3, <1>4, <1>5, <2>1 DEF Logger!Line
  <2>3. PICK h \in 1 .. p[2] - 1 : disk[f][h] = v
    BY <1>1, <2>2 DEF InOrder, Ordered, Admits
  <2>4. h \in DOMAIN disk[f] /\ h < p[2]
    BY <2>2, <2>3
  <2> DEFINE r == <<f, h>>
  <2>5. r \in Logger!Position /\ Logger!Before(r, p) /\ Logger!Line(r) = v
    BY <2>2, <2>3, <2>4 DEF Logger!Position, Logger!Before, Logger!Line
  <2> QED BY <2>5
<1>6. Logger!OrderKept
  BY <1>5 DEF Logger!OrderKept
<1> QED BY <1>2, <1>6

----------------------------------------------------------------------------
(* The ledger's own operations.                                               *)
LEMMA FreshLedger ==
  /\ Ledger!FreshState \in LedgerState
  /\ Ledger!FreshState.open = {} /\ Ledger!FreshState.finalized = FALSE
  /\ Ledger!FreshState.providers = <<>> /\ Ledger!FreshState.handlers = <<>>
  /\ Ledger!FreshState.detached = <<>> /\ Ledger!FreshState.failures = <<>>
BY DEF Ledger!FreshState, Ledger!NoCounts, LedgerState, Count

LEMMA PhaseStarts ==
  ASSUME NEW s \in LedgerState, NEW name \in Phase
  PROVE  LET t == Ledger!StartPhase(s, name)
         IN /\ t \in LedgerState /\ t.open = s.open \cup {name} /\ t.finalized = s.finalized
            /\ t.providers = s.providers /\ t.handlers = s.handlers /\ t.detached = s.detached
            /\ t.failures = s.failures
BY DEF Ledger!StartPhase, LedgerState

LEMMA PhaseEnds ==
  ASSUME NEW s \in LedgerState, NEW name \in Phase
  PROVE  LET t == Ledger!EndPhase(s, name)
         IN /\ t \in LedgerState /\ t.open = s.open \ {name} /\ t.finalized = s.finalized
            /\ t.providers = s.providers /\ t.handlers = s.handlers /\ t.detached = s.detached
            /\ t.failures = s.failures
<1>1. CASE name \in s.open
  <2>1. s.open \ {name} \in SUBSET Phase /\ s.phases \cup {name} \in SUBSET Phase
    BY DEF LedgerState
  <2> DEFINE z == [s EXCEPT !.open = @ \ {name}, !.phases = @ \cup {name}]
  <2>2. z \in LedgerState /\ z.open = s.open \ {name} /\ z.finalized = s.finalized
        /\ z.providers = s.providers /\ z.handlers = s.handlers /\ z.detached = s.detached
        /\ z.failures = s.failures
    BY <2>1 DEF LedgerState
  <2>3. Ledger!EndPhase(s, name) = z
    BY <1>1 DEF Ledger!EndPhase
  <2> HIDE DEF z
  <2> QED BY <2>2, <2>3
<1>2. CASE name \notin s.open
  BY <1>2 DEF Ledger!EndPhase
<1> QED BY <1>1, <1>2

(* A record of a handler, or of detached work, and its failure.               *)
LEMMA HandlerRecords ==
  ASSUME NEW s \in LedgerState, NEW w \in Work, NEW ok \in BOOLEAN
  PROVE  LET t == Ledger!HandlerRecorded(s, w, ok)
         IN /\ t \in LedgerState /\ t.open = s.open /\ t.finalized = s.finalized
            /\ t.providers = s.providers /\ t.detached = s.detached
            /\ t.handlers = Append(s.handlers, [work |-> w, ok |-> ok])
            /\ t.failures = IF ok THEN s.failures ELSE Append(s.failures, w)
<1> DEFINE hs == Append(s.handlers, [work |-> w, ok |-> ok])
           z == [s EXCEPT !.handlers = hs]
<1>1. hs \in Seq(Record) /\ Append(s.failures, w) \in Seq(Work)
  BY DEF LedgerState, Record
<1>2. Ledger!HandlerRecorded(s, w, ok) = Ledger!Failing(z, w, ok)
  BY DEF Ledger!HandlerRecorded
<1> HIDE DEF hs
<1>3. /\ z \in LedgerState /\ z.open = s.open /\ z.finalized = s.finalized
      /\ z.providers = s.providers /\ z.detached = s.detached /\ z.handlers = hs
      /\ z.failures = s.failures
  BY <1>1 DEF LedgerState
<1> HIDE DEF z
<1>4. CASE ok
  BY <1>2, <1>3, <1>4 DEF Ledger!Failing, hs
<1>5. CASE ~ok
  <2> DEFINE y == [z EXCEPT !.failures = Append(@, w)]
  <2>1. /\ y \in LedgerState /\ y.open = s.open /\ y.finalized = s.finalized
        /\ y.providers = s.providers /\ y.detached = s.detached /\ y.handlers = hs
        /\ y.failures = Append(s.failures, w)
    BY <1>1, <1>3 DEF LedgerState
  <2>2. Ledger!HandlerRecorded(s, w, ok) = y
    BY <1>2, <1>5 DEF Ledger!Failing
  <2> HIDE DEF y
  <2> QED BY <1>5, <2>1, <2>2 DEF hs
<1> QED BY <1>4, <1>5

LEMMA DetachedRecords ==
  ASSUME NEW s \in LedgerState, NEW w \in Work, NEW ok \in BOOLEAN
  PROVE  LET t == Ledger!DetachedRecorded(s, w, ok)
         IN /\ t \in LedgerState /\ t.open = s.open /\ t.finalized = s.finalized
            /\ t.providers = s.providers /\ t.handlers = s.handlers
            /\ t.detached = Append(s.detached, [work |-> w, ok |-> ok])
            /\ t.failures = IF ok THEN s.failures ELSE Append(s.failures, w)
<1> DEFINE hs == Append(s.detached, [work |-> w, ok |-> ok])
           z == [s EXCEPT !.detached = hs]
<1>1. hs \in Seq(Record) /\ Append(s.failures, w) \in Seq(Work)
  BY DEF LedgerState, Record
<1>2. Ledger!DetachedRecorded(s, w, ok) = Ledger!Failing(z, w, ok)
  BY DEF Ledger!DetachedRecorded
<1> HIDE DEF hs
<1>3. /\ z \in LedgerState /\ z.open = s.open /\ z.finalized = s.finalized
      /\ z.providers = s.providers /\ z.handlers = s.handlers /\ z.detached = hs
      /\ z.failures = s.failures
  BY <1>1 DEF LedgerState
<1> HIDE DEF z
<1>4. CASE ok
  BY <1>2, <1>3, <1>4 DEF Ledger!Failing, hs
<1>5. CASE ~ok
  <2> DEFINE y == [z EXCEPT !.failures = Append(@, w)]
  <2>1. /\ y \in LedgerState /\ y.open = s.open /\ y.finalized = s.finalized
        /\ y.providers = s.providers /\ y.handlers = s.handlers /\ y.detached = hs
        /\ y.failures = Append(s.failures, w)
    BY <1>1, <1>3 DEF LedgerState
  <2>2. Ledger!DetachedRecorded(s, w, ok) = y
    BY <1>2, <1>5 DEF Ledger!Failing
  <2> HIDE DEF y
  <2> QED BY <1>5, <2>1, <2>2 DEF hs
<1> QED BY <1>4, <1>5

(* A sequence that has one element more.                                      *)
LEMMA RecordsOfAppended ==
  ASSUME NEW S, NEW s \in Seq(S), NEW x \in S
  PROVE  Ledger!ToSet(Append(s, x)) = Ledger!ToSet(s) \cup {x}
<1> DEFINE t == Append(s, x)
<1>1. /\ t \in Seq(S) /\ Len(s) \in Nat /\ Len(t) = Len(s) + 1 /\ t[Len(s) + 1] = x
      /\ \A i \in 1 .. Len(s) : t[i] = s[i]
  OBVIOUS
<1> HIDE DEF t
<1>2. \A y \in Ledger!ToSet(t) : y \in Ledger!ToSet(s) \cup {x}
  BY <1>1 DEF Ledger!ToSet
<1>3. \A y \in Ledger!ToSet(s) : y \in Ledger!ToSet(t)
  BY <1>1 DEF Ledger!ToSet
<1>4. x \in Ledger!ToSet(t)
  <2>1. Len(s) + 1 \in 1 .. Len(t)
    BY <1>1
  <2> QED BY <1>1, <2>1 DEF Ledger!ToSet
<1> QED BY <1>2, <1>3, <1>4 DEF t

LEMMA WithRecord ==
  \A s \in Seq(Record), r \in Record : Ledger!ToSet(Append(s, r)) = Ledger!ToSet(s) \cup {r}
BY RecordsOfAppended, Zenon
LEMMA WithFailure ==
  \A s \in Seq(Work), w \in Work : Ledger!ToSet(Append(s, w)) = Ledger!ToSet(s) \cup {w}
BY RecordsOfAppended, Zenon

LEMMA HandlersListed ==
  Ledger!Handlers \in Seq(Work) /\ \A i \in DOMAIN Ledger!Handlers : Ledger!Handlers[i] # "window"
<1> DEFINE n == Cardinality(Work)
<1>1. n \in Nat /\ ExistsBijection(1 .. n, Work)
  BY FS_CardinalityType, JournalsAssumption
<1>2. \E f \in [1 .. n -> Work] : Ledger!IsInjective(f)
  BY <1>1 DEF ExistsBijection, Bijection, Injection, Ledger!IsInjective, IsInjective
<1>3. Ledger!Handlers \in [1 .. n -> Work]
  <2>1. Ledger!Cardinality(Work) = n
    BY DEF Ledger!Cardinality, Cardinality
  <2> HIDE DEF n
  <2> QED BY <1>2, <2>1 DEF Ledger!Handlers, Ledger!SetToSeq
<1> QED BY <1>1, <1>3, JournalsAssumption

(* What WindowHoldsSession says of the handlers that returned and the lists.  *)
Accounts(done, hs, ds, fs) ==
  /\ \A w \in done : \E r \in Ledger!ToSet(hs) : r.work = w
  /\ \A w \in Work : w \in Ledger!ToSet(fs) <=>
       \E r \in Ledger!ToSet(hs) \cup Ledger!ToSet(ds) : r.work = w /\ ~r.ok
LEMMA WindowNow ==
  Ledger!WindowHoldsSession <=> Accounts(returned, state.handlers, state.detached, state.failures)
BY DEF Ledger!WindowHoldsSession, Accounts
LEMMA WindowNext ==
  Ledger!WindowHoldsSession'
    <=> Accounts(returned', state'.handlers, state'.detached, state'.failures)
BY DEF Ledger!WindowHoldsSession, Accounts
LEMMA EmptyAccount == Accounts({}, <<>>, <<>>, <<>>)
BY DEF Accounts, Ledger!ToSet

LEMMA LedgerInvInit == Ledger!Init => LedgerInv
<1> SUFFICES ASSUME Ledger!Init PROVE LedgerInv
  OBVIOUS
<1>1. /\ setup = [p \in Provider |-> "none"] /\ entry = "out" /\ listeners = <<>> /\ queue = <<>>
      /\ running = "none" /\ returned = {} /\ underway = {} /\ runner = 0
      /\ handlersRegisteredFor = 0 /\ state = Ledger!FreshState
  BY DEF Ledger!Init, Ledger!None
<1>2. LedgerType
  BY <1>1, FreshLedger DEF LedgerType
<1>3. SetupInv
  <2>1. Done = {}
    BY <1>1 DEF Done, Settled
  <2> QED BY <1>1, <2>1, FreshLedger, FS_EmptySet DEF SetupInv
<1>4. WindowInv
  BY <1>1 DEF WindowInv
<1>5. Ledger!WindowHoldsSession
  BY <1>1, FreshLedger, WindowNow, EmptyAccount
<1> QED BY <1>2, <1>3, <1>4, <1>5 DEF LedgerInv

(* piFreeEntry: every entry starts a fresh ledger.                            *)
LEMMA EnterKeeps == ASSUME LedgerInv, Ledger!Enter PROVE LedgerInv'
<1>1. /\ queue = <<>> /\ running = "none" /\ runner' \in {runner, runner + 1} \ {0}
      /\ state' = Ledger!StartPhase(Ledger!FreshState, "global-handlers")
      /\ handlersRegisteredFor' = runner' /\ entry' = "handlers"
      /\ setup' = [p \in Provider |-> "none"] /\ returned' = {}
      /\ UNCHANGED <<queue, running, underway>>
      /\ listeners' = (IF runner' = runner THEN listeners ELSE <<>>)
                        \o (IF handlersRegisteredFor # runner' THEN <<"window">> ELSE <<>>)
  BY DEF Ledger!Enter, Ledger!None, Ledger!Registers, Ledger!Window
<1>2. LedgerType /\ listeners \in Seq(Listener) /\ runner \in Nat /\ handlersRegisteredFor = runner
      /\ (runner = 0 => listeners = <<>>)
      /\ \A i \in DOMAIN listeners : listeners[i] = "window" => i = 1
  BY DEF LedgerInv, LedgerType, WindowInv
<1>3. listeners' \in Seq(Listener) /\ runner' \in Nat \ {0}
      /\ \A i \in DOMAIN listeners' : listeners'[i] = "window" => i = 1
  <2>1. CASE runner' = runner
    <3>1. listeners' = listeners
      BY <1>1, <1>2, <2>1
    <3> QED BY <1>1, <1>2, <2>1, <3>1
  <2>2. CASE runner' # runner
    <3>1. listeners' = <<"window">>
      BY <1>1, <1>2, <2>2
    <3> QED BY <1>1, <1>2, <2>2, <3>1 DEF Listener
  <2> QED BY <2>1, <2>2
<1>4. /\ state' \in LedgerState /\ state'.open = {"global-handlers"} /\ state'.finalized = FALSE
      /\ state'.providers = <<>> /\ state'.handlers = <<>> /\ state'.detached = <<>>
      /\ state'.failures = <<>>
  <2>1. "global-handlers" \in Phase
    BY DEF Phase
  <2> QED BY <1>1, <2>1, FreshLedger, PhaseStarts
<1>5. LedgerType'
  BY <1>1, <1>2, <1>3, <1>4 DEF LedgerType
<1>6. SetupInv'
  <2>1. Done' = {}
    BY <1>1 DEF Done, Settled
  <2> QED BY <1>1, <1>4, <2>1, FS_EmptySet DEF SetupInv
<1>7. WindowInv'
  <2>1. \A i \in DOMAIN queue' : FALSE
    BY <1>1
  <2>2. runner' # 0 /\ handlersRegisteredFor' = runner'
    BY <1>1, <1>3
  <2> QED BY <1>3, <2>1, <2>2 DEF WindowInv
<1>8. Ledger!WindowHoldsSession'
  BY <1>1, <1>4, WindowNext, EmptyAccount
<1> QED BY <1>5, <1>6, <1>7, <1>8 DEF LedgerInv

(* Only the phases and what the entry counts changed.                         *)
LEMMA SessionUntouched ==
  ASSUME Ledger!WindowHoldsSession, returned' = returned, state'.handlers = state.handlers,
         state'.detached = state.detached, state'.failures = state.failures
  PROVE  Ledger!WindowHoldsSession'
BY WindowNow, WindowNext

LEMMA SetupsBeginKeeps == ASSUME LedgerInv, Ledger!SetupsBegin PROVE LedgerInv'
<1>1. /\ entry = "handlers" /\ entry' = "providers"
      /\ state' = Ledger!StartPhase(Ledger!EndPhase(state, "global-handlers"), "providers")
      /\ setup' = [p \in Provider |-> "running"] /\ listeners' = listeners \o Ledger!Handlers
      /\ UNCHANGED <<runner, handlersRegisteredFor, queue, running, underway, returned>>
  BY DEF Ledger!SetupsBegin
<1>2. /\ LedgerType /\ SetupInv /\ state \in LedgerState /\ listeners \in Seq(Listener)
      /\ state.open = {"global-handlers"} /\ ~state.finalized
      /\ \A p \in Provider : setup[p] = "none"
  BY <1>1 DEF LedgerInv, LedgerType, SetupInv
<1>3. /\ state' \in LedgerState /\ state'.open = {"providers"} /\ ~state'.finalized
      /\ state'.providers = state.providers /\ state'.handlers = state.handlers
      /\ state'.detached = state.detached /\ state'.failures = state.failures
  <2> DEFINE s == Ledger!EndPhase(state, "global-handlers")
  <2>1. /\ s \in LedgerState /\ s.open = state.open \ {"global-handlers"}
        /\ s.finalized = state.finalized
        /\ s.providers = state.providers /\ s.handlers = state.handlers
        /\ s.detached = state.detached /\ s.failures = state.failures
    BY <1>2, PhaseEnds DEF Phase
  <2>2. state' = Ledger!StartPhase(s, "providers") /\ "providers" \in Phase
    BY <1>1 DEF Phase
  <2> HIDE DEF s
  <2>3. /\ state' \in LedgerState /\ state'.open = s.open \cup {"providers"}
        /\ state'.finalized = s.finalized
        /\ state'.providers = s.providers /\ state'.handlers = s.handlers
        /\ state'.detached = s.detached /\ state'.failures = s.failures
    BY <2>1, <2>2, PhaseStarts
  <2> QED BY <1>2, <2>1, <2>3
<1>4. /\ listeners' \in Seq(Listener)
      /\ \A i \in DOMAIN listeners' : listeners'[i] = "window" => i = 1
  <2> DEFINE hs == Ledger!Handlers
  <2>1. hs \in Seq(Work) /\ \A i \in DOMAIN hs : hs[i] # "window"
    BY HandlersListed
  <2>2. hs \in Seq(Listener) /\ Len(hs) \in Nat /\ listeners' = listeners \o hs
    BY <1>1, <2>1 DEF Listener
  <2> HIDE DEF hs
  <2>3. listeners' \in Seq(Listener) /\ Len(listeners') = Len(listeners) + Len(hs)
    BY <1>2, <2>2
  <2>4. ASSUME NEW i \in 1 .. Len(listeners'), listeners'[i] = "window" PROVE i = 1
    <3>1. CASE i <= Len(listeners)
      BY <1>2, <2>2, <2>4, <3>1 DEF LedgerInv, WindowInv
    <3>2. CASE i > Len(listeners)
      <4>1. i - Len(listeners) \in 1 .. Len(hs) /\ listeners'[i] = hs[i - Len(listeners)]
        BY <1>2, <2>2, <2>3, <3>2
      <4> QED BY <2>1, <2>2, <2>4, <4>1
    <3> QED BY <1>2, <3>1, <3>2
  <2> QED BY <2>3, <2>4
<1>5. LedgerType'
  BY <1>1, <1>2, <1>3, <1>4 DEF LedgerType
<1>6. SetupInv'
  <2>1. Done' = {} /\ Done = {}
    BY <1>1, <1>2 DEF Done, Settled
  <2> QED BY <1>1, <1>2, <1>3, <2>1 DEF SetupInv
<1>7. WindowInv'
  BY <1>1, <1>4 DEF LedgerInv, WindowInv
<1>8. Ledger!WindowHoldsSession'
  BY <1>1, <1>3, SessionUntouched DEF LedgerInv
<1> QED BY <1>5, <1>6, <1>7, <1>8 DEF LedgerInv

(* A setup that ends is timed once, with its outcome.                         *)
LEMMA SetupEndsKeeps ==
  ASSUME LedgerInv, NEW p \in Provider, Ledger!SetupEnds(p)
  PROVE  LedgerInv'
<1>1. PICK ok \in BOOLEAN :
        /\ setup' = [setup EXCEPT ![p] = IF ok THEN "ok" ELSE "failed"]
        /\ state' = [state EXCEPT !.providers = Append(@, [provider |-> p, ok |-> ok])]
  BY DEF Ledger!SetupEnds
<1>2. /\ setup[p] = "running"
      /\ UNCHANGED <<entry, runner, handlersRegisteredFor, listeners, queue, running, underway,
                     returned>>
  BY DEF Ledger!SetupEnds
<1>3. /\ LedgerType /\ SetupInv /\ state \in LedgerState
      /\ setup \in [Provider -> {"none", "running", "ok", "failed"}]
  BY DEF LedgerInv, LedgerType
<1> DEFINE r == [provider |-> p, ok |-> ok]
           rs == Append(state.providers, r)
<1>4. /\ rs \in Seq(SetupRecord)
      /\ Len(rs) = Len(state.providers) + 1 /\ Len(state.providers) \in Nat
      /\ Ledger!ToSet(rs) = Ledger!ToSet(state.providers) \cup {r}
  <2>1. state.providers \in Seq(SetupRecord)
        /\ r \in SetupRecord
    BY <1>3 DEF LedgerState, SetupRecord
  <2> HIDE DEF r
  <2>2. rs \in Seq(SetupRecord)
        /\ Len(rs) = Len(state.providers) + 1 /\ Len(state.providers) \in Nat
    BY <2>1
  <2>3. Ledger!ToSet(rs) = Ledger!ToSet(state.providers) \cup {r}
    BY <2>1, RecordsOfAppended, ZenonT(40)
  <2> QED BY <2>2, <2>3
<1>5. state' = [state EXCEPT !.providers = rs]
  BY <1>1
<1> HIDE DEF rs
<1>6. /\ state' \in LedgerState /\ state'.providers = rs /\ state'.open = state.open
      /\ state'.finalized = state.finalized /\ state'.handlers = state.handlers
      /\ state'.detached = state.detached /\ state'.failures = state.failures
  BY <1>3, <1>4, <1>5 DEF LedgerState
<1>7. LedgerType'
  BY <1>1, <1>2, <1>3, <1>6 DEF LedgerType
<1>8. /\ p \notin Done /\ Done' = Done \cup {p} /\ entry = "providers"
      /\ setup'[p] = (IF ok THEN "ok" ELSE "failed")
      /\ \A q \in Done : q # p /\ setup'[q] = setup[q]
  BY <1>1, <1>2, <1>3 DEF Done, Settled, SetupInv, LedgerType
<1>9. SetupInv'
  <2>1. Len(state'.providers) = Cardinality(Done')
    <3>1. IsFiniteSet(Done)
      BY FS_Subset, JournalsAssumption DEF Done
    <3>2. Cardinality(Done \cup {p}) = Cardinality(Done) + 1
      BY <1>8, <3>1, FS_AddElement
    <3>3. Len(state.providers) = Cardinality(Done)
      BY <1>3 DEF SetupInv
    <3> QED BY <1>4, <1>6, <1>8, <3>2, <3>3
  <2>2. ASSUME NEW q \in Done'
        PROVE  [provider |-> q, ok |-> setup'[q] = "ok"] \in Ledger!ToSet(state'.providers)
    <3>1. CASE q = p
      <4>1. (setup'[p] = "ok") = ok
        BY <1>8
      <4>2. [provider |-> q, ok |-> setup'[q] = "ok"] = r
        BY <3>1, <4>1
      <4> QED BY <1>4, <1>6, <4>2
    <3>2. CASE q # p
      <4>1. q \in Done /\ setup'[q] = setup[q]
        BY <1>8, <3>2
      <4>2. [provider |-> q, ok |-> setup[q] = "ok"] \in Ledger!ToSet(state.providers)
        BY <1>3, <4>1 DEF SetupInv
      <4> QED BY <1>4, <1>6, <4>1, <4>2
    <3> QED BY <3>1, <3>2
  <2>3. /\ entry' = "providers" /\ state'.open = {"providers"} /\ ~state'.finalized
    BY <1>2, <1>3, <1>6, <1>8 DEF SetupInv
  <2>4. /\ entry' = "handlers" => state'.open = {"global-handlers"}
        /\ entry' = "providers" => state'.open = {"providers"}
        /\ entry' = "in" => state'.open = {} /\ Done' = Provider
        /\ entry' \in {"out", "handlers"} => \A q \in Provider : setup'[q] = "none"
        /\ state'.finalized => entry' = "in"
    BY <2>3
  <2> QED BY <2>1, <2>2, <2>4 DEF SetupInv, Ledger!ToSet
<1>10. WindowInv'
  BY <1>2 DEF LedgerInv, WindowInv
<1>11. Ledger!WindowHoldsSession'
  BY <1>2, <1>6, SessionUntouched DEF LedgerInv
<1> QED BY <1>7, <1>9, <1>10, <1>11 DEF LedgerInv

(* The setups and their records are as they were.                             *)
LEMMA SetupUntouched ==
  ASSUME SetupInv, UNCHANGED <<setup, entry>>, state'.providers = state.providers,
         state'.open = state.open, state'.finalized = state.finalized
  PROVE  SetupInv'
<1>1. Done' = Done
  BY DEF Done, Settled
<1> QED BY <1>1 DEF SetupInv, Ledger!ToSet

LEMMA EntryEndsKeeps == ASSUME LedgerInv, Ledger!EntryEnds PROVE LedgerInv'
<1> DEFINE s == Ledger!EndPhase(state, "providers")
<1>1. /\ entry = "providers" /\ entry' = "in"
      /\ \A p \in Provider : setup[p] \in {"ok", "failed"}
      /\ state' = [s EXCEPT !.finalized = TRUE,
                            !.phases = @ \cup {"built-in-toggles", "global-filter"}]
      /\ UNCHANGED <<setup, runner, handlersRegisteredFor, listeners, queue, running, underway,
                     returned>>
  BY DEF Ledger!EntryEnds, Ledger!AllSettled
<1>2. /\ LedgerType /\ SetupInv /\ state \in LedgerState /\ state.open = {"providers"}
  BY <1>1 DEF LedgerInv, LedgerType, SetupInv
<1>3. /\ s \in LedgerState /\ s.open = {} /\ s.providers = state.providers
      /\ s.handlers = state.handlers /\ s.detached = state.detached /\ s.failures = state.failures
  <2>1. "providers" \in Phase
    BY DEF Phase
  <2> QED BY <1>2, <2>1, PhaseEnds
<1> HIDE DEF s
<1>4. /\ state' \in LedgerState /\ state'.open = {} /\ state'.providers = state.providers
      /\ state'.handlers = state.handlers /\ state'.detached = state.detached
      /\ state'.failures = state.failures
  <2>1. s.phases \cup {"built-in-toggles", "global-filter"} \in SUBSET Phase
    BY <1>3 DEF LedgerState, Phase
  <2> QED BY <1>1, <1>3, <2>1 DEF LedgerState
<1>5. LedgerType' /\ WindowInv'
  BY <1>1, <1>2, <1>4 DEF LedgerInv, LedgerType, WindowInv
<1>6. Done' = Done /\ Done' = Provider
  BY <1>1 DEF Done, Settled
<1>7. SetupInv'
  BY <1>1, <1>2, <1>4, <1>6 DEF SetupInv, Ledger!ToSet
<1>8. Ledger!WindowHoldsSession'
  BY <1>1, <1>4, SessionUntouched DEF LedgerInv
<1> QED BY <1>5, <1>7, <1>8 DEF LedgerInv

LEMMA SessionStartKeeps == ASSUME LedgerInv, Ledger!SessionStart PROVE LedgerInv'
<1>1. /\ running = "none" /\ queue' = listeners /\ returned' = {}
      /\ UNCHANGED <<entry, runner, handlersRegisteredFor, listeners, setup, running, underway,
                     state>>
  BY DEF Ledger!SessionStart, Ledger!None
<1>2. LedgerType' /\ WindowInv'
  BY <1>1 DEF LedgerInv, LedgerType, WindowInv
<1>3. SetupInv'
  BY <1>1, SetupUntouched DEF LedgerInv
<1>4. Ledger!WindowHoldsSession'
  BY <1>1, WindowNow, WindowNext DEF LedgerInv, Accounts
<1> QED BY <1>2, <1>3, <1>4 DEF LedgerInv

(* A handler that returns, with its record, joins those that did.             *)
LEMMA ReturnAccounted ==
  ASSUME LedgerType, Ledger!WindowHoldsSession, NEW w \in Work, NEW ok \in BOOLEAN,
         state' = Ledger!HandlerRecorded(state, w, ok), returned' = returned \cup {w}
  PROVE  Ledger!WindowHoldsSession'
<1> DEFINE r == [work |-> w, ok |-> ok]
<1>1. /\ state \in LedgerState /\ r \in Record /\ r.work = w /\ r.ok = ok
      /\ state.handlers \in Seq(Record) /\ state.failures \in Seq(Work)
  BY DEF LedgerType, LedgerState, Record
<1>2. /\ state'.detached = state.detached /\ state'.handlers = Append(state.handlers, r)
      /\ state'.failures = IF ok THEN state.failures ELSE Append(state.failures, w)
  BY <1>1, HandlerRecords
<1> HIDE DEF r
<1>3. /\ Ledger!ToSet(state'.handlers) = Ledger!ToSet(state.handlers) \cup {r}
      /\ Ledger!ToSet(state'.detached) = Ledger!ToSet(state.detached)
      /\ Ledger!ToSet(state'.failures)
           = IF ok THEN Ledger!ToSet(state.failures) ELSE Ledger!ToSet(state.failures) \cup {w}
  <2>1. Ledger!ToSet(Append(state.handlers, r)) = Ledger!ToSet(state.handlers) \cup {r}
    BY <1>1, WithRecord
  <2>2. Ledger!ToSet(Append(state.failures, w)) = Ledger!ToSet(state.failures) \cup {w}
    BY <1>1, WithFailure
  <2> QED BY <1>2, <2>1, <2>2
<1>4. Accounts(returned, state.handlers, state.detached, state.failures)
  BY WindowNow
<1>5. Accounts(returned', state'.handlers, state'.detached, state'.failures)
  BY <1>1, <1>3, <1>4 DEF Accounts
<1> QED BY <1>5, WindowNext

(* Pi calls the next listener: it opens the window, or a handler begins.      *)
LEMMA ListenerKeeps == ASSUME LedgerInv, Ledger!Listener PROVE LedgerInv'
<1> DEFINE w == Head(queue)
<1>1. /\ queue # <<>> /\ running = "none" /\ queue' = Tail(queue)
      /\ UNCHANGED <<entry, runner, handlersRegisteredFor, listeners, setup>>
  BY DEF Ledger!Listener, Ledger!None
<1>2. /\ LedgerType /\ WindowInv /\ queue \in Seq(Listener) /\ state \in LedgerState
  BY DEF LedgerInv, LedgerType
<1>3. /\ queue' \in Seq(Listener) /\ w \in Listener
      /\ \A i \in DOMAIN queue' : queue'[i] # "window"
  <2>1. /\ queue' \in Seq(Listener) /\ w \in Listener /\ Len(queue') = Len(queue) - 1
        /\ Len(queue) \in Nat /\ \A i \in 1 .. Len(queue) - 1 : queue'[i] = queue[i + 1]
    BY <1>1, <1>2
  <2>2. ASSUME NEW i \in 1 .. Len(queue'), queue'[i] = "window" PROVE FALSE
    <3>1. i + 1 \in 1 .. Len(queue) /\ queue[i + 1] = "window" /\ i + 1 # 1
      BY <2>1, <2>2
    <3> QED BY <1>2, <3>1 DEF WindowInv
  <2> QED BY <2>1, <2>2
<1>4. WindowInv'
  BY <1>1, <1>2, <1>3 DEF WindowInv
<1>5. CASE w = "window" /\ state' = Ledger!NewWindow(state)
             /\ UNCHANGED <<running, underway, returned>>
  <2>1. /\ state' \in LedgerState /\ state'.handlers = <<>> /\ state'.detached = <<>>
        /\ state'.failures = <<>> /\ state'.providers = state.providers
        /\ state'.open = state.open /\ state'.finalized = state.finalized
    <3>1. <<>> \in Seq(Record) /\ <<>> \in Seq(Work)
      OBVIOUS
    <3> QED BY <1>2, <1>5, <3>1 DEF Ledger!NewWindow, LedgerState
  <2>2. returned = {}
    <3>1. 1 \in DOMAIN queue /\ queue[1] = "window"
      BY <1>1, <1>2, <1>5
    <3> QED BY <1>2, <3>1 DEF WindowInv
  <2>3. Ledger!WindowHoldsSession'
    BY <1>5, <2>1, <2>2, WindowNext, EmptyAccount
  <2>4. LedgerType'
    BY <1>1, <1>2, <1>3, <1>5, <2>1 DEF LedgerType
  <2>5. SetupInv'
    BY <1>1, <2>1, SetupUntouched DEF LedgerInv
  <2> QED BY <1>4, <2>3, <2>4, <2>5 DEF LedgerInv
<1>6. CASE w \in Work /\ running' = w /\ UNCHANGED <<underway, state, returned>>
  <2>1. LedgerType'
    BY <1>1, <1>2, <1>3, <1>6 DEF LedgerType
  <2>2. SetupInv'
    BY <1>1, <1>6, SetupUntouched DEF LedgerInv
  <2>3. Ledger!WindowHoldsSession'
    BY <1>6, SessionUntouched DEF LedgerInv
  <2> QED BY <1>4, <2>1, <2>2, <2>3 DEF LedgerInv
<1>7. ASSUME w \in Work, NEW ok \in BOOLEAN, state' = Ledger!HandlerRecorded(state, w, ok),
             returned' = returned \cup {w}, running' = running,
             underway' = underway \/ underway' = underway \cup {[work |-> w, session |-> session]}
      PROVE  LedgerInv'
  <2>1. /\ state' \in LedgerState /\ state'.providers = state.providers
        /\ state'.open = state.open /\ state'.finalized = state.finalized
    BY <1>2, <1>7, HandlerRecords
  <2>2. LedgerType'
    <3> HIDE DEF w
    <3>1. \A u \in underway' : u.work \in Work
      BY <1>2, <1>7 DEF LedgerType
    <3> QED BY <1>1, <1>2, <1>3, <1>7, <2>1, <3>1 DEF LedgerType
  <2>3. SetupInv'
    BY <1>1, <2>1, SetupUntouched DEF LedgerInv
  <2>4. Ledger!WindowHoldsSession'
    BY <1>2, <1>7, ReturnAccounted DEF LedgerInv
  <2> QED BY <1>4, <2>2, <2>3, <2>4 DEF LedgerInv
<1>8. \/ w = "window" /\ state' = Ledger!NewWindow(state) /\ UNCHANGED <<running, underway, returned>>
      \/ /\ w \in Work
         /\ \/ running' = w /\ UNCHANGED <<underway, state, returned>>
            \/ /\ returned' = returned \cup {w} /\ running' = running
               /\ \/ underway' = underway \cup {[work |-> w, session |-> session]}
                     /\ state' = Ledger!HandlerRecorded(state, w, TRUE)
                  \/ \E ok \in BOOLEAN : state' = Ledger!HandlerRecorded(state, w, ok)
                     /\ underway' = underway
  BY DEF Ledger!Listener
<1> QED BY <1>5, <1>6, <1>7, <1>8

LEMMA AwaitedKeeps == ASSUME LedgerInv, Ledger!Awaited PROVE LedgerInv'
<1>1. /\ running # "none" /\ running' = "none" /\ returned' = returned \cup {running}
      /\ UNCHANGED <<entry, runner, handlersRegisteredFor, listeners, setup, queue, underway>>
  BY DEF Ledger!Awaited, Ledger!None
<1>2. PICK ok \in BOOLEAN : state' = Ledger!HandlerRecorded(state, running, ok)
  BY DEF Ledger!Awaited
<1>3. LedgerType /\ WindowInv /\ state \in LedgerState /\ running \in Work
  BY <1>1 DEF LedgerInv, LedgerType
<1>4. /\ state' \in LedgerState /\ state'.providers = state.providers
      /\ state'.open = state.open /\ state'.finalized = state.finalized
  BY <1>2, <1>3, HandlerRecords
<1>5. LedgerType' /\ WindowInv'
  BY <1>1, <1>3, <1>4 DEF LedgerType, WindowInv
<1>6. SetupInv'
  BY <1>1, <1>4, SetupUntouched DEF LedgerInv
<1>7. Ledger!WindowHoldsSession'
  BY <1>1, <1>2, <1>3, ReturnAccounted DEF LedgerInv
<1> QED BY <1>5, <1>6, <1>7 DEF LedgerInv

(* Detached work ends, in whatever session.                                   *)
LEMMA DetachedEndsKeeps == ASSUME LedgerInv, Ledger!DetachedEnds PROVE LedgerInv'
<1>1. UNCHANGED <<entry, runner, handlersRegisteredFor, listeners, setup, queue, running, returned>>
  BY DEF Ledger!DetachedEnds
<1>2. PICK u \in underway, ok \in BOOLEAN :
        underway' = underway \ {u} /\ state' = Ledger!DetachedRecorded(state, u.work, ok)
  BY DEF Ledger!DetachedEnds
<1> DEFINE w == u.work
           r == [work |-> w, ok |-> ok]
<1>3. /\ LedgerType /\ WindowInv /\ state \in LedgerState /\ w \in Work
      /\ state.detached \in Seq(Record) /\ state.failures \in Seq(Work)
  BY DEF LedgerInv, LedgerType, LedgerState
<1>4. /\ state' \in LedgerState /\ state'.providers = state.providers
      /\ state'.open = state.open /\ state'.finalized = state.finalized
      /\ state'.handlers = state.handlers /\ state'.detached = Append(state.detached, r)
      /\ state'.failures = IF ok THEN state.failures ELSE Append(state.failures, w)
  BY <1>2, <1>3, DetachedRecords
<1>5. LedgerType' /\ WindowInv'
  BY <1>1, <1>2, <1>3, <1>4 DEF LedgerType, WindowInv
<1>6. SetupInv'
  BY <1>1, <1>4, SetupUntouched DEF LedgerInv
<1>7. r \in Record /\ r.work = w /\ r.ok = ok
  BY <1>3 DEF Record
<1> HIDE DEF r, w
<1>8. /\ Ledger!ToSet(state'.handlers) = Ledger!ToSet(state.handlers)
      /\ Ledger!ToSet(state'.detached) = Ledger!ToSet(state.detached) \cup {r}
      /\ Ledger!ToSet(state'.failures)
           = IF ok THEN Ledger!ToSet(state.failures) ELSE Ledger!ToSet(state.failures) \cup {w}
  <2>1. Ledger!ToSet(Append(state.detached, r)) = Ledger!ToSet(state.detached) \cup {r}
    BY <1>3, <1>7, WithRecord
  <2>2. Ledger!ToSet(Append(state.failures, w)) = Ledger!ToSet(state.failures) \cup {w}
    BY <1>3, WithFailure
  <2> QED BY <1>4, <2>1, <2>2
<1>9. Accounts(returned, state.handlers, state.detached, state.failures)
  BY WindowNow DEF LedgerInv
<1>10. Accounts(returned', state'.handlers, state'.detached, state'.failures)
  BY <1>1, <1>3, <1>7, <1>8, <1>9 DEF Accounts
<1>11. Ledger!WindowHoldsSession'
  BY <1>10, WindowNext
<1> QED BY <1>5, <1>6, <1>11 DEF LedgerInv

(* Counting for one provider changes nothing else of the ledger.              *)
SameReport(t, s) ==
  /\ t.providers = s.providers /\ t.open = s.open /\ t.finalized = s.finalized
  /\ t.handlers = s.handlers /\ t.detached = s.detached /\ t.failures = s.failures
LEMMA CountKept ==
  ASSUME NEW s \in LedgerState, NEW p \in Provider, NEW n \in Count
  PROVE  LET t == [s EXCEPT !.network[p] = n] IN t \in LedgerState /\ SameReport(t, s)
<1> DEFINE net == [s.network EXCEPT ![p] = n]
           t == [s EXCEPT !.network = net]
<1>1. net \in [Provider -> Count]
  BY DEF LedgerState
<1> HIDE DEF net
<1>2. t \in LedgerState /\ SameReport(t, s)
  BY <1>1 DEF LedgerState, SameReport
<1> QED BY <1>2 DEF net

(* What providers report touches the counters only.                           *)
LEMMA ReportsKeeps == ASSUME LedgerInv, Ledger!Reports PROVE LedgerInv'
<1>1. UNCHANGED <<entry, runner, handlersRegisteredFor, listeners, setup, queue, running, underway,
                  returned>>
  BY DEF Ledger!Reports
<1>2. LedgerType /\ state \in LedgerState
  BY DEF LedgerInv, LedgerType
<1>3. PICK p \in Provider :
        \/ \E ok \in BOOLEAN :
             state' = [state EXCEPT !.networkFetches = @ + 1, !.network[p].fetches = @ + 1,
                         !.network[p].ok = IF ok THEN @ + 1 ELSE @,
                         !.network[p].failed = IF ok THEN @ ELSE @ + 1]
        \/ state' = [state EXCEPT !.cacheHits = @ + 1, !.network[p].hits = @ + 1]
        \/ state' = [state EXCEPT !.network[p].aborts = @ + 1]
        \/ state' = [state EXCEPT !.network[p].retained = @ + 1]
  BY DEF Ledger!Reports
<1> DEFINE n == state.network[p]
<1>4. n \in Count /\ state.networkFetches \in Nat /\ state.cacheHits \in Nat
  BY <1>2 DEF LedgerState
<1>5. state' \in LedgerState /\ SameReport(state', state)
  <2>1. ASSUME NEW ok \in BOOLEAN,
               state' = [state EXCEPT !.networkFetches = @ + 1, !.network[p].fetches = @ + 1,
                           !.network[p].ok = IF ok THEN @ + 1 ELSE @,
                           !.network[p].failed = IF ok THEN @ ELSE @ + 1]
        PROVE  state' \in LedgerState /\ SameReport(state', state)
    <3> DEFINE s == [state EXCEPT !.networkFetches = @ + 1]
               m == [n EXCEPT !.fetches = @ + 1, !.ok = IF ok THEN @ + 1 ELSE @,
                              !.failed = IF ok THEN @ ELSE @ + 1]
    <3>1. s \in LedgerState /\ SameReport(s, state) /\ s.network = state.network
      <4> DEFINE f == state.networkFetches + 1
      <4>1. f \in Nat /\ s = [state EXCEPT !.networkFetches = f]
        BY <1>4
      <4> HIDE DEF f, s
      <4> QED BY <1>2, <4>1 DEF LedgerState, SameReport
    <3>2. m \in Count
      <4> DEFINE a == n.fetches + 1
                 b == IF ok THEN n.ok + 1 ELSE n.ok
                 c == IF ok THEN n.failed ELSE n.failed + 1
      <4>1. a \in Nat /\ b \in Nat /\ c \in Nat
        BY <1>4 DEF Count
      <4>2. m = [n EXCEPT !.fetches = a, !.ok = b, !.failed = c]
        BY <1>4 DEF Count
      <4> HIDE DEF a, b, c, m, n
      <4> QED BY <1>4, <4>1, <4>2 DEF Count
    <3>3. state' = [s EXCEPT !.network[p] = m]
      BY <1>2, <1>4, <2>1, ZenonT(40) DEF LedgerState, Count
    <3> HIDE DEF s, m
    <3> QED BY <3>1, <3>2, <3>3, CountKept DEF SameReport
  <2>2. CASE state' = [state EXCEPT !.cacheHits = @ + 1, !.network[p].hits = @ + 1]
    <3> DEFINE s == [state EXCEPT !.cacheHits = @ + 1]
               m == [n EXCEPT !.hits = @ + 1]
    <3>1. s \in LedgerState /\ SameReport(s, state) /\ s.network = state.network
      BY <1>2, <1>4 DEF LedgerState, SameReport
    <3>2. m \in Count
      BY <1>4 DEF Count
    <3>3. state' = [s EXCEPT !.network[p] = m]
      BY <1>2, <1>4, <2>2 DEF LedgerState, Count
    <3> HIDE DEF s, m
    <3> QED BY <3>1, <3>2, <3>3, CountKept DEF SameReport
  <2>3. CASE state' = [state EXCEPT !.network[p].aborts = @ + 1]
    <3> DEFINE m == [n EXCEPT !.aborts = @ + 1]
    <3>1. m \in Count /\ state' = [state EXCEPT !.network[p] = m]
      BY <1>4, <2>3 DEF Count
    <3> HIDE DEF m
    <3> QED BY <1>2, <3>1, CountKept
  <2>4. CASE state' = [state EXCEPT !.network[p].retained = @ + 1]
    <3> DEFINE m == [n EXCEPT !.retained = @ + 1]
    <3>1. m \in Count /\ state' = [state EXCEPT !.network[p] = m]
      BY <1>4, <2>4 DEF Count
    <3> HIDE DEF m
    <3> QED BY <1>2, <3>1, CountKept
  <2> QED BY <1>3, <2>1, <2>2, <2>3, <2>4
<1>6. LedgerType' /\ WindowInv'
  BY <1>1, <1>2, <1>5 DEF LedgerInv, LedgerType, WindowInv
<1>7. SetupInv'
  BY <1>1, <1>5, SetupUntouched DEF LedgerInv, SameReport
<1>8. Ledger!WindowHoldsSession'
  BY <1>1, <1>5, SessionUntouched DEF LedgerInv, SameReport
<1> QED BY <1>6, <1>7, <1>8 DEF LedgerInv

(* The part of the ledger, in one step.                                       *)
LEMMA LedgerStep == ASSUME LedgerInv, Ledger!Next PROVE LedgerInv'
BY EnterKeeps, SetupsBeginKeeps, SetupEndsKeeps, EntryEndsKeeps, SessionStartKeeps, ListenerKeeps,
   AwaitedKeeps, DetachedEndsKeeps, ReportsKeeps DEF Ledger!Next

(* The fetches that the ledger counts are those of its providers, in sum.     *)
Fetches(s) == [p \in Provider |-> s.network[p].fetches]
FetchInv == state.networkFetches = Total(Fetches(state), Provider)
SameCounts(t, s) == t.network = s.network /\ t.networkFetches = s.networkFetches
LEMMA RecordsDoNotCount ==
  ASSUME NEW s \in LedgerState
  PROVE  /\ \A name \in Phase : /\ SameCounts(Ledger!StartPhase(s, name), s)
                                /\ SameCounts(Ledger!EndPhase(s, name), s)
         /\ SameCounts(Ledger!NewWindow(s), s)
         /\ \A w \in Work, ok \in BOOLEAN : /\ SameCounts(Ledger!HandlerRecorded(s, w, ok), s)
                                            /\ SameCounts(Ledger!DetachedRecorded(s, w, ok), s)
<1>1. ASSUME NEW name \in Phase
      PROVE  SameCounts(Ledger!StartPhase(s, name), s) /\ SameCounts(Ledger!EndPhase(s, name), s)
  BY DEF Ledger!StartPhase, Ledger!EndPhase, SameCounts, LedgerState
<1>2. SameCounts(Ledger!NewWindow(s), s)
  BY DEF Ledger!NewWindow, SameCounts, LedgerState
<1>3. ASSUME NEW z, SameCounts(z, s), DOMAIN z = DOMAIN s, NEW w \in Work, NEW ok \in BOOLEAN
      PROVE  SameCounts(Ledger!Failing(z, w, ok), s)
  <2>1. CASE ok
    BY <1>3, <2>1 DEF Ledger!Failing
  <2>2. CASE ~ok
    <3>1. Ledger!Failing(z, w, ok) = [z EXCEPT !.failures = Append(@, w)]
      BY <2>2 DEF Ledger!Failing
    <3>2. "network" \in DOMAIN z /\ "networkFetches" \in DOMAIN z
      BY <1>3 DEF LedgerState
    <3> QED BY <1>3, <3>1, <3>2 DEF SameCounts
  <2> QED BY <2>1, <2>2
<1>4. ASSUME NEW w \in Work, NEW ok \in BOOLEAN
      PROVE  /\ SameCounts(Ledger!HandlerRecorded(s, w, ok), s)
             /\ SameCounts(Ledger!DetachedRecorded(s, w, ok), s)
  <2> DEFINE a == [s EXCEPT !.handlers = Append(@, [work |-> w, ok |-> ok])]
             b == [s EXCEPT !.detached = Append(@, [work |-> w, ok |-> ok])]
  <2>1. SameCounts(a, s) /\ SameCounts(b, s) /\ DOMAIN a = DOMAIN s /\ DOMAIN b = DOMAIN s
    BY DEF SameCounts, LedgerState
  <2>2. /\ Ledger!HandlerRecorded(s, w, ok) = Ledger!Failing(a, w, ok)
        /\ Ledger!DetachedRecorded(s, w, ok) = Ledger!Failing(b, w, ok)
    BY DEF Ledger!HandlerRecorded, Ledger!DetachedRecorded
  <2> HIDE DEF a, b
  <2> QED BY <1>3, <2>1, <2>2
<1> QED BY <1>1, <1>2, <1>4

LEMMA OthersDoNotCount ==
  ASSUME LedgerInv, Ledger!Next, ~Ledger!Enter, ~Ledger!Reports
  PROVE  SameCounts(state', state)
<1>1. state \in LedgerState /\ LedgerType
  BY DEF LedgerInv, LedgerType
<1>2. CASE Ledger!SetupsBegin
  <2> DEFINE s == Ledger!EndPhase(state, "global-handlers")
  <2>1. "global-handlers" \in Phase /\ "providers" \in Phase
    BY DEF Phase
  <2>2. s \in LedgerState /\ SameCounts(s, state)
    BY <1>1, <2>1, PhaseEnds, RecordsDoNotCount
  <2>3. state' = Ledger!StartPhase(s, "providers")
    BY <1>2 DEF Ledger!SetupsBegin
  <2> HIDE DEF s
  <2> QED BY <2>1, <2>2, <2>3, RecordsDoNotCount DEF SameCounts
<1>3. CASE Ledger!EntryEnds
  <2> DEFINE s == Ledger!EndPhase(state, "providers")
  <2>1. "providers" \in Phase
    BY DEF Phase
  <2>2. s \in LedgerState /\ SameCounts(s, state)
    BY <1>1, <2>1, PhaseEnds, RecordsDoNotCount
  <2>3. state' = [s EXCEPT !.finalized = TRUE,
                           !.phases = @ \cup {"built-in-toggles", "global-filter"}]
    BY <1>3 DEF Ledger!EntryEnds
  <2> HIDE DEF s
  <2> QED BY <2>2, <2>3 DEF SameCounts, LedgerState
<1>4. ASSUME NEW p \in Provider, Ledger!SetupEnds(p) PROVE SameCounts(state', state)
  BY <1>1, <1>4 DEF Ledger!SetupEnds, SameCounts, LedgerState
<1>5. CASE Ledger!SessionStart
  BY <1>5 DEF Ledger!SessionStart, SameCounts
<1>6. CASE Ledger!Listener
  <2>1. \/ state' = Ledger!NewWindow(state) \/ state' = state
        \/ \E w \in Work, ok \in BOOLEAN : state' = Ledger!HandlerRecorded(state, w, ok)
    BY <1>6 DEF Ledger!Listener
  <2> QED BY <1>1, <2>1, RecordsDoNotCount DEF SameCounts
<1>7. CASE Ledger!Awaited
  <2>1. running \in Work /\ \E ok \in BOOLEAN : state' = Ledger!HandlerRecorded(state, running, ok)
    BY <1>1, <1>7 DEF Ledger!Awaited, Ledger!None, LedgerType
  <2> QED BY <1>1, <2>1, RecordsDoNotCount
<1>8. CASE Ledger!DetachedEnds
  <2>1. \E w \in Work, ok \in BOOLEAN : state' = Ledger!DetachedRecorded(state, w, ok)
    BY <1>1, <1>8 DEF Ledger!DetachedEnds, LedgerType
  <2> QED BY <1>1, <2>1, RecordsDoNotCount
<1> QED BY <1>2, <1>3, <1>4, <1>5, <1>6, <1>7, <1>8 DEF Ledger!Next

LEMMA SameFetches ==
  ASSUME NEW s, NEW t, SameCounts(t, s), s.networkFetches = Total(Fetches(s), Provider)
  PROVE  t.networkFetches = Total(Fetches(t), Provider)
<1>1. Fetches(t) = Fetches(s)
  BY DEF Fetches, SameCounts
<1> QED BY <1>1 DEF SameCounts

LEMMA FreshFetches ==
  LET s == Ledger!StartPhase(Ledger!FreshState, "global-handlers")
  IN /\ Ledger!FreshState.networkFetches = Total(Fetches(Ledger!FreshState), Provider)
     /\ s.networkFetches = Total(Fetches(s), Provider)
<1> DEFINE f == Fetches(Ledger!FreshState)
<1>1. Ledger!FreshState.networkFetches = 0 /\ \A p \in Provider : f[p] = 0
  BY DEF Fetches, Ledger!FreshState, Ledger!NoCounts
<1>2. IsFiniteSet(Provider) /\ "global-handlers" \in Phase
  BY JournalsAssumption DEF Phase
<1> HIDE DEF f
<1>3. Total(f, Provider) = 0
  BY <1>1, <1>2, TotalOfNone
<1>4. Ledger!FreshState.networkFetches = Total(Fetches(Ledger!FreshState), Provider)
  BY <1>1, <1>3 DEF f
<1>5. SameCounts(Ledger!StartPhase(Ledger!FreshState, "global-handlers"), Ledger!FreshState)
  BY <1>2, FreshLedger, RecordsDoNotCount
<1> QED BY <1>4, <1>5, SameFetches

(* A provider's fetch is counted twice, with the others and for itself.       *)
LEMMA ReportsCount == ASSUME LedgerInv, FetchInv, Ledger!Reports PROVE FetchInv'
<1>1. state \in LedgerState
  BY DEF LedgerInv, LedgerType
<1>2. PICK p \in Provider :
        \/ \E ok \in BOOLEAN :
             state' = [state EXCEPT !.networkFetches = @ + 1, !.network[p].fetches = @ + 1,
                         !.network[p].ok = IF ok THEN @ + 1 ELSE @,
                         !.network[p].failed = IF ok THEN @ ELSE @ + 1]
        \/ state' = [state EXCEPT !.cacheHits = @ + 1, !.network[p].hits = @ + 1]
        \/ state' = [state EXCEPT !.network[p].aborts = @ + 1]
        \/ state' = [state EXCEPT !.network[p].retained = @ + 1]
  BY DEF Ledger!Reports
<1>3. state.networkFetches \in Nat /\ \A q \in Provider : state.network[q] \in Count
  BY <1>1 DEF LedgerState
<1>4. \E n \in {0, 1} :
        /\ state'.networkFetches = state.networkFetches + n
        /\ state'.network[p].fetches = state.network[p].fetches + n
        /\ \A q \in Provider \ {p} : state'.network[q].fetches = state.network[q].fetches
  <2>1. ASSUME NEW ok \in BOOLEAN,
               state' = [state EXCEPT !.networkFetches = @ + 1, !.network[p].fetches = @ + 1,
                           !.network[p].ok = IF ok THEN @ + 1 ELSE @,
                           !.network[p].failed = IF ok THEN @ ELSE @ + 1]
        PROVE  /\ state'.networkFetches = state.networkFetches + 1
               /\ state'.network[p].fetches = state.network[p].fetches + 1
               /\ \A q \in Provider \ {p} : state'.network[q].fetches = state.network[q].fetches
    <3>1. state'.networkFetches = state.networkFetches + 1
      BY <1>1, <2>1 DEF LedgerState
    <3>2. state'.network = [state.network EXCEPT ![p].fetches = @ + 1,
                              ![p].ok = IF ok THEN @ + 1 ELSE @, ![p].failed = IF ok THEN @ ELSE @ + 1]
      BY <1>1, <2>1, ZenonT(40) DEF LedgerState
    <3>3. state.network \in [Provider -> Count]
      BY <1>1 DEF LedgerState
    <3> QED BY <3>1, <3>2, <3>3 DEF Count
  <2>2. CASE \/ state' = [state EXCEPT !.cacheHits = @ + 1, !.network[p].hits = @ + 1]
             \/ state' = [state EXCEPT !.network[p].aborts = @ + 1]
             \/ state' = [state EXCEPT !.network[p].retained = @ + 1]
    <3>1. state'.networkFetches = state.networkFetches
      BY <1>1, <2>2 DEF LedgerState
    <3>2. \A q \in Provider : state'.network[q].fetches = state.network[q].fetches
      <4>1. \/ state'.network = [state.network EXCEPT ![p].hits = @ + 1]
            \/ state'.network = [state.network EXCEPT ![p].aborts = @ + 1]
            \/ state'.network = [state.network EXCEPT ![p].retained = @ + 1]
        BY <1>1, <2>2, ZenonT(40) DEF LedgerState
      <4>2. state.network \in [Provider -> Count]
        BY <1>1 DEF LedgerState
      <4> QED BY <4>1, <4>2 DEF Count
    <3>3. state.network[p].fetches \in Nat
      BY <1>3 DEF Count
    <3>4. /\ state'.networkFetches = state.networkFetches + 0
          /\ state'.network[p].fetches = state.network[p].fetches + 0
      BY <1>3, <3>1, <3>2, <3>3
    <3> QED BY <3>2, <3>4
  <2> QED BY <1>2, <2>1, <2>2
<1>5. PICK n \in {0, 1} :
        /\ state'.networkFetches = state.networkFetches + n
        /\ state'.network[p].fetches = state.network[p].fetches + n
        /\ \A q \in Provider \ {p} : state'.network[q].fetches = state.network[q].fetches
  BY <1>4
<1> DEFINE f == Fetches(state)
           k == Fetches(state')
<1>6. /\ NatOn(f, Provider) /\ k[p] = f[p] + n /\ \A q \in Provider \ {p} : k[q] = f[q]
  BY <1>3, <1>5 DEF Fetches, NatOn, Count
<1> HIDE DEF f, k
<1>7. Total(k, Provider) = Total(f, Provider) + n
  BY <1>6, JournalsAssumption, TotalChanges
<1> QED BY <1>5, <1>7 DEF FetchInv, f, k

LEMMA FetchStep == ASSUME LedgerInv, FetchInv, Ledger!Next PROVE FetchInv'
<1>1. CASE Ledger!Enter
  BY <1>1, FreshFetches DEF Ledger!Enter, FetchInv
<1>2. CASE Ledger!Reports
  BY <1>2, ReportsCount
<1>3. CASE ~Ledger!Enter /\ ~Ledger!Reports
  BY <1>3, OthersDoNotCount, SameFetches DEF FetchInv
<1> QED BY <1>1, <1>2, <1>3

LEMMA FetchesAreCounted ==
  ASSUME LedgerInv, FetchInv
  PROVE  state.networkFetches = Ledger!SumFunction([p \in Provider |-> state.network[p].fetches])
<1>1. DOMAIN Fetches(state) = Provider /\ Fetches(state) = [p \in Provider |-> state.network[p].fetches]
  BY DEF Fetches
<1> QED BY <1>1, SumsAreTotals DEF FetchInv

LEMMA FetchIdle == ASSUME FetchInv, UNCHANGED ledgerVars PROVE FetchInv'
BY DEF FetchInv, Fetches, ledgerVars

LEMMA FetchInvInit == Ledger!Init => FetchInv
BY FreshFetches DEF Ledger!Init, FetchInv

LEMMA LedgerIdle == ASSUME LedgerInv, UNCHANGED ledgerVars PROVE LedgerInv'
<1>1. LedgerType' /\ WindowInv'
  BY DEF LedgerInv, LedgerType, WindowInv, ledgerVars
<1>2. SetupInv'
  BY SetupUntouched DEF LedgerInv, ledgerVars
<1>3. Ledger!WindowHoldsSession'
  BY SessionUntouched DEF LedgerInv, ledgerVars
<1> QED BY <1>1, <1>2, <1>3 DEF LedgerInv

----------------------------------------------------------------------------
LEMMA CallsInvInit == Calls!Init => CallsInv
<1> SUFFICES ASSUME Calls!Init PROVE CallsInv
  OBVIOUS
<1>0. MAX_RECENT_CALLS \in Nat \ {0} /\ <<>> \in Seq(CallRecord) /\ Len(<<>>) = 0
  BY JournalsAssumption
<1>1. /\ current \in Calls!Model /\ statusBar = "none" /\ clock = 0
      /\ run = [n |-> 0, on |-> FALSE, model |-> "none"]
      /\ pendingCallIds = [m \in Calls!Model |-> 0] /\ inFlight = {} /\ stray = FALSE /\ wrong = FALSE
      /\ recent = [m \in Calls!Model |-> <<>>] /\ calls = [m \in Calls!Model |-> 0]
      /\ stats = [m \in Calls!Model |-> [total |-> 0, errors |-> 0]]
  BY DEF Calls!Init, Calls!None, Calls!Idle
<1>2. stats = [m \in Calls!Model |-> stats[m]]
  BY <1>1
<1>3. CallType
  BY <1>0, <1>1, <1>2 DEF CallType
<1>4. PairInv
  BY <1>1 DEF PairInv, Calling
<1>5. KeptInv
  BY <1>0, <1>1 DEF KeptInv
<1>6. Calls!CallsAreOfTheirRun /\ Calls!InFlightSane /\ Calls!BarOfCurrent
  BY <1>1 DEF Calls!CallsAreOfTheirRun, Calls!InFlightSane, Calls!BarOfCurrent, Calls!None
<1>7. Calls!LatencySane
  BY <1>1 DEF Calls!LatencySane, Calls!ToSet
<1> QED BY <1>3, <1>4, <1>5, <1>6, <1>7 DEF CallsInv

(* The records of the calls are as they were.                                 *)
LEMMA TelemetryUntouched ==
  ASSUME CallsInv, UNCHANGED <<pendingCallIds, inFlight, recent, stats, calls, wrong>>
  PROVE  /\ KeptInv' /\ Calls!CallsAreOfTheirRun' /\ Calls!LatencySane' /\ Calls!InFlightSane'
<1>1. KeptInv'
  BY DEF CallsInv, KeptInv
<1>2. Calls!CallsAreOfTheirRun' /\ Calls!InFlightSane'
  BY DEF CallsInv, Calls!CallsAreOfTheirRun, Calls!InFlightSane
<1>3. Calls!LatencySane'
  BY DEF CallsInv, Calls!LatencySane, Calls!ToSet
<1> QED BY <1>1, <1>2, <1>3

LEMMA SelectKeeps == ASSUME CallsInv, Calls!Select PROVE CallsInv'
<1>1. PICK m \in Calls!Model :
        current' = m /\ statusBar' = Calls!FormatQuotaStatus(quota, m.provider)
  BY DEF Calls!Select, Calls!ShownOnSelect
<1>2. /\ stray' = (stray \/ run.on)
      /\ UNCHANGED <<run, clock, pendingCallIds, inFlight, recent, stats, calls, wrong>>
  BY DEF Calls!Select, Calls!telemetry
<1>3. statusBar' \in {"none", m.provider} /\ m.provider \in Provider
  BY <1>1 DEF Calls!FormatQuotaStatus, Calls!None, Calls!Model
<1>4. CallType'
  BY <1>1, <1>2, <1>3 DEF CallsInv, CallType
<1>5. PairInv'
  BY <1>1, <1>2 DEF CallsInv, PairInv, Calling
<1>6. Calls!BarOfCurrent'
  BY <1>1, <1>3 DEF Calls!BarOfCurrent, Calls!None
<1> QED BY <1>2, <1>4, <1>5, <1>6, TelemetryUntouched DEF CallsInv

LEMMA ResponseKeeps == ASSUME CallsInv, Calls!Response PROVE CallsInv'
<1>1. /\ statusBar' \in {statusBar, current.provider}
      /\ UNCHANGED <<current, run, clock, stray, pendingCallIds, inFlight, recent, stats, calls,
                     wrong>>
  BY DEF Calls!Response, Calls!telemetry
<1>2. current.provider \in Provider
  BY DEF CallsInv, CallType, Calls!Model
<1>3. CallType'
  BY <1>1, <1>2 DEF CallsInv, CallType
<1>4. PairInv' /\ Calls!BarOfCurrent'
  BY <1>1 DEF CallsInv, PairInv, Calling, Calls!BarOfCurrent, Calls!None
<1> QED BY <1>1, <1>3, <1>4, TelemetryUntouched DEF CallsInv

LEMMA RunOverKeeps == ASSUME CallsInv, Calls!RunOver PROVE CallsInv'
<1>1. /\ run' = [run EXCEPT !.on = FALSE]
      /\ UNCHANGED <<current, statusBar, clock, stray, pendingCallIds, inFlight, recent, stats,
                     calls, wrong>>
  BY DEF Calls!RunOver, Calls!telemetry, Calls!model
<1>2. run \in [n : Nat, on : BOOLEAN, model : Calls!Model \cup {"none"}]
  BY DEF CallsInv, CallType
<1>3. run' \in [n : Nat, on : BOOLEAN, model : Calls!Model \cup {"none"}]
      /\ run'.n = run.n /\ ~run'.on /\ run'.model = run.model
  BY <1>1, <1>2
<1>4. CallType'
  BY <1>1, <1>3 DEF CallsInv, CallType
<1>5. PairInv' /\ Calls!BarOfCurrent'
  BY <1>1, <1>3 DEF CallsInv, PairInv, Calling, Calls!BarOfCurrent, Calls!None
<1> QED BY <1>1, <1>4, <1>5, TelemetryUntouched DEF CallsInv

LEMMA ClockTickKeeps == ASSUME CallsInv, Calls!Tick PROVE CallsInv'
<1>1. /\ clock' = clock + 1
      /\ UNCHANGED <<current, statusBar, run, stray, pendingCallIds, inFlight, recent, stats,
                     calls, wrong>>
  BY DEF Calls!Tick, Calls!telemetry, Calls!model
<1>2. CallType'
  BY <1>1 DEF CallsInv, CallType
<1>3. PairInv' /\ Calls!BarOfCurrent'
  BY <1>1 DEF CallsInv, PairInv, Calling, Calls!BarOfCurrent, Calls!None
<1> QED BY <1>1, <1>2, <1>3, TelemetryUntouched DEF CallsInv

(* A run begins: its call is the newest, what is stale is reaped.             *)
LEMMA AgentStartKeeps == ASSUME CallsInv, Calls!AgentStart PROVE CallsInv'
<1> DEFINE n == run.n + 1
           new == [id |-> n, model |-> current, start |-> clock]
<1>1. /\ ~run.on /\ run' = [n |-> n, on |-> TRUE, model |-> current] /\ stray' = FALSE
      /\ UNCHANGED <<current, statusBar, clock, recent, stats, calls, wrong>>
      /\ \/ /\ Calls!IsFreeModel(current)
            /\ inFlight' = {e \in inFlight : clock - e.start <= IN_FLIGHT_TTL} \cup {new}
            /\ pendingCallIds' = [pendingCallIds EXCEPT ![current] = n]
         \/ ~Calls!IsFreeModel(current) /\ UNCHANGED <<inFlight, pendingCallIds>>
  BY DEF Calls!AgentStart, Calls!model, Calls!Reaped
<1>2. /\ CallType /\ PairInv /\ current \in Calls!Model /\ run.n \in Nat /\ clock \in Nat
      /\ IN_FLIGHT_TTL \in Nat
      /\ pendingCallIds \in [Calls!Model -> Nat] /\ \A m \in Calls!Model : pendingCallIds[m] <= run.n
      /\ \A e \in inFlight : e.id \in 1 .. run.n /\ e.start \in 0 .. clock /\ e.model \in Calls!Model
  BY JournalsAssumption DEF CallsInv, CallType, PairInv
<1>3. /\ n \in Nat /\ run'.n = n /\ run'.model = current /\ run'.on /\ new.id = n
      /\ new.start = clock /\ new.model = current
  BY <1>1, <1>2
<1>4. run' \in [n : Nat, on : BOOLEAN, model : Calls!Model \cup {"none"}]
  BY <1>1, <1>2
<1>5. n = run.n + 1
  OBVIOUS
<1> HIDE DEF n, new
<1>6. \A e \in inFlight' : e.id \in 1 .. n /\ e.start \in 0 .. clock /\ e.model \in Calls!Model
  <2> SUFFICES ASSUME NEW e \in inFlight'
               PROVE  e.id \in 1 .. n /\ e.start \in 0 .. clock /\ e.model \in Calls!Model
    OBVIOUS
  <2>1. CASE e \in inFlight
    BY <1>2, <1>3, <1>5, <2>1
  <2>2. CASE e = new
    <3>1. n \in 1 .. n /\ clock \in 0 .. clock
      BY <1>2, <1>3, <1>5
    <3> QED BY <1>2, <1>3, <2>2, <3>1
  <2> QED BY <1>1, <2>1, <2>2
<1>7. pendingCallIds' \in [Calls!Model -> Nat] /\ \A m \in Calls!Model : pendingCallIds'[m] <= n
  <2>1. CASE Calls!IsFreeModel(current)
    BY <1>1, <1>2, <1>3, <1>5, <2>1
  <2>2. CASE ~Calls!IsFreeModel(current)
    BY <1>1, <1>2, <1>3, <1>5, <2>2
  <2> QED BY <2>1, <2>2
<1>8. CallType'
  BY <1>1, <1>2, <1>3, <1>4, <1>6, <1>7 DEF CallType
<1>9. PairInv'
  <2>1. Calls!IsFreeModel(current) => pendingCallIds'[current] = n
    BY <1>1, <1>2
  <2> QED BY <1>1, <1>3, <1>7, <2>1 DEF PairInv, Calling, Calls!IsFreeModel
<1>10. Calls!InFlightSane'
  <2>1. CASE Calls!IsFreeModel(current)
    <3>1. ASSUME NEW e \in inFlight', NEW f \in inFlight', e.id < f.id
          PROVE  f.start - e.start <= IN_FLIGHT_TTL
      <4>1. CASE e \in inFlight /\ f \in inFlight
        BY <3>1, <4>1 DEF CallsInv, Calls!InFlightSane
      <4>2. CASE e # new /\ f = new
        <5>1. clock - e.start <= IN_FLIGHT_TTL
          BY <1>1, <2>1, <4>2
        <5> QED BY <1>3, <4>2, <5>1
      <4>3. CASE e = new
        BY <1>3, <1>6, <3>1, <4>3
      <4> QED BY <1>1, <2>1, <4>1, <4>2, <4>3
    <3>2. ASSUME NEW m \in Calls!Model, NEW e \in inFlight', pendingCallIds'[m] = e.id
          PROVE  e.model = m
      <4>1. CASE m = current
        <5>1. e.id = n
          BY <1>1, <1>2, <2>1, <3>2, <4>1
        <5>2. e = new
          BY <1>1, <1>2, <1>5, <2>1, <5>1
        <5> QED BY <1>3, <4>1, <5>2
      <4>2. CASE m # current
        <5>1. pendingCallIds'[m] = pendingCallIds[m] /\ pendingCallIds[m] <= run.n
              /\ pendingCallIds[m] \in Nat
          BY <1>1, <1>2, <2>1, <4>2
        <5>2. e # new
          <6>1. e.id = pendingCallIds[m] /\ new.id = n
            BY <1>3, <3>2, <5>1
          <6>2. pendingCallIds[m] # n
            BY <1>2, <1>5, <5>1
          <6> QED BY <6>1, <6>2
        <5>3. e \in inFlight /\ pendingCallIds[m] = e.id
          BY <1>1, <2>1, <3>2, <5>1, <5>2
        <5> QED BY <5>3 DEF CallsInv, Calls!InFlightSane
      <4> QED BY <4>1, <4>2
    <3> QED BY <3>1, <3>2 DEF Calls!InFlightSane
  <2>2. CASE ~Calls!IsFreeModel(current)
    BY <1>1, <2>2 DEF CallsInv, Calls!InFlightSane
  <2> QED BY <2>1, <2>2
<1>11. KeptInv' /\ Calls!CallsAreOfTheirRun' /\ Calls!BarOfCurrent'
  BY <1>1 DEF CallsInv, KeptInv, Calls!CallsAreOfTheirRun, Calls!BarOfCurrent, Calls!None
<1>12. Calls!LatencySane'
  BY <1>1 DEF CallsInv, Calls!LatencySane, Calls!ToSet
<1> QED BY <1>8, <1>9, <1>10, <1>11, <1>12 DEF CallsInv

(* A latency is none, or that of an entry in flight, and then sane.           *)
LEMMA LatencyBounded ==
  ASSUME CallType, NEW m, NEW id
  PROVE  /\ Calls!Latency(m, id) \in 0 .. MAX_SANE_LATENCY
         /\ Calls!Latency(m, id) > 0 => \E e \in inFlight : e.id = id
<1> DEFINE matching == {e \in inFlight : e.id = id}
           first == CHOOSE e \in matching : TRUE
           latency == clock - first.start
<1>1. MAX_SANE_LATENCY \in Nat /\ clock \in Nat
  BY JournalsAssumption DEF CallType
<1>2. Calls!Latency(m, id) = IF matching = {} THEN 0
                             ELSE IF latency > MAX_SANE_LATENCY THEN 0 ELSE latency
  BY DEF Calls!Latency, Calls!Slept
<1>3. CASE matching = {}
  BY <1>1, <1>2, <1>3
<1>4. CASE matching # {}
  <2>1. first \in matching
    BY <1>4
  <2>2. first \in inFlight /\ first.id = id
    BY <2>1
  <2> HIDE DEF first, matching
  <2>3. first.start \in 0 .. clock
    BY <2>2 DEF CallType
  <2>4. latency \in Nat
    BY <1>1, <2>3
  <2> HIDE DEF latency
  <2> QED BY <1>1, <1>2, <1>4, <2>2, <2>4
<1> QED BY <1>3, <1>4

(* The last few of a sequence are some of it.                                 *)
LEMMA LastFewOf ==
  ASSUME NEW S, NEW s \in Seq(S), NEW n \in Nat \ {0}
  PROVE  LET t == Calls!LastFew(s, n)
         IN /\ t \in Seq(S) /\ Len(t) = IF Len(s) > n THEN n ELSE Len(s)
            /\ \A i \in 1 .. Len(t) : \E j \in 1 .. Len(s) : t[i] = s[j]
<1> DEFINE from == IF Len(s) > n THEN Len(s) - n + 1 ELSE 1
           t == SubSeq(s, from, Len(s))
<1>1. Len(s) \in Nat /\ from \in 1 .. Len(s) + 1 /\ Calls!LastFew(s, n) = t
  BY DEF Calls!LastFew
<1>2. Len(s) - from + 1 = IF Len(s) > n THEN n ELSE Len(s)
  BY <1>1
<1> HIDE DEF from
<1>3. t \in Seq(S) /\ Len(t) = Len(s) - from + 1 /\ \A i \in 1 .. Len(t) : t[i] = s[from + i - 1]
  BY <1>1
<1> HIDE DEF t
<1>4. ASSUME NEW i \in 1 .. Len(t) PROVE \E j \in 1 .. Len(s) : t[i] = s[j]
  <2>1. from + i - 1 \in 1 .. Len(s)
    BY <1>1, <1>3
  <2> QED BY <1>3, <2>1
<1> QED BY <1>1, <1>2, <1>3, <1>4

(* A call is recorded: for the run's own model, unless another was selected.  *)
LEMMA TurnEndKeeps == ASSUME CallsInv, Calls!TurnEnd PROVE CallsInv'
<1>0. UNCHANGED <<current, statusBar, run, clock, stray>>
  BY DEF Calls!TurnEnd, Calls!model
<1>1. CASE ~Calls!IsFreeModel(current)
  <2>1. UNCHANGED <<pendingCallIds, inFlight, recent, stats, calls, wrong>>
    BY <1>1 DEF Calls!TurnEnd, Calls!telemetry
  <2>2. CallType' /\ PairInv' /\ Calls!BarOfCurrent'
    BY <1>0, <2>1 DEF CallsInv, CallType, PairInv, Calling, Calls!BarOfCurrent, Calls!None
  <2> QED BY <2>1, <2>2, TelemetryUntouched DEF CallsInv
<1>2. CASE Calls!IsFreeModel(current)
  <2>1. PICK m \in {[provider |-> current.provider, id |-> i] : i \in {run.model.id, current.id}},
             success \in BOOLEAN :
          LET id == pendingCallIds[m]
              pruned == Calls!LastFew(Append(recent[m],
                          [success |-> success, latency |-> Calls!Latency(m, id)]),
                          2 * MAX_RECENT_CALLS)
          IN /\ pendingCallIds' = [pendingCallIds EXCEPT ![m] = 0]
             /\ inFlight' = {e \in inFlight : e.id # id}
             /\ stats' = [stats EXCEPT ![m] = Calls!Derived(pruned)]
             /\ recent' = [recent EXCEPT ![m] = Calls!LastFew(pruned, MAX_RECENT_CALLS)]
             /\ calls' = [calls EXCEPT ![m] = @ + 1]
             /\ wrong' = (wrong \/ (~stray /\ (m # run.model \/ (Calls!Latency(m, id) > 0 /\ id # run.n))))
    BY <1>2 DEF Calls!TurnEnd
  <2> DEFINE id == pendingCallIds[m]
             lat == Calls!Latency(m, id)
             r == [success |-> success, latency |-> lat]
             all == Append(recent[m], r)
             pruned == Calls!LastFew(all, 2 * MAX_RECENT_CALLS)
             last == Calls!LastFew(pruned, MAX_RECENT_CALLS)
  <2>2. /\ pendingCallIds' = [pendingCallIds EXCEPT ![m] = 0]
        /\ inFlight' = {e \in inFlight : e.id # id}
        /\ stats' = [stats EXCEPT ![m] = Calls!Derived(pruned)]
        /\ recent' = [recent EXCEPT ![m] = last]
        /\ calls' = [calls EXCEPT ![m] = @ + 1]
        /\ wrong' = (wrong \/ (~stray /\ (m # run.model \/ (lat > 0 /\ id # run.n))))
    BY <2>1
  <2>3. /\ CallType /\ PairInv /\ KeptInv /\ MAX_RECENT_CALLS \in Nat \ {0}
        /\ 2 * MAX_RECENT_CALLS \in Nat \ {0} /\ 2 * MAX_RECENT_CALLS >= MAX_RECENT_CALLS + 1
        /\ MAX_SANE_LATENCY \in Nat /\ run.on /\ run.model \in Calls!Model /\ current \in Calls!Model
    BY JournalsAssumption, SMTT(20) DEF CallsInv, CallType, Calls!TurnEnd
  <2>4. m \in Calls!Model /\ (~stray => m = run.model)
    <3>1. m \in Calls!Model
      BY <2>3 DEF Calls!Model
    <3>2. ASSUME ~stray PROVE m = run.model
      <4>1. current = run.model
        BY <2>3, <3>2 DEF PairInv, Calling
      <4>2. m = [provider |-> current.provider, id |-> current.id]
        BY <4>1
      <4> QED BY <2>3, <4>1, <4>2 DEF Calls!Model
    <3> QED BY <3>1, <3>2
  <2>5. /\ lat \in 0 .. MAX_SANE_LATENCY /\ (lat > 0 => \E e \in inFlight : e.id = id)
    BY <2>3, LatencyBounded
  <2>6. /\ recent[m] \in Seq(CallRecord) /\ calls[m] \in Nat /\ id \in Nat
        /\ Len(recent[m]) = (IF calls[m] <= MAX_RECENT_CALLS THEN calls[m] ELSE MAX_RECENT_CALLS)
    BY <2>3, <2>4 DEF CallType, KeptInv
  <2> HIDE DEF lat, id
  <2>7. r \in CallRecord /\ r.latency = lat
    BY <2>3, <2>5 DEF CallRecord
  <2> HIDE DEF r
  <2>8. /\ all \in Seq(CallRecord) /\ Len(all) = Len(recent[m]) + 1 /\ Len(recent[m]) \in Nat
        /\ all[Len(recent[m]) + 1] = r /\ \A i \in 1 .. Len(recent[m]) : all[i] = recent[m][i]
    BY <2>6, <2>7
  <2> HIDE DEF all
  <2>9. /\ pruned \in Seq(CallRecord)
        /\ Len(pruned) = (IF Len(all) > 2 * MAX_RECENT_CALLS THEN 2 * MAX_RECENT_CALLS ELSE Len(all))
        /\ \A i \in 1 .. Len(pruned) : \E j \in 1 .. Len(all) : pruned[i] = all[j]
    BY <2>3, <2>8, LastFewOf
  <2>10. Len(pruned) = Len(all)
    BY <2>3, <2>6, <2>8, <2>9
  <2> HIDE DEF pruned
  <2>11. /\ last \in Seq(CallRecord)
         /\ Len(last) = (IF Len(pruned) > MAX_RECENT_CALLS THEN MAX_RECENT_CALLS ELSE Len(pruned))
         /\ \A i \in 1 .. Len(last) : \E j \in 1 .. Len(pruned) : last[i] = pruned[j]
    BY <2>3, <2>9, LastFewOf
  <2> HIDE DEF last
  <2>12. /\ stats' = [k \in Calls!Model |-> stats'[k]] /\ stats'[m].total = Len(pruned)
         /\ \A k \in Calls!Model : k # m => stats'[k] = stats[k]
    <3> DEFINE d == Calls!Derived(pruned)
    <3>1. d.total = Len(pruned)
      BY DEF Calls!Derived
    <3> HIDE DEF d
    <3>2. stats = [k \in Calls!Model |-> stats[k]] /\ stats' = [stats EXCEPT ![m] = d]
      BY <2>2, <2>3 DEF CallType, d
    <3> QED BY <2>4, <3>1, <3>2
  <2>13. CallType'
    <3>0. /\ recent \in [Calls!Model -> Seq(CallRecord)] /\ calls \in [Calls!Model -> Nat]
          /\ pendingCallIds \in [Calls!Model -> Nat]
      BY <2>3 DEF CallType
    <3>1. recent' \in [Calls!Model -> Seq(CallRecord)]
      <4>1. recent' = [recent EXCEPT ![m] = last]
        BY <2>2
      <4> QED BY <2>4, <2>11, <3>0, <4>1
    <3>2. calls' \in [Calls!Model -> Nat]
      <4>1. calls' = [calls EXCEPT ![m] = @ + 1]
        BY <2>2
      <4> QED BY <2>4, <3>0, <4>1
    <3>3. pendingCallIds' \in [Calls!Model -> Nat]
      <4>1. pendingCallIds' = [pendingCallIds EXCEPT ![m] = 0]
        BY <2>2
      <4> QED BY <2>4, <3>0, <4>1
    <3> QED BY <1>0, <2>2, <2>3, <2>12, <3>1, <3>2, <3>3 DEF CallType
  <2>14. PairInv'
    <3>1. \A k \in Calls!Model : pendingCallIds'[k] \in {0, pendingCallIds[k]}
      BY <2>2, <2>3, <2>4 DEF CallType
    <3>2. run.n \in Nat
      BY <2>3 DEF CallType
    <3> QED BY <1>0, <2>3, <3>1, <3>2 DEF PairInv, Calling, Calls!IsFreeModel
  <2>15. KeptInv'
    <3>1. calls'[m] = calls[m] + 1 /\ recent'[m] = last
          /\ \A k \in Calls!Model : k # m => calls'[k] = calls[k] /\ recent'[k] = recent[k]
      BY <2>2, <2>3, <2>4 DEF CallType
    <3>2. Len(last) = (IF calls'[m] <= MAX_RECENT_CALLS THEN calls'[m] ELSE MAX_RECENT_CALLS)
      BY <2>3, <2>6, <2>8, <2>10, <2>11, <3>1
    <3>3. Len(pruned) = (IF calls'[m] <= MAX_RECENT_CALLS THEN calls'[m] ELSE MAX_RECENT_CALLS + 1)
      BY <2>3, <2>6, <2>8, <2>10, <3>1
    <3> QED BY <2>3, <2>12, <3>1, <3>2, <3>3 DEF KeptInv
  <2>16. Calls!CallsAreOfTheirRun'
    <3>1. ASSUME ~stray, lat > 0 PROVE id = run.n
      <4>1. id # 0
        BY <2>3, <2>5, <3>1 DEF CallType
      <4>2. Calls!IsFreeModel(run.model) /\ m = run.model
        BY <1>2, <2>3, <2>4, <3>1 DEF PairInv, Calling
      <4> QED BY <2>3, <3>1, <4>1, <4>2 DEF PairInv, Calling, id
    <3> QED BY <2>2, <2>4, <3>1 DEF CallsInv, Calls!CallsAreOfTheirRun
  <2>17. Calls!LatencySane'
    <3> SUFFICES ASSUME NEW k \in Calls!Model, NEW e \in Calls!ToSet(recent'[k])
                 PROVE  e.latency <= MAX_SANE_LATENCY
      BY DEF Calls!LatencySane, Calls!ToSet
    <3>0. \A q \in Calls!Model : \A i \in 1 .. Len(recent[q]) :
            recent[q][i].latency <= MAX_SANE_LATENCY
      <4> TAKE q \in Calls!Model
      <4> TAKE i \in 1 .. Len(recent[q])
      <4>1. recent[q] \in Seq(CallRecord)
        BY <2>3 DEF CallType
      <4>2. recent[q][i] \in Calls!ToSet(recent[q])
        BY <4>1 DEF Calls!ToSet
      <4> QED BY <4>2 DEF CallsInv, Calls!LatencySane
    <3>1. CASE k = m
      <4>1. PICK i \in 1 .. Len(last) : e = last[i]
        <5>1. recent'[k] = last
          BY <2>2, <2>3, <2>4, <3>1 DEF CallType
        <5>2. e \in Calls!ToSet(last) /\ DOMAIN last = 1 .. Len(last)
          BY <2>11, <5>1
        <5> QED BY <5>2 DEF Calls!ToSet
      <4>2. PICK j \in 1 .. Len(pruned) : e = pruned[j]
        BY <2>11, <4>1
      <4>3. PICK h \in 1 .. Len(all) : e = all[h]
        BY <2>9, <4>2
      <4>4. CASE h <= Len(recent[m])
        BY <2>4, <2>8, <3>0, <4>3, <4>4
      <4>5. CASE h > Len(recent[m])
        <5>1. h = Len(recent[m]) + 1
          BY <2>8, <4>5
        <5> QED BY <2>3, <2>5, <2>7, <2>8, <4>3, <5>1
      <4> QED BY <2>8, <4>4, <4>5
    <3>2. CASE k # m
      <4>1. recent'[k] = recent[k]
        BY <2>2, <2>3, <2>4, <3>2 DEF CallType
      <4> QED BY <4>1 DEF CallsInv, Calls!LatencySane
    <3> QED BY <3>1, <3>2
  <2>18. Calls!InFlightSane'
    <3>1. \A k \in Calls!Model, e \in inFlight' :
            pendingCallIds'[k] = e.id => e.id # 0 /\ pendingCallIds[k] = e.id
      <4> TAKE k \in Calls!Model, e \in inFlight'
      <4>1. e \in inFlight /\ e.id # 0
        BY <2>2, <2>3 DEF CallType
      <4>2. pendingCallIds'[k] \in {0, pendingCallIds[k]}
        BY <2>2, <2>3, <2>4 DEF CallType
      <4> QED BY <4>1, <4>2
    <3> QED BY <2>2, <3>1 DEF CallsInv, Calls!InFlightSane
  <2>19. Calls!BarOfCurrent'
    BY <1>0 DEF CallsInv, Calls!BarOfCurrent, Calls!None
  <2> QED BY <2>13, <2>14, <2>15, <2>16, <2>17, <2>18, <2>19 DEF CallsInv
<1> QED BY <1>1, <1>2

LEMMA CallsStep == ASSUME CallsInv, Calls!Next PROVE CallsInv'
BY SelectKeeps, ResponseKeeps, AgentStartKeeps, TurnEndKeeps, RunOverKeeps, ClockTickKeeps
   DEF Calls!Next

LEMMA CallsIdle == ASSUME CallsInv, UNCHANGED callVars PROVE CallsInv'
<1>1. CallType' /\ PairInv' /\ Calls!BarOfCurrent'
  BY DEF CallsInv, CallType, PairInv, Calling, Calls!BarOfCurrent, Calls!None, callVars
<1> QED BY <1>1, TelemetryUntouched DEF CallsInv, callVars

(* The totals hold the errors of the calls that are kept, and at most one     *)
(* more; each bad response is counted for one provider, under one heading.    *)
Wrong(s) == {i \in DOMAIN s : ~s[i].success}
ErrorsInv == \A m \in Calls!Model : stats[m].errors - Calls!Derived(recent[m]).errors \in {0, 1}
Counters == [authFailures : Nat, rateLimited : Nat, serverErrors : Nat, quotaHeaderDrift : Nat]
BadOf(c) == [p \in Provider |-> Calls!Failures(c[p])]
BadInv == counters \in [Provider -> Counters] /\ bad \in Nat /\ bad = Total(BadOf(counters), Provider)

LEMMA WrongOnes ==
  ASSUME NEW s \in Seq(CallRecord)
  PROVE  /\ IsFiniteSet(Wrong(s)) /\ Cardinality(Wrong(s)) \in Nat
         /\ Calls!Derived(s).errors = Cardinality(Wrong(s))
<1>1. Len(s) \in Nat /\ DOMAIN s = 1 .. Len(s) /\ Wrong(s) \in SUBSET (1 .. Len(s))
  BY DEF Wrong
<1>2. IsFiniteSet(1 .. Len(s))
  BY <1>1, FS_Interval
<1>3. IsFiniteSet(Wrong(s))
  BY <1>1, <1>2, FS_Subset
<1>4. Calls!Derived(s).errors = Cardinality(Wrong(s))
  BY DEF Calls!Derived, Wrong, Calls!Cardinality, Cardinality
<1> QED BY <1>3, <1>4, FS_CardinalityType

LEMMA WrongOfTail ==
  ASSUME NEW s \in Seq(CallRecord), Len(s) > 0, NEW t, t = SubSeq(s, 2, Len(s))
  PROVE  Calls!Derived(s).errors - Calls!Derived(t).errors \in {0, 1}
<1>1. /\ t \in Seq(CallRecord) /\ Len(s) \in Nat \ {0} /\ Len(t) = Len(s) - 1
      /\ DOMAIN s = 1 .. Len(s) /\ DOMAIN t = 1 .. Len(s) - 1
      /\ \A i \in 1 .. Len(s) - 1 : t[i] = s[i + 1]
  <2>1. Len(s) \in Nat \ {0} /\ DOMAIN s = 1 .. Len(s)
    OBVIOUS
  <2>2. t \in Seq(CallRecord) /\ Len(t) = Len(s) - 1
    BY <2>1
  <2>3. \A i \in 1 .. Len(s) - 1 : t[i] = s[2 + i - 1]
    BY <2>1
  <2>4. \A i \in 1 .. Len(s) - 1 : 2 + i - 1 = i + 1
    BY <2>1
  <2> QED BY <2>1, <2>2, <2>3, <2>4
<1> DEFINE A == Wrong(s) \ {1}
           f == [i \in Wrong(t) |-> i + 1]
<1>2. f \in [Wrong(t) -> A]
  BY <1>1 DEF Wrong
<1>3. f \in Injection(Wrong(t), A)
  <2>1. \A i, j \in Wrong(t) : f[i] = f[j] => i = j
    BY <1>1 DEF Wrong
  <2> HIDE DEF f
  <2> QED BY <1>2, <2>1 DEF Injection, IsInjective
<1>4. \A x \in A : \E i \in Wrong(t) : f[i] = x
  <2> TAKE x \in A
  <2>1. x - 1 \in Wrong(t) /\ (x - 1) + 1 = x
    BY <1>1 DEF Wrong
  <2>2. f[x - 1] = x
    BY <2>1
  <2> HIDE DEF f
  <2> QED BY <2>1, <2>2
<1> HIDE DEF f
<1>5. f \in Bijection(Wrong(t), A)
  BY <1>2, <1>3, <1>4 DEF Bijection, Surjection
<1>6. Cardinality(A) = Cardinality(Wrong(t)) /\ Cardinality(Wrong(t)) \in Nat
  BY <1>1, <1>5, WrongOnes, FS_Bijection DEF ExistsBijection
<1>7. Cardinality(A) = IF 1 \in Wrong(s) THEN Cardinality(Wrong(s)) - 1 ELSE Cardinality(Wrong(s))
  BY WrongOnes, FS_RemoveElement
<1>8. /\ Calls!Derived(s).errors = Cardinality(Wrong(s)) /\ Cardinality(Wrong(s)) \in Nat
      /\ Calls!Derived(t).errors = Cardinality(Wrong(t))
  BY <1>1, WrongOnes
<1> QED BY <1>6, <1>7, <1>8

LEMMA LastFewIs ==
  ASSUME NEW S, NEW s \in Seq(S), NEW n \in Nat \ {0}, Len(s) <= n + 1
  PROVE  Calls!LastFew(s, n) = IF Len(s) <= n THEN s ELSE SubSeq(s, 2, Len(s))
<1>1. Len(s) \in Nat
  OBVIOUS
<1>2. CASE Len(s) <= n
  <2> DEFINE from == IF Len(s) > n THEN Len(s) - n + 1 ELSE 1
  <2>0. Calls!LastFew(s, n) = SubSeq(s, from, Len(s)) /\ from = 1
    BY <1>1, <1>2 DEF Calls!LastFew
  <2> HIDE DEF from
  <2>1. Calls!LastFew(s, n) = SubSeq(s, 1, Len(s))
    BY <2>0
  <2>2. SubSeq(s, 1, Len(s)) = s
    OBVIOUS
  <2> QED BY <1>2, <2>1, <2>2
<1>3. CASE Len(s) = n + 1
  <2>1. Len(s) > n /\ Len(s) - n + 1 = 2 /\ ~(Len(s) <= n)
    BY <1>1, <1>3
  <2> QED BY <2>1 DEF Calls!LastFew
<1> QED BY <1>1, <1>2, <1>3

LEMMA TurnEndDerives == ASSUME CallsInv, ErrorsInv, Calls!TurnEnd PROVE ErrorsInv'
<1>1. CASE ~Calls!IsFreeModel(current)
  BY <1>1 DEF Calls!TurnEnd, Calls!telemetry, ErrorsInv
<1>2. CASE Calls!IsFreeModel(current)
  <2>1. PICK m \in {[provider |-> current.provider, id |-> i] : i \in {run.model.id, current.id}},
             success \in BOOLEAN :
          LET id == pendingCallIds[m]
              pruned == Calls!LastFew(Append(recent[m],
                          [success |-> success, latency |-> Calls!Latency(m, id)]),
                          2 * MAX_RECENT_CALLS)
          IN /\ stats' = [stats EXCEPT ![m] = Calls!Derived(pruned)]
             /\ recent' = [recent EXCEPT ![m] = Calls!LastFew(pruned, MAX_RECENT_CALLS)]
    BY <1>2 DEF Calls!TurnEnd
  <2> DEFINE lat == Calls!Latency(m, pendingCallIds[m])
             r == [success |-> success, latency |-> lat]
             all == Append(recent[m], r)
             pruned == Calls!LastFew(all, 2 * MAX_RECENT_CALLS)
             last == Calls!LastFew(pruned, MAX_RECENT_CALLS)
  <2>2. /\ CallType /\ KeptInv /\ MAX_RECENT_CALLS \in Nat \ {0} /\ MAX_SANE_LATENCY \in Nat
        /\ 2 * MAX_RECENT_CALLS \in Nat \ {0} /\ 2 * MAX_RECENT_CALLS >= MAX_RECENT_CALLS + 1
        /\ run.model \in Calls!Model /\ current \in Calls!Model
    BY JournalsAssumption, SMTT(20) DEF CallsInv, CallType, Calls!TurnEnd
  <2>3. m \in Calls!Model
    BY <2>2 DEF Calls!Model
  <2>4. stats' = [stats EXCEPT ![m] = Calls!Derived(pruned)] /\ recent' = [recent EXCEPT ![m] = last]
    BY <2>1
  <2>5. r \in CallRecord
    BY <2>2, LatencyBounded DEF CallRecord
  <2>6. recent[m] \in Seq(CallRecord) /\ Len(recent[m]) \in Nat /\ Len(recent[m]) <= MAX_RECENT_CALLS
    <3>1. calls[m] \in Nat /\ recent[m] \in Seq(CallRecord)
      BY <2>2, <2>3 DEF CallType
    <3> QED BY <2>2, <2>3, <3>1 DEF KeptInv
  <2> HIDE DEF r
  <2>7. all \in Seq(CallRecord) /\ Len(all) = Len(recent[m]) + 1
    BY <2>5, <2>6
  <2> HIDE DEF all
  <2>8. pruned = all
    <3>1. Len(all) <= 2 * MAX_RECENT_CALLS + 1 /\ Len(all) <= 2 * MAX_RECENT_CALLS
      BY <2>2, <2>6, <2>7
    <3> QED BY <2>2, <2>7, <3>1, LastFewIs
  <2> HIDE DEF pruned
  <2>9. last = IF Len(all) <= MAX_RECENT_CALLS THEN all ELSE SubSeq(all, 2, Len(all))
    <3>1. Len(all) <= MAX_RECENT_CALLS + 1
      BY <2>2, <2>6, <2>7
    <3> QED BY <2>2, <2>7, <2>8, <3>1, LastFewIs
  <2> HIDE DEF last
  <2>10. Calls!Derived(all).errors - Calls!Derived(last).errors \in {0, 1}
    <3>1. CASE last = all
      <4>1. Calls!Derived(all).errors \in Nat
        BY <2>7, WrongOnes
      <4> QED BY <3>1, <4>1
    <3>2. CASE last = SubSeq(all, 2, Len(all))
      <4>1. Len(all) > 0
        BY <2>6, <2>7
      <4> QED BY <2>7, <3>2, <4>1, WrongOfTail
    <3> QED BY <2>9, <3>1, <3>2
  <2>11. stats = [k \in Calls!Model |-> stats[k]] /\ DOMAIN recent = Calls!Model
    BY <2>2 DEF CallType
  <2> DEFINE d == Calls!Derived(all)
  <2>12. \A k \in Calls!Model : /\ stats'[k] = IF k = m THEN d ELSE stats[k]
                                /\ recent'[k] = IF k = m THEN last ELSE recent[k]
    BY <2>3, <2>4, <2>8, <2>11
  <2>13. \A k \in Calls!Model : stats'[k].errors - Calls!Derived(recent'[k]).errors \in {0, 1}
    BY <2>10, <2>12 DEF ErrorsInv
  <2>14. \A k \in Calls!Model : Calls!Derived(recent[k])' = Calls!Derived(recent'[k])
    BY DEF Calls!Derived, Calls!Cardinality
  <2> QED BY <2>13, <2>14 DEF ErrorsInv
<1> QED BY <1>1, <1>2

LEMMA CountedOnce ==
  ASSUME NEW c \in Counters, NEW status \in {200, 403, 429, 503}, NEW h,
         NEW t, t = Calls!Drifted(Calls!Counted(c, status), h)
  PROVE  t \in Counters /\ Calls!Failures(t) = Calls!Failures(c) + (IF status = 200 THEN 0 ELSE 1)
         /\ Calls!Failures(c) \in Nat
<1> DEFINE a == Calls!Counted(c, status)
<1>1. /\ c.authFailures \in Nat /\ c.rateLimited \in Nat /\ c.serverErrors \in Nat
      /\ c.quotaHeaderDrift \in Nat
  BY DEF Counters
<1>2. a = CASE status \in {401, 403} -> [c EXCEPT !.authFailures = @ + 1]
            [] status = 429 -> [c EXCEPT !.rateLimited = @ + 1]
            [] status \in 500 .. 599 -> [c EXCEPT !.serverErrors = @ + 1]
            [] OTHER -> c
  BY DEF Calls!Counted
<1>3. a \in Counters /\ Calls!Failures(a) = Calls!Failures(c) + (IF status = 200 THEN 0 ELSE 1)
  <2> HIDE DEF a
  <2>1. CASE status = 200
    <3>1. a = c
      BY <1>2, <2>1
    <3> QED BY <1>1, <2>1, <3>1 DEF Calls!Failures
  <2>2. CASE status = 403
    <3>1. a = [c EXCEPT !.authFailures = @ + 1]
      BY <1>2, <2>2
    <3> QED BY <1>1, <2>2, <3>1 DEF Calls!Failures, Counters
  <2>3. CASE status = 429
    <3>1. a = [c EXCEPT !.rateLimited = @ + 1]
      BY <1>2, <2>3
    <3> QED BY <1>1, <2>3, <3>1 DEF Calls!Failures, Counters
  <2>4. CASE status = 503
    <3>1. a = [c EXCEPT !.serverErrors = @ + 1]
      BY <1>2, <2>4
    <3> QED BY <1>1, <2>4, <3>1 DEF Calls!Failures, Counters
  <2> QED BY <2>1, <2>2, <2>3, <2>4
<1> HIDE DEF a
<1>4. t \in Counters /\ Calls!Failures(t) = Calls!Failures(a)
  <2>1. t = IF h = "drifted" THEN [a EXCEPT !.quotaHeaderDrift = @ + 1] ELSE a
    BY DEF Calls!Drifted, a
  <2>2. CASE h = "drifted"
    <3>1. t = [a EXCEPT !.quotaHeaderDrift = @ + 1]
      BY <2>1, <2>2
    <3> QED BY <1>3, <3>1 DEF Calls!Failures, Counters
  <2>3. CASE h # "drifted"
    BY <1>3, <2>1, <2>3
  <2> QED BY <2>2, <2>3
<1> QED BY <1>1, <1>3, <1>4 DEF Calls!Failures

LEMMA ResponseCounts == ASSUME CallsInv, BadInv, Calls!Response PROVE BadInv'
<1> DEFINE p == current.provider
<1>1. PICK status \in {200, 403, 429, 503}, h \in Calls!Headers :
        LET q == current.provider
        IN /\ counters' = [counters EXCEPT ![q] = Calls!Drifted(Calls!Counted(@, status), h)]
           /\ bad' = bad + (IF status = 200 THEN 0 ELSE 1)
           /\ quota' = Calls!QuotaAfter(q, h)
           /\ statusBar' = IF Calls!FormatQuotaStatus(quota', q) = Calls!None THEN statusBar ELSE q
  BY DEF Calls!Response
<1>2. p \in Provider /\ counters \in [Provider -> Counters] /\ bad \in Nat /\ counters[p] \in Counters
  BY DEF CallsInv, CallType, Calls!Model, BadInv
<1> DEFINE n == IF status = 200 THEN 0 ELSE 1
           t == Calls!Drifted(Calls!Counted(counters[p], status), h)
<1>3. counters' = [counters EXCEPT ![p] = t] /\ bad' = bad + n /\ n \in Nat
  <2>1. counters' = [counters EXCEPT ![p] = t]
    BY <1>1
  <2>2. bad' = bad + n
    BY <1>1
  <2> QED BY <2>1, <2>2
<1> HIDE DEF p
<1>4. t \in Counters /\ Calls!Failures(t) = Calls!Failures(counters[p]) + n
  BY <1>2, CountedOnce
<1> HIDE DEF t, n
<1>5. counters' \in [Provider -> Counters] /\ counters'[p] = t
      /\ \A q \in Provider \ {p} : counters'[q] = counters[q]
  BY <1>2, <1>3, <1>4
<1> DEFINE f == BadOf(counters)
           k == BadOf(counters')
<1>6. NatOn(f, Provider) /\ k[p] = f[p] + n /\ \A q \in Provider \ {p} : k[q] = f[q]
  <2>1. \A q \in Provider : Calls!Failures(counters[q]) \in Nat
    <3> TAKE q \in Provider
    <3>1. counters[q] \in Counters
      BY <1>2
    <3> QED BY <3>1 DEF Calls!Failures, Counters
  <2> QED BY <1>2, <1>4, <1>5, <2>1 DEF BadOf, NatOn
<1> HIDE DEF f, k
<1>7. Total(k, Provider) = Total(f, Provider) + n
  BY <1>2, <1>3, <1>6, JournalsAssumption, TotalChanges
<1> QED BY <1>2, <1>3, <1>5, <1>7 DEF BadInv, f, k

LEMMA TotalsStep == ASSUME CallsInv, ErrorsInv, BadInv, Calls!Next PROVE ErrorsInv' /\ BadInv'
<1>1. UNCHANGED <<stats, recent>> => ErrorsInv'
  BY DEF ErrorsInv
<1>2. UNCHANGED <<counters, bad>> => BadInv'
  BY DEF BadInv, BadOf, Calls!Failures
<1>3. CASE Calls!Response
  BY <1>1, <1>3, ResponseCounts DEF Calls!Response, Calls!telemetry
<1>4. CASE Calls!TurnEnd
  BY <1>2, <1>4, TurnEndDerives DEF Calls!TurnEnd, Calls!monitor
<1>5. CASE Calls!Select \/ Calls!AgentStart \/ Calls!RunOver \/ Calls!Tick
  BY <1>1, <1>2, <1>5 DEF Calls!Select, Calls!AgentStart, Calls!RunOver, Calls!Tick, Calls!telemetry, Calls!monitor
<1> QED BY <1>3, <1>4, <1>5 DEF Calls!Next

LEMMA TotalsIdle == ASSUME ErrorsInv, BadInv, UNCHANGED callVars PROVE ErrorsInv' /\ BadInv'
<1>1. ErrorsInv'
  BY DEF ErrorsInv, callVars
<1>2. BadInv'
  BY DEF BadInv, BadOf, Calls!Failures, callVars
<1> QED BY <1>1, <1>2

LEMMA TotalsInit == Calls!Init => ErrorsInv /\ BadInv
<1> SUFFICES ASSUME Calls!Init PROVE ErrorsInv /\ BadInv
  OBVIOUS
<1>1. /\ recent = [m \in Calls!Model |-> <<>>]
      /\ stats = [m \in Calls!Model |-> [total |-> 0, errors |-> 0]]
      /\ counters = [p \in Provider |-> Calls!NoCounters] /\ bad = 0
  BY DEF Calls!Init
<1>2. ErrorsInv
  <2>1. <<>> \in Seq(CallRecord) /\ Wrong(<<>>) = {}
    BY DEF Wrong
  <2>2. Calls!Derived(<<>>).errors = 0
    BY <2>1, WrongOnes, FS_EmptySet
  <2> DEFINE e == Calls!Derived(<<>>).errors
  <2>3. \A m \in Calls!Model : stats[m].errors = 0 /\ Calls!Derived(recent[m]).errors = e
    BY <1>1
  <2> QED BY <2>2, <2>3 DEF ErrorsInv
<1>3. BadInv
  <2>1. counters \in [Provider -> Counters]
    BY <1>1 DEF Calls!NoCounters, Counters
  <2> DEFINE f == BadOf(counters)
  <2>2. \A p \in Provider : f[p] = 0
    BY <1>1 DEF BadOf, Calls!Failures, Calls!NoCounters
  <2> HIDE DEF f
  <2>3. Total(f, Provider) = 0
    BY <2>2, JournalsAssumption, TotalOfNone
  <2> QED BY <1>1, <2>1, <2>3 DEF BadInv, f
<1> QED BY <1>2, <1>3

LEMMA TotalsAreTrue == ASSUME CallsInv, ErrorsInv, BadInv PROVE Calls!TotalsCoverRecent /\ Calls!FailuresCounted
<1>1. Calls!TotalsCoverRecent
  BY DEF CallsInv, KeptInv, ErrorsInv, Calls!TotalsCoverRecent
<1>2. DOMAIN BadOf(counters) = Provider /\ BadOf(counters) = [p \in Provider |-> Calls!Failures(counters[p])]
  BY DEF BadOf
<1>3. Calls!FailuresCounted
  BY <1>2, SumsAreTotals DEF BadInv, Calls!FailuresCounted
<1> QED BY <1>1, <1>3

----------------------------------------------------------------------------
(* The verdicts do not depend on the state; the notices and the settings do.  *)
LEMMA VerdictsHold == Verdicts!VerdictsStable
<1> SUFFICES ASSUME NEW m \in Verdicts!Message, NEW status \in {0, 200, 429, 503}
             PROVE  LET before(stop) == Verdicts!Acts(stop, m, status, FALSE)
                        after(stop) == Verdicts!Acts(stop, m, status, TRUE)
                    IN /\ before("error") = ~m.fatal /\ after("error") = ~m.fatal
                       /\ before("aborted") # after("aborted") =>
                            status = 503 /\ ~m.fatal /\ ~m.limit /\ m.transient # m.retryable
                       /\ before("aborted") \/ after("aborted") =>
                            status = 503 /\ m # Verdicts!NoMessage /\ ~m.fatal
  BY DEF Verdicts!VerdictsStable
<1> DEFINE asks(loaded) == m.limit \/ (IF loaded THEN m.retryable ELSE m.transient)
<1>0. m.fatal \in BOOLEAN /\ m.limit \in BOOLEAN /\ m.transient \in BOOLEAN /\ m.retryable \in BOOLEAN
  BY DEF Verdicts!Message
<1>1. ASSUME NEW loaded \in BOOLEAN
      PROVE  /\ Verdicts!Acts("error", m, status, loaded) = ~m.fatal
             /\ Verdicts!Acts("aborted", m, status, loaded) = (~m.fatal /\ asks(loaded) /\ status = 503)
  <2> DEFINE kind == Verdicts!ClassifyErrorMessage(m, loaded)
  <2>1. CASE m.fatal
    <3>1. kind = "unrecoverable"
      BY <2>1 DEF Verdicts!ClassifyErrorMessage
    <3>2. /\ Verdicts!AssistantFailure("error", m, loaded) = "unrecoverable"
          /\ Verdicts!AssistantFailure("aborted", m, loaded) = "unrecoverable"
      BY <3>1 DEF Verdicts!AssistantFailure
    <3> QED
      BY <2>1, <3>2 DEF Verdicts!Acts
  <2>2. CASE ~m.fatal /\ asks(loaded)
    <3>1. kind = "recoverable"
      BY <2>2 DEF Verdicts!ClassifyErrorMessage
    <3>2. Verdicts!ClassifyAbort(status) = "recoverable" <=> status = 503
      BY DEF Verdicts!ClassifyAbort
    <3>3. /\ Verdicts!AssistantFailure("error", m, loaded) = "recoverable"
          /\ Verdicts!AssistantFailure("aborted", m, loaded) = "recoverable"
      BY <3>1 DEF Verdicts!AssistantFailure
    <3> QED
      BY <1>0, <2>2, <3>2, <3>3 DEF Verdicts!Acts
  <2>3. CASE ~m.fatal /\ ~asks(loaded)
    <3>1. kind = "none"
      BY <2>3 DEF Verdicts!ClassifyErrorMessage
    <3>2. /\ Verdicts!AssistantFailure("error", m, loaded) = "unknown"
          /\ Verdicts!AssistantFailure("aborted", m, loaded) = "none"
      BY <3>1 DEF Verdicts!AssistantFailure
    <3> QED
      BY <2>3, <3>2 DEF Verdicts!Acts
  <2> QED BY <1>0, <2>1, <2>2, <2>3
<1>2. asks(TRUE) \/ asks(FALSE) => m # Verdicts!NoMessage
  BY DEF Verdicts!NoMessage
<1>3. asks(TRUE) # asks(FALSE) => ~m.limit /\ m.transient # m.retryable
  BY <1>0
<1>4. /\ Verdicts!Acts("error", m, status, FALSE) = ~m.fatal
      /\ Verdicts!Acts("error", m, status, TRUE) = ~m.fatal
      /\ Verdicts!Acts("aborted", m, status, FALSE) = (~m.fatal /\ asks(FALSE) /\ status = 503)
      /\ Verdicts!Acts("aborted", m, status, TRUE) = (~m.fatal /\ asks(TRUE) /\ status = 503)
  BY <1>1
<1> HIDE DEF asks
<1> QED BY <1>2, <1>3, <1>4

LEMMA SettingsHold ==
  /\ \A e, f \in 0 .. 2, default \in 1 .. 2 : Verdicts!EnvNumber(e, f, default) > 0
  /\ \A e, f \in (SUBSET {"p", "q"}) \cup {{"unset"}} : "unset" \notin Verdicts!EnvStringList(e, f)
<1>1. \A e, f \in 0 .. 2, default \in 1 .. 2 : Verdicts!EnvNumber(e, f, default) > 0
  BY DEF Verdicts!EnvNumber
<1>2. \A e, f \in (SUBSET {"p", "q"}) \cup {{"unset"}} : "unset" \notin Verdicts!EnvStringList(e, f)
  <2> SUFFICES ASSUME NEW e \in (SUBSET {"p", "q"}) \cup {{"unset"}},
                      NEW f \in (SUBSET {"p", "q"}) \cup {{"unset"}}
               PROVE  "unset" \notin Verdicts!EnvStringList(e, f)
    OBVIOUS
  <2>1. e = {"unset"} \/ "unset" \notin e
    OBVIOUS
  <2>2. f = {"unset"} \/ "unset" \notin f
    OBVIOUS
  <2>3. Verdicts!EnvStringList(e, f)
          = IF e # {"unset"} THEN e ELSE IF f \in {{}, {"unset"}} THEN {} ELSE f
    BY DEF Verdicts!EnvStringList
  <2> QED BY <2>1, <2>2, <2>3
<1> QED BY <1>1, <1>2

LEMMA NoticeInvInit == Verdicts!Init => NoticeInv
<1> SUFFICES ASSUME Verdicts!Init PROVE NoticeInv
  OBVIOUS
<1>1. runs = 0 /\ activeSince = 0 /\ bar = FALSE /\ notifier = "none"
  BY DEF Verdicts!Init
<1> QED BY <1>1 DEF NoticeInv, Verdicts!BarWhileActive

(* The first switch shows the indicator, the recovery hides it.               *)
LEMMA NoticeStep == ASSUME NoticeInv, Verdicts!Next PROVE NoticeInv'
<1>1. CASE Verdicts!Settled
  <2>1. /\ Verdicts!Config.enabled /\ runs' = runs + 1 /\ UNCHANGED <<env, file>>
    BY <1>1 DEF Verdicts!Settled, Verdicts!settings
  <2>2. "true" \in {env.on, file.on}
    BY <2>1 DEF Verdicts!Config, Verdicts!EnvBool
  <2>3. Verdicts!Config.level \in Verdicts!Level
    BY DEF Verdicts!Config, Verdicts!ParseLevel, Verdicts!Level
  <2>4. CASE Verdicts!ClearStatus
    <3>1. /\ notifier' = (IF notifier = "none" THEN Verdicts!Config.level ELSE notifier)
          /\ activeSince' = 0 /\ bar' = (bar /\ notifier' = "silent")
      BY <2>4 DEF Verdicts!ClearStatus
    <3>2. notifier' \in Verdicts!Level /\ notifier' # "none"
      <4>1. notifier \in {"none"} \cup Verdicts!Level /\ "none" \notin Verdicts!Level
        BY DEF NoticeInv, Verdicts!Level
      <4> QED BY <2>3, <3>1, <4>1
    <3>3. bar' \in BOOLEAN /\ (bar' => notifier' = "silent")
      <4>1. CASE notifier' = "silent"
        BY <3>1, <4>1 DEF NoticeInv
      <4>2. CASE notifier' # "silent"
        BY <3>1, <4>2
      <4> QED BY <4>1, <4>2
    <3>4. runs' \in Nat /\ activeSince' \in Nat
      BY <2>1, <3>1 DEF NoticeInv
    <3> QED BY <2>1, <2>2, <3>1, <3>2, <3>3, <3>4 DEF NoticeInv, Verdicts!BarWhileActive
  <2>5. CASE Verdicts!RecordSwitch
    <3>1. /\ notifier' = (IF notifier = "none" THEN Verdicts!Config.level ELSE notifier)
          /\ activeSince' = (IF activeSince = 0 THEN runs' ELSE activeSince)
          /\ bar' = (bar \/ notifier' \in {"status_bar", "both"})
      BY <2>5 DEF Verdicts!RecordSwitch, Verdicts!WindowAfter
    <3>2. notifier' \in Verdicts!Level /\ notifier' # "none"
      BY <2>3, <3>1 DEF NoticeInv, Verdicts!Level
    <3>3. /\ runs' \in Nat /\ activeSince' \in Nat /\ activeSince' # 0
      BY <2>1, <3>1 DEF NoticeInv
    <3>4. bar' \in BOOLEAN /\ (notifier' \in {"status_bar", "both"} => bar')
      BY <3>1 DEF NoticeInv
    <3> QED BY <2>1, <2>2, <3>2, <3>3, <3>4 DEF NoticeInv, Verdicts!BarWhileActive
  <2>6. CASE UNCHANGED Verdicts!notices
    BY <2>1, <2>6 DEF NoticeInv, Verdicts!BarWhileActive, Verdicts!notices
  <2> QED BY <1>1, <2>4, <2>5, <2>6 DEF Verdicts!Settled
<1>2. CASE Verdicts!Loaded \/ Verdicts!Response \/ Verdicts!Tick
  BY <1>2 DEF Verdicts!Loaded, Verdicts!Response, Verdicts!Tick, Verdicts!notices,
              Verdicts!settings, NoticeInv, Verdicts!BarWhileActive
<1> QED BY <1>1, <1>2 DEF Verdicts!Next

LEMMA NoticeIdle == ASSUME NoticeInv, UNCHANGED verdictVars PROVE NoticeInv'
BY DEF NoticeInv, Verdicts!BarWhileActive, verdictVars

(* The toasts.  What was shown since the last recovery covers switches that   *)
(* are kept; but for the first one, a toast for a switch opens the window, so *)
(* that the next one is a window later; and the summaries and the window hold *)
(* all switches.                                                              *)
ToastRecord == [kind : {"switch", "summary"}, at : Nat, era : Nat, from : Nat \ {0}, n : Nat]
Firsts(T, e) == {t \in T : t.kind = "switch" /\ t.era = e}
Told(T, e) == {t \in T : t.kind = "summary" /\ t.era = e}
Switches(T) == [t \in T |-> t.n]
ToastInv ==
  /\ time \in Nat /\ switchWindow \in 0 .. time /\ buffer \in Nat /\ kept \in Nat /\ era \in Nat
  /\ (buffer = 0 <=> kept = 0) /\ (notifier = "none" => kept = 0)
  /\ IsFiniteSet(toasts) /\ toasts \subseteq ToastRecord
  /\ \A t \in toasts : t.era <= era /\ (t.era = era => t.from <= kept)
  /\ \A t \in Firsts(toasts, era) : t.from # 1 => t.at <= switchWindow
  /\ \A s, t \in Firsts(toasts, era) : s # t => s.from # t.from
  /\ \A s, t \in Firsts(toasts, era) : s.from # 1 /\ s.from < t.from => s.at + WINDOW <= t.at
  /\ Verdicts!Toasts(notifier) => kept = buffer + Total(Switches(Told(toasts, era)), Told(toasts, era))

LEMMA NothingShown ==
  ASSUME ToastInv, kept = 0
  PROVE  Firsts(toasts, era) = {} /\ Told(toasts, era) = {}
<1> SUFFICES ASSUME NEW t \in toasts, t.era = era PROVE FALSE
  BY DEF Firsts, Told
<1>1. t.from <= kept /\ t.from \in Nat \ {0}
  BY DEF ToastInv, ToastRecord
<1> QED BY <1>1

LEMMA NothingTold == Total(Switches({}), {}) = 0
<1> DEFINE f == Switches({})
<1>1. \A t \in {} : f[t] = 0
  OBVIOUS
<1> HIDE DEF f
<1> QED BY <1>1, FS_EmptySet, TotalOfNone DEF f

LEMMA ToastInvInit == Verdicts!Init => ToastInv
<1> SUFFICES ASSUME Verdicts!Init PROVE ToastInv
  OBVIOUS
<1>1. /\ time = 0 /\ notifier = "none" /\ buffer = 0 /\ switchWindow = 0 /\ era = 0 /\ toasts = {} /\ kept = 0
  BY DEF Verdicts!Init
<1>2. Firsts(toasts, era) = {} /\ ~Verdicts!Toasts(notifier)
  BY <1>1 DEF Firsts, Verdicts!Toasts
<1> QED BY <1>1, <1>2, FS_EmptySet DEF ToastInv

LEMMA SwitchIsToasted ==
  ASSUME NoticeInv, ToastInv, Verdicts!RecordSwitch, notifier' # "none", time' = time
  PROVE  ToastInv'
<1> DEFINE a == [kind |-> "summary", at |-> time, era |-> era, from |-> kept + 1, n |-> buffer]
           b == [kind |-> "switch", at |-> time, era |-> era, from |-> kept + 1, n |-> 1]
           A == IF Verdicts!Rotates /\ buffer > 0 /\ Verdicts!Toasts(notifier') THEN {a} ELSE {}
           B == IF buffer' = 1 /\ Verdicts!Toasts(notifier') THEN {b} ELSE {}
<1>1. /\ switchWindow' = (IF Verdicts!Rotates \/ notifier = "none" THEN time ELSE switchWindow)
      /\ buffer' = (IF Verdicts!Rotates THEN 1 ELSE buffer + 1)
      /\ kept' = kept + 1 /\ era' = era
      /\ notifier' = (IF notifier = "none" THEN Verdicts!Config.level ELSE notifier)
  BY DEF Verdicts!RecordSwitch, Verdicts!WindowAfter
<1>2. toasts' = toasts \cup A \cup B
  BY DEF Verdicts!RecordSwitch, Verdicts!WindowAfter, Verdicts!Toast
<1>3. /\ time \in Nat /\ switchWindow \in Nat /\ switchWindow <= time /\ buffer \in Nat /\ kept \in Nat
      /\ era \in Nat /\ WINDOW \in Nat /\ (buffer = 0 <=> kept = 0) /\ (notifier = "none" => kept = 0)
      /\ IsFiniteSet(toasts) /\ toasts \subseteq ToastRecord
      /\ \A t \in toasts : t.era <= era /\ (t.era = era => t.from <= kept)
  BY JournalsAssumption DEF ToastInv
<1>4. a \in ToastRecord /\ b \in ToastRecord /\ a.kind = "summary" /\ b.kind = "switch"
      /\ a.era = era /\ b.era = era /\ a.from = kept + 1 /\ b.from = kept + 1 /\ b.at = time /\ a.n = buffer
  BY <1>3 DEF ToastRecord
<1>5. Verdicts!Rotates <=> switchWindow + WINDOW <= time
  BY <1>3 DEF Verdicts!Rotates
<1> HIDE DEF a, b
<1>6. A \subseteq {a} /\ B \subseteq {b}
  OBVIOUS
<1>7. IsFiniteSet(toasts') /\ toasts' \subseteq ToastRecord
  <2>1. IsFiniteSet(A) /\ IsFiniteSet(B)
    BY FS_EmptySet, FS_Singleton
  <2>2. IsFiniteSet(toasts \cup A)
    BY <1>3, <2>1, FS_Union
  <2> QED BY <1>2, <1>3, <1>4, <1>6, <2>1, <2>2, FS_Union
<1>8. /\ Firsts(toasts', era') = Firsts(toasts, era) \cup B
      /\ Told(toasts', era') = Told(toasts, era) \cup A
  <2> HIDE DEF A, B
  <2> QED BY <1>1, <1>2, <1>4, <1>6 DEF Firsts, Told
<1>9. \A t \in toasts' : t.era <= era' /\ (t.era = era' => t.from <= kept')
  <2>1. \A t \in toasts : t.from \in Nat
    BY <1>3 DEF ToastRecord
  <2>2. \A t \in {a, b} : t.era <= era /\ t.from <= kept + 1
    BY <1>3, <1>4
  <2> HIDE DEF A, B
  <2> QED BY <1>1, <1>2, <1>3, <1>6, <2>1, <2>2
<1>10. \A t \in Firsts(toasts, era) : t \in ToastRecord /\ t.from <= kept /\ t.from \in Nat
                                      /\ t.at \in Nat
  BY <1>3 DEF Firsts, ToastRecord
<1>11. B # {} /\ kept # 0 => Verdicts!Rotates
  BY <1>1, <1>3
<1>12. \A t \in Firsts(toasts', era') : t.from # 1 => t.at <= switchWindow'
  <2> SUFFICES ASSUME NEW t \in Firsts(toasts', era'), t.from # 1 PROVE t.at <= switchWindow'
    OBVIOUS
  <2>1. CASE t \in Firsts(toasts, era)
    <3>1. t.at <= switchWindow /\ t.at \in Nat
      BY <1>10, <2>1 DEF ToastInv
    <3> QED BY <1>1, <1>3, <3>1
  <2>2. CASE t \in B
    <3>1. t = b /\ B # {}
      BY <2>2
    <3>2. kept # 0
      BY <1>3, <1>4, <3>1
    <3> QED BY <1>1, <1>3, <1>4, <1>11, <3>1, <3>2
  <2> QED BY <1>8, <2>1, <2>2
<1>13. \A s, t \in Firsts(toasts', era') : s # t => s.from # t.from
  <2>1. \A s \in Firsts(toasts, era) : s.from # b.from
    BY <1>3, <1>4, <1>10
  <2> HIDE DEF B
  <2> QED BY <1>6, <1>8, <2>1 DEF ToastInv
<1>14. \A s, t \in Firsts(toasts', era') : s.from # 1 /\ s.from < t.from => s.at + WINDOW <= t.at
  <2> SUFFICES ASSUME NEW s \in Firsts(toasts', era'), NEW t \in Firsts(toasts', era'),
                      s.from # 1, s.from < t.from
               PROVE  s.at + WINDOW <= t.at
    OBVIOUS
  <2>1. CASE s \in Firsts(toasts, era) /\ t \in Firsts(toasts, era)
    BY <2>1 DEF ToastInv
  <2>2. CASE s \in Firsts(toasts, era) /\ t \in B
    <3>1. t = b /\ B # {} /\ kept # 0
      <4>1. s \in ToastRecord /\ s.from <= kept
        BY <1>10, <2>2
      <4>2. s.from \in Nat \ {0}
        BY <4>1 DEF ToastRecord
      <4>3. kept # 0
        BY <1>3, <4>1, <4>2
      <4> QED BY <2>2, <4>3
    <3>2. s.at <= switchWindow /\ s.at \in Nat
      BY <1>10, <2>2 DEF ToastInv
    <3> QED BY <1>3, <1>4, <1>5, <1>11, <3>1, <3>2
  <2>3. CASE s \in B
    <3>1. s.from = kept + 1 /\ t.from <= kept + 1 /\ t.from \in Nat
      <4>1. s = b /\ (t = b \/ t \in Firsts(toasts, era))
        BY <1>8, <2>3
      <4> QED BY <1>3, <1>4, <1>10, <4>1
    <3> QED BY <1>3, <3>1
  <2> QED BY <1>8, <2>1, <2>2, <2>3
<1>15. Verdicts!Toasts(notifier')
         => kept' = buffer' + Total(Switches(Told(toasts', era')), Told(toasts', era'))
  <2> SUFFICES ASSUME Verdicts!Toasts(notifier')
               PROVE  kept' = buffer' + Total(Switches(Told(toasts', era')), Told(toasts', era'))
    OBVIOUS
  <2> DEFINE P == Told(toasts, era)
             S == Told(toasts', era')
  <2>1. kept = buffer + Total(Switches(P), P)
    <3>1. CASE notifier = "none"
      BY <1>3, <3>1, NothingShown, NothingTold
    <3>2. CASE notifier # "none"
      BY <1>1, <3>2 DEF ToastInv
    <3> QED BY <3>1, <3>2
  <2>2. CASE Verdicts!Rotates /\ buffer > 0
    <3>1. S = P \cup {a}
      BY <1>8, <2>2
    <3>2. a \notin P
      <4>1. \A t \in P : t.from <= kept /\ t.from \in Nat
        BY <1>3 DEF Told, ToastRecord
      <4> QED BY <1>3, <1>4, <4>1
    <3>3. IsFiniteSet(S) /\ \A t \in S : t.n \in Nat
      <4>1. S \in SUBSET toasts'
        BY DEF Told
      <4> QED BY <1>7, <4>1, FS_Subset DEF ToastRecord
    <3> DEFINE f == Switches(S)
               k == Switches(P)
    <3>4. NatOn(f, S) /\ f[a] = buffer /\ \A t \in P : k[t] = f[t]
      BY <1>4, <3>1, <3>3 DEF Switches, NatOn
    <3>5. a \in S /\ P \in SUBSET S /\ \A t \in S : t \in P <=> t # a
      BY <3>1, <3>2
    <3> HIDE DEF f, k, S, P
    <3>6. Total(f, S) = f[a] + Total(k, P) /\ Total(k, P) \in Nat
      BY <3>3, <3>4, <3>5, TotalGrows
    <3>7. buffer' = 1 /\ kept' = kept + 1 /\ kept = buffer + Total(k, P)
      BY <1>1, <2>1, <2>2 DEF k, P
    <3>8. kept' = buffer' + Total(f, S)
      BY <1>3, <3>4, <3>6, <3>7
    <3> QED BY <3>8 DEF f, S
  <2>3. CASE ~(Verdicts!Rotates /\ buffer > 0)
    <3>1. S = P /\ buffer' = buffer + 1
      BY <1>1, <1>3, <1>8, <2>3
    <3> DEFINE total == Total(Switches(P), P)
    <3>2. total \in Nat
      <4>1. IsFiniteSet(P) /\ NatOn(Switches(P), P)
        <5>1. P \in SUBSET toasts
          BY DEF Told
        <5> QED BY <1>3, <5>1, FS_Subset DEF Switches, NatOn, ToastRecord
      <4> HIDE DEF P
      <4>2. PICK g \in [SUBSET P -> Nat] : Total(Switches(P), P) = g[P]
        BY <4>1, TotalIs
      <4> QED BY <4>2
    <3>3. kept' = buffer' + total
      <4> HIDE DEF total
      <4>1. kept = buffer + total
        BY <2>1 DEF total
      <4> QED BY <1>1, <1>3, <3>1, <3>2, <4>1
    <3> QED BY <3>1, <3>3
  <2> QED BY <2>2, <2>3
<1>16. /\ time' \in Nat /\ switchWindow' \in 0 .. time' /\ buffer' \in Nat /\ kept' \in Nat /\ era' \in Nat
       /\ (buffer' = 0 <=> kept' = 0) /\ (notifier' = "none" => kept' = 0)
  BY <1>1, <1>3
<1> HIDE DEF A, B
<1> QED BY <1>7, <1>9, <1>12, <1>13, <1>14, <1>15, <1>16
        DEF ToastInv, Firsts, Told, Switches

LEMMA ToastStep == ASSUME NoticeInv, NoticeInv', ToastInv, Verdicts!Next PROVE ToastInv'
<1>1. /\ time \in Nat /\ switchWindow \in Nat /\ switchWindow <= time /\ era \in Nat
      /\ IsFiniteSet(toasts) /\ toasts \subseteq ToastRecord /\ \A t \in toasts : t.era <= era
  BY DEF ToastInv
<1>2. CASE Verdicts!Settled
  <2>1. time' = time
    BY <1>2 DEF Verdicts!Settled
  <2>2. CASE activeSince # 0 /\ Verdicts!ClearStatus
    <3>1. /\ buffer' = 0 /\ switchWindow' = time /\ kept' = 0 /\ era' = era + 1 /\ toasts' = toasts
      BY <2>2 DEF Verdicts!ClearStatus
    <3>2. \A t \in toasts : t.era \in Nat
      BY <1>1 DEF ToastRecord
    <3>3. \A t \in toasts' : t.era <= era' /\ t.era # era'
      BY <1>1, <3>1, <3>2
    <3>4. Firsts(toasts', era') = {} /\ Told(toasts', era') = {}
      BY <3>3 DEF Firsts, Told
    <3>5. kept' = buffer' + Total(Switches(Told(toasts', era')), Told(toasts', era'))
      BY <3>1, <3>4, NothingTold
    <3>6. time' \in Nat /\ switchWindow' \in 0 .. time' /\ buffer' \in Nat /\ kept' \in Nat /\ era' \in Nat
      BY <1>1, <2>1, <3>1
    <3> QED BY <1>1, <3>1, <3>3, <3>4, <3>5, <3>6 DEF ToastInv, Firsts, Told, Switches
  <2>3. CASE Verdicts!RecordSwitch
    <3>1. notifier' # "none"
      <4>1. notifier' = (IF notifier = "none" THEN Verdicts!Config.level ELSE notifier)
        BY <2>3 DEF Verdicts!RecordSwitch, Verdicts!WindowAfter
      <4>2. Verdicts!Config.level \in Verdicts!Level
        BY DEF Verdicts!Config, Verdicts!ParseLevel, Verdicts!Level
      <4> QED BY <4>1, <4>2 DEF Verdicts!Level
    <3> QED BY <2>1, <2>3, <3>1, SwitchIsToasted
  <2>4. CASE UNCHANGED Verdicts!notices
    BY <2>1, <2>4 DEF Verdicts!notices, ToastInv, Firsts, Told, Switches, Verdicts!Toasts
  <2> QED BY <1>2, <2>2, <2>3, <2>4 DEF Verdicts!Settled
<1>3. CASE Verdicts!Loaded \/ Verdicts!Response \/ Verdicts!Tick
  <2>1. UNCHANGED Verdicts!notices /\ time' \in {time, time + 1}
    BY <1>3 DEF Verdicts!Loaded, Verdicts!Response, Verdicts!Tick
  <2>2. time' \in Nat /\ switchWindow \in 0 .. time'
    BY <1>1, <2>1
  <2> QED BY <2>1, <2>2 DEF Verdicts!notices, ToastInv, Firsts, Told, Switches, Verdicts!Toasts
<1> QED BY <1>2, <1>3 DEF Verdicts!Next

LEMMA ToastIdle == ASSUME ToastInv, UNCHANGED verdictVars PROVE ToastInv'
BY DEF ToastInv, Firsts, Told, Switches, Verdicts!Toasts, verdictVars

(* Of the toasts for switches that are shown within a window, one is the      *)
(* first since the recovery, and one began a window.                          *)
LEMMA AtMostTwo ==
  ASSUME NEW U, NEW a, NEW b, U \subseteq {a, b}
  PROVE  Cardinality(U) \in Nat /\ Cardinality(U) <= 2
<1>1. IsFiniteSet({a}) /\ Cardinality({a}) = 1 /\ {a, b} = {a} \cup {b}
  BY FS_Singleton
<1>2. IsFiniteSet({a, b}) /\ Cardinality({a, b}) \in {1, 2}
  BY <1>1, FS_AddElement
<1>3. IsFiniteSet(U) /\ Cardinality(U) <= Cardinality({a, b})
  BY <1>2, FS_Subset
<1>4. Cardinality(U) \in Nat
  BY <1>3, FS_CardinalityType
<1> QED BY <1>2, <1>3, <1>4

LEMMA FloodIsNone == ASSUME ToastInv PROVE Verdicts!NoFlood
<1> DEFINE first == Firsts(toasts, era)
           told == Told(toasts, era)
<1>1. ASSUME NEW s \in first, NEW t \in first, Verdicts!Cardinality({u \in first : u.at \in s.at .. t.at}) > 2
      PROVE  t.at - s.at >= WINDOW
  <2> DEFINE U == {u \in first : u.at \in s.at .. t.at}
             a == CHOOSE u \in U : u.from = 1
             b == CHOOSE u \in U : u.from # 1
  <2>1. \A u \in first : u.at \in Nat /\ u.from \in Nat
    BY DEF Firsts, ToastInv, ToastRecord
  <2>2. WINDOW \in Nat
    BY JournalsAssumption
  <2>3. SUFFICES ASSUME t.at < s.at + WINDOW PROVE Cardinality(U) \in Nat /\ Cardinality(U) <= 2
    <3>1. Verdicts!Cardinality(U) = Cardinality(U)
      BY DEF Verdicts!Cardinality, Cardinality
    <3> HIDE DEF U
    <3> QED BY <1>1, <2>1, <2>2, <3>1 DEF U
  <2>4. ASSUME NEW u \in U, NEW v \in U, u.from # 1 <=> v.from # 1 PROVE u = v
    <3>1. SUFFICES ASSUME u # v PROVE FALSE
      OBVIOUS
    <3>2. u.from # v.from
      BY <3>1 DEF ToastInv
    <3>3. u.from # 1 /\ v.from # 1
      BY <2>4, <3>2
    <3>4. u.at + WINDOW <= v.at \/ v.at + WINDOW <= u.at
      <4>1. u.from < v.from \/ v.from < u.from
        BY <2>1, <3>2
      <4> QED BY <3>3, <4>1 DEF ToastInv
    <3>5. /\ u.at \in Nat /\ v.at \in Nat /\ s.at \in Nat /\ t.at \in Nat
          /\ s.at <= u.at /\ u.at <= t.at /\ s.at <= v.at /\ v.at <= t.at
      BY <2>1
    <3> QED BY <2>2, <2>3, <3>4, <3>5
  <2> HIDE DEF U
  <2>5. U \subseteq {a, b}
    <3> SUFFICES ASSUME NEW u \in U PROVE u \in {a, b}
      OBVIOUS
    <3>1. CASE u.from = 1
      <4>1. a \in U /\ a.from = 1
        BY <3>1
      <4> QED BY <2>4, <3>1, <4>1
    <3>2. CASE u.from # 1
      <4>1. b \in U /\ b.from # 1
        BY <3>2
      <4> QED BY <2>4, <3>2, <4>1
    <3> QED BY <3>1, <3>2
  <2> HIDE DEF a, b
  <2> QED BY <2>5, AtMostTwo
<1>2. Verdicts!Toasts(notifier) => kept = buffer + Verdicts!SumFunction([t \in told |-> t.n])
  <2>1. DOMAIN Switches(told) = told /\ Switches(told) = [t \in told |-> t.n]
    BY DEF Switches
  <2> QED BY <2>1, SumsAreTotals DEF ToastInv
<1>3. /\ first = {t \in toasts : t.kind = "switch" /\ t.era = era}
      /\ told = {t \in toasts : t.kind = "summary" /\ t.era = era}
  BY DEF Firsts, Told
<1>4. notifier \in {"toast", "both"} => Verdicts!Toasts(notifier)
  BY DEF Verdicts!Toasts
<1> HIDE DEF first, told
<1> QED BY <1>1, <1>2, <1>3, <1>4 DEF Verdicts!NoFlood

----------------------------------------------------------------------------
JournalsInv ==
  /\ LogInv /\ LedgerInv /\ CallsInv /\ NoticeInv
  /\ OrderInv /\ FetchInv /\ ErrorsInv /\ BadInv /\ ToastInv
LEMMA JournalsInvHolds == MCSpec => []JournalsInv
<1>1. MCInit => JournalsInv
  BY LogInvInit, LedgerInvInit, CallsInvInit, NoticeInvInit, OrderInvInit, FetchInvInit, TotalsInit,
     ToastInvInit
     DEF MCInit, JournalsInv
<1>2. JournalsInv /\ [MCNext]_allVars => JournalsInv'
  <2> SUFFICES ASSUME JournalsInv, [MCNext]_allVars PROVE JournalsInv'
    OBVIOUS
  <2>1. LogInv'
    BY LoggerStep, LogIdle DEF JournalsInv, MCNext, allVars
  <2>2. LedgerInv'
    BY LedgerStep, LedgerIdle DEF JournalsInv, MCNext, allVars
  <2>3. CallsInv'
    BY CallsStep, CallsIdle DEF JournalsInv, MCNext, allVars
  <2>4. NoticeInv'
    BY NoticeStep, NoticeIdle DEF JournalsInv, MCNext, allVars
  <2>5. OrderInv'
    BY <2>1, OrderStep, OrderIdle DEF JournalsInv, MCNext, allVars
  <2>6. FetchInv'
    BY FetchStep, FetchIdle DEF JournalsInv, MCNext, allVars
  <2>7. ErrorsInv' /\ BadInv'
    BY TotalsStep, TotalsIdle DEF JournalsInv, MCNext, allVars
  <2>8. ToastInv'
    BY <2>4, ToastStep, ToastIdle DEF JournalsInv, MCNext, allVars
  <2> QED BY <2>1, <2>2, <2>3, <2>4, <2>5, <2>6, <2>7, <2>8 DEF JournalsInv
<1> QED BY <1>1, <1>2, PTL DEF MCSpec

(* No line of the log is lost without a trace or waits for ever, and the      *)
(* lines before a flush need no further step (logger.ts).                     *)
THEOREM LinesAreKept == MCSpec => [](Logger!LinesKept /\ Logger!FlushedIsSafe /\ Logger!NoneStuck)
<1>1. JournalsInv => Logger!LinesKept /\ Logger!FlushedIsSafe /\ Logger!NoneStuck
  BY DEF JournalsInv, LogInv
<1> QED BY <1>1, JournalsInvHolds, PTL

(* The ledger has every setup once, with its outcome; its window every        *)
(* handler that returned in this session, and just their failures; and the    *)
(* health report every setup that failed (startup-timing.ts).                 *)
THEOREM LedgerAccounts ==
  MCSpec => [](/\ Ledger!SetupsAccounted /\ Ledger!WindowHoldsSession
               /\ \A p \in Provider : setup[p] = "failed" => p \in Ledger!Problems)
<1>1. LedgerInv => Ledger!SetupsAccounted
  <2> SUFFICES ASSUME LedgerInv, state.finalized
               PROVE  /\ state.open = {} /\ Len(state.providers) = Ledger!Cardinality(Provider)
                      /\ \A p \in Provider :
                           [provider |-> p, ok |-> setup[p] = "ok"] \in Ledger!ToSet(state.providers)
    BY DEF Ledger!SetupsAccounted
  <2>1. SetupInv /\ state.open = {} /\ Done = Provider
    BY DEF LedgerInv, SetupInv
  <2>2. Ledger!Cardinality(Provider) = Cardinality(Provider)
    BY DEF Ledger!Cardinality, Cardinality
  <2> QED BY <2>1, <2>2 DEF SetupInv
<1>2. LedgerInv => \A p \in Provider : setup[p] = "failed" => p \in Ledger!Problems
  <2> SUFFICES ASSUME LedgerInv, NEW p \in Provider, setup[p] = "failed"
               PROVE  p \in Ledger!Problems
    OBVIOUS
  <2> DEFINE r == [provider |-> p, ok |-> setup[p] = "ok"]
  <2>1. r \in Ledger!ToSet(state.providers)
    BY DEF LedgerInv, SetupInv, Done, Settled
  <2>2. ~r.ok /\ r.provider = p
    OBVIOUS
  <2> HIDE DEF r
  <2> QED BY <2>1, <2>2 DEF Ledger!Problems
<1>3. LedgerInv => Ledger!WindowHoldsSession
  BY DEF LedgerInv
<1>4. JournalsInv => LedgerInv
  BY DEF JournalsInv
<1> QED BY <1>1, <1>2, <1>3, <1>4, JournalsInvHolds, PTL

(* A model call is filed with its own run, with a sane latency; what is in    *)
(* flight is not stale; a total covers all calls up to one more than are      *)
(* kept; the status bar is of the current provider (telemetry.ts,             *)
(* quota-monitor.ts).                                                         *)
THEOREM CallsAreFiled ==
  MCSpec => [](/\ Calls!CallsAreOfTheirRun /\ Calls!LatencySane /\ Calls!InFlightSane
               /\ Calls!BarOfCurrent /\ KeptInv)
<1>1. JournalsInv => /\ Calls!CallsAreOfTheirRun /\ Calls!LatencySane /\ Calls!InFlightSane
                     /\ Calls!BarOfCurrent /\ KeptInv
  BY DEF JournalsInv, CallsInv
<1> QED BY <1>1, JournalsInvHolds, PTL

(* What a run that failed asks for does not depend on whether the classifier  *)
(* of pi-ai has loaded, and what an aborted one asks for only in one corner;  *)
(* the indicator is shown from the first switch to the recovery; and nothing  *)
(* is switched unless the user asked for it (lib/auto-fallback).              *)
THEOREM VerdictsStand ==
  MCSpec => [](Verdicts!VerdictsStable /\ Verdicts!BarWhileActive /\ Verdicts!SettingsSafe)
<1>1. JournalsInv => Verdicts!BarWhileActive /\ Verdicts!SettingsSafe
  BY SettingsHold DEF JournalsInv, NoticeInv, Verdicts!SettingsSafe
<1> QED BY <1>1, VerdictsHold, JournalsInvHolds, PTL

(* Read from the oldest file to the newest, the log has its lines in the      *)
(* order they were logged, unless a flush overtook an ending stream; and      *)
(* rotations removed the oldest lines only, unless a flush rotated in the     *)
(* midst of one as well (logger.ts).                                          *)
THEOREM LinesInOrder == MCSpec => [](Logger!OrderKept /\ Logger!OldestRemoved)
<1>1. JournalsInv => Logger!OrderKept /\ Logger!OldestRemoved
  BY OrderIsKept DEF JournalsInv
<1> QED BY <1>1, JournalsInvHolds, PTL

(* The counters that are kept beside what they count are their sums: network  *)
(* fetches over the providers (startup-timing.ts), errors over the calls      *)
(* (telemetry.ts), failing responses over the providers (quota-monitor.ts).   *)
THEOREM TotalsAreSums ==
  MCSpec => [](/\ state.networkFetches = Ledger!SumFunction([p \in Provider |-> state.network[p].fetches])
               /\ Calls!TotalsCoverRecent /\ Calls!FailuresCounted)
<1>1. JournalsInv => /\ state.networkFetches
                           = Ledger!SumFunction([p \in Provider |-> state.network[p].fetches])
                     /\ Calls!TotalsCoverRecent /\ Calls!FailuresCounted
  BY FetchesAreCounted, TotalsAreTrue DEF JournalsInv
<1> QED BY <1>1, JournalsInvHolds, PTL

(* Between two recoveries no three toasts for switches lie within a window,   *)
(* and every switch is in a summary that was shown or in the buffer           *)
(* (auto-fallback-notifier.ts).                                               *)
THEOREM NoToastFlood == MCSpec => []Verdicts!NoFlood
<1>1. JournalsInv => Verdicts!NoFlood
  BY FloodIsNone DEF JournalsInv
<1> QED BY <1>1, JournalsInvHolds, PTL

(* The log keeps its lines and their order; the startup ledger accounts for   *)
(* every setup, handler, failure and fetch; a model call is filed with its    *)
(* own run and counted once; and a settled run is judged the same whatever    *)
(* has loaded, its switches told in one toast per window (logger.ts,          *)
(* startup-timing.ts, telemetry.ts, quota-monitor.ts, lib/auto-fallback).     *)
THEOREM JournalsAreSound == MCSpec => []JournalsSound
<1>1. Logger!LinesKept /\ Logger!FlushedIsSafe /\ Logger!NoneStuck /\ Logger!OrderKept
        /\ Logger!OldestRemoved => Logger!LogKept
  BY DEF Logger!LogKept
<1>2. /\ Ledger!SetupsAccounted /\ Ledger!WindowHoldsSession
      /\ \A p \in Provider : setup[p] = "failed" => p \in Ledger!Problems
      /\ state.networkFetches = Ledger!SumFunction([p \in Provider |-> state.network[p].fetches])
      => Ledger!LedgerSound
  BY DEF Ledger!LedgerSound, Ledger!HealthKnows
<1>3. /\ Calls!CallsAreOfTheirRun /\ Calls!LatencySane /\ Calls!InFlightSane /\ Calls!BarOfCurrent
      /\ Calls!TotalsCoverRecent /\ Calls!FailuresCounted
      => Calls!RecordsSound
  BY DEF Calls!RecordsSound
<1>4. Verdicts!VerdictsStable /\ Verdicts!NoFlood /\ Verdicts!BarWhileActive /\ Verdicts!SettingsSafe
      => Verdicts!VerdictsSound
  BY DEF Verdicts!VerdictsSound
<1>5. Logger!LogKept /\ Ledger!LedgerSound /\ Calls!RecordsSound /\ Verdicts!VerdictsSound
      => JournalsSound
  BY DEF JournalsSound
<1> QED BY <1>1, <1>2, <1>3, <1>4, <1>5, LinesAreKept, LinesInOrder, LedgerAccounts, TotalsAreSums,
           CallsAreFiled, VerdictsStand, NoToastFlood, PTL
============================================================================
