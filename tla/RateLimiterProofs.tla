------------------------- MODULE RateLimiterProofs -------------------------
(* The sliding window is one, and what it announces is kept, for every     *)
(* limit, window and number of calls.                                      *)
EXTENDS RateLimiter, FiniteSetTheorems, TLAPS

-----------------------------------------------------------------------------
(* What the operators of the script return.                                 *)

\* A nonempty set of naturals has a least member: the intervals from 0 to its
\* members are ordered by inclusion.
LEMMA MinOfNaturals ==
    ASSUME NEW S \in SUBSET Nat, S # {}
    PROVE  Min(S) \in S /\ \A y \in S : Min(S) <= y
<1>1. PICK n \in S : TRUE
  OBVIOUS
<1> DEFINE U == 0..n
           R == StrictSubsetOrdering(U)
           T == {0..x : x \in {x \in S : x <= n}}
<1>2. T \subseteq FiniteSubsetsOf(U) /\ 0..n \in T
  <2>1. ASSUME NEW x \in S, x <= n
        PROVE  IsFiniteSet(0..x) /\ 0..x \subseteq U
    BY <1>1, <2>1, FS_Interval
  <2>2. FiniteSubsetsOf(U) = SUBSET U
    <3>1. IsFiniteSet(U)
      BY <1>1, FS_Interval
    <3> HIDE DEF U
    <3> QED
      BY <3>1, FS_FiniteSubsetsOfFinite
  <2> QED
    BY <1>1, <2>1, <2>2
<1>3. IsWellFoundedOn(R, FiniteSubsetsOf(U))
  BY FS_StrictSubsetOrderingWellFounded
<1>4. PICK I \in T : \A J \in T : ~ (<<J, I>> \in R)
  <2> HIDE DEF R, T, U
  <2> QED
    BY <1>2, <1>3, WFMin
<1>5. PICK x \in S : x <= n /\ I = 0..x
  BY <1>4
<1>6. ASSUME NEW y \in S, y < x
      PROVE  FALSE
  <2>1. 0..y \in T /\ 0..y \subseteq 0..x /\ x \notin 0..y /\ x \in 0..x /\ 0..x \subseteq U
    BY <1>1, <1>5, <1>6
  <2>2. <<0..y, 0..x>> \in R
    BY <2>1 DEF StrictSubsetOrdering
  <2> QED
    BY <1>4, <1>5, <2>1, <2>2
<1>7. \A y \in S : x <= y
  BY <1>5, <1>6
<1> QED
  BY <1>5, <1>7 DEF Min

LEMMA MaxOfTwo ==
    ASSUME NEW a \in Int, NEW b \in Int
    PROVE  Max({a, b}) \in {a, b} /\ Max({a, b}) >= a /\ Max({a, b}) >= b
<1>1. \E x \in {a, b} : \A y \in {a, b} : x >= y
  OBVIOUS
<1> QED
  BY <1>1 DEF Max

LEMMA RunTypes ==
    ASSUME TypeOK, NEW i \in 1..Len(runs)
    PROVE  /\ runs[i].call \in Calls /\ runs[i].at \in Nat /\ runs[i].at <= now
           /\ runs[i].remaining \in Nat
<1>1. runs[i] \in Run
  BY DEF TypeOK
<1>2. runs[i].at <= now
  BY DEF TypeOK
<1> QED
  BY <1>1, <1>2 DEF Run

LEMMA KeptFacts ==
    ASSUME TypeOK
    PROVE  /\ Kept \subseteq members /\ Kept \subseteq Calls
           /\ IsFiniteSet(Kept) /\ Cardinality(Kept) \in Nat
           /\ Cardinality(Kept) <= Limit
           /\ \A c \in Kept : score[c] + Window > now
<1>1. Kept \subseteq members /\ members \subseteq Calls
  BY DEF Kept, Stored, TypeOK
<1>2. IsFiniteSet(members) /\ IsFiniteSet(Kept)
  BY <1>1, CallsAssumption, FS_Subset
<1>3. Cardinality(Kept) <= Cardinality(members)
  BY <1>1, <1>2, FS_Subset
<1>4. Cardinality(Kept) \in Nat /\ Cardinality(members) \in Nat
  BY <1>2, FS_CardinalityType
<1> QED
  BY <1>1, <1>2, <1>3, <1>4, WindowAssumption DEF TypeOK, Kept

\* No member that is still in the window is lost to the key's expiry.
LEMMA InWindowIsKept ==
    ASSUME TypeOK, NEW c \in members, score[c] + Window > now
    PROVE  c \in Kept
BY WindowAssumption DEF TypeOK, Kept, Stored

LEMMA AnswerTypes ==
    ASSUME TypeOK
    PROVE  /\ Remaining(Count) \in Nat
           /\ \A S \in SUBSET Calls : \A scores \in [Calls -> Nat] :
                Reset(Oldest(S, scores)) \in Nat
<1>1. Count \in Nat /\ Limit \in Nat /\ Window \in Nat /\ Second \in Nat \ {0} /\ now \in Nat
  BY KeptFacts, WindowAssumption DEF Count, TypeOK
<1>2. Remaining(Count) \in Nat
  <2>1. Limit - Count \in Int
    BY <1>1
  <2> QED
    BY <2>1, MaxOfTwo DEF Remaining
<1>3. ASSUME NEW S \in SUBSET Calls, NEW scores \in [Calls -> Nat]
      PROVE  Reset(Oldest(S, scores)) \in Nat
  <2> DEFINE T == {scores[c] : c \in S}
             oldest == Oldest(S, scores)
             ahead == Max({0, oldest + Window - now})
             seconds == (ahead + Second - 1) \div Second
  <2>1. oldest \in Nat
    <3>1. CASE S = {}
      BY <1>1, <3>1 DEF Oldest
    <3>2. CASE S # {}
      <4>1. T \in SUBSET Nat /\ T # {}
        BY <3>2
      <4>2. Min(T) \in T
        BY <4>1, MinOfNaturals
      <4> QED
        BY <3>2, <4>1, <4>2 DEF Oldest
    <3> QED
      BY <3>1, <3>2
  <2> HIDE DEF oldest
  <2>2. ahead \in Int
    <3>1. PICK leaves \in Int : leaves = oldest + Window - now
      BY <1>1, <2>1
    <3>2. Max({0, leaves}) \in {0, leaves} /\ Max({0, leaves}) >= 0
      BY MaxOfTwo
    <3> QED
      BY <3>1, <3>2
  <2> HIDE DEF ahead
  <2>3. seconds \in Int
    BY <1>1, <2>2
  <2> HIDE DEF seconds
  <2>4. Max({1, seconds}) \in {1, seconds} /\ Max({1, seconds}) >= 1
    BY <2>3, MaxOfTwo
  <2>5. Reset(oldest) = Max({1, seconds})
    BY DEF Reset, ahead, seconds
  <2> QED
    BY <2>3, <2>4, <2>5 DEF oldest
<1> QED
  BY <1>2, <1>3

-----------------------------------------------------------------------------
(* The inductive invariant.                                                 *)

\* Whoever was admitted since the last restart, and is still in the window,
\* holds a slot of the set.
HoldsSlot ==
    \A i \in (since + 1)..Len(runs) : runs[i].allowed /\ runs[i].at + Window > now =>
      runs[i].call \in members /\ runs[i].at <= score[runs[i].call]

\* No window, past or present, has more than the limit.
WindowBound == \A t \in Nat : Cardinality(AdmittedIn(t)) <= Limit

Inv == TypeOK /\ HoldsSlot /\ WindowBound

LEMMA InitInv ==
    ASSUME Init
    PROVE  Inv
<1>1. TypeOK
  BY WindowAssumption, FS_EmptySet DEF Init, TypeOK
<1>2. HoldsSlot
  BY DEF Init, HoldsSlot
<1>3. \A t \in Nat : AdmittedIn(t) = {}
  BY DEF Init, AdmittedIn
<1> QED
  BY <1>1, <1>2, <1>3, WindowAssumption, FS_EmptySet DEF Inv, WindowBound

LEMMA ScriptTypes ==
    ASSUME TypeOK, NEW c \in Calls, RunScript(c)
    PROVE  TypeOK'
<1>1. /\ members' = IF Admitted THEN Kept \cup {c} ELSE Kept
      /\ score' = [d \in Calls |-> IF d = c /\ Admitted THEN now
                                   ELSE IF d \in Kept THEN score[d] ELSE 0]
      /\ expireAt' = IF Admitted THEN now + Window ELSE expireAt
      /\ UNCHANGED <<now, call, restarts, since>>
  BY DEF RunScript, Expiry
<1>2. members' \subseteq Calls /\ score' \in [Calls -> Nat] /\ expireAt' \in Nat
  BY <1>1, KeptFacts, WindowAssumption DEF TypeOK
<1>3. Cardinality(members') <= Limit
  <2>1. /\ IsFiniteSet(Kept) /\ Cardinality(Kept) \in Nat /\ Cardinality(Kept) <= Limit
        /\ Cardinality(Kept \cup {c}) = IF c \in Kept THEN Cardinality(Kept)
                                       ELSE Cardinality(Kept) + 1
    BY KeptFacts, FS_AddElement
  <2>2. CASE Admitted
    BY <1>1, <2>1, <2>2, WindowAssumption DEF Admitted
  <2>3. CASE ~Admitted
    BY <1>1, <2>1, <2>3
  <2> QED
    BY <2>2, <2>3
<1>4. \A d \in Calls : score'[d] <= now
  BY <1>1 DEF TypeOK
<1>5. \A d \in members' : score'[d] + Window <= expireAt'
  <2>1. \A d \in Kept : score[d] <= now /\ score[d] + Window <= expireAt
    BY KeptFacts DEF TypeOK
  <2>2. \A d \in Kept : d \in Calls /\ score[d] \in Nat
    BY KeptFacts DEF TypeOK
  <2> QED
    BY <1>1, <2>1, <2>2, WindowAssumption DEF TypeOK
<1>6. /\ runs' \in Seq(Run) /\ Len(runs') = Len(runs) + 1
      /\ \A i \in 1..Len(runs') : runs'[i].at <= now
  <2> DEFINE r == [call |-> c, at |-> now, allowed |-> Admitted,
                   remaining |-> Remaining(Count), reset |-> Reset(Oldest(members', score'))]
  <2>1. r \in Run
    <3>1. now \in Nat /\ Admitted \in BOOLEAN
      BY DEF Admitted, TypeOK
    <3>2. Remaining(Count) \in Nat /\ Reset(Oldest(members', score')) \in Nat
      BY <1>2, AnswerTypes
    <3> QED
      BY <3>1, <3>2 DEF Run
  <2>2. runs' = Append(runs, r)
    BY DEF RunScript
  <2>3. r.at = now
    OBVIOUS
  <2> HIDE DEF r
  <2> QED
    BY <2>1, <2>2, <2>3 DEF TypeOK
<1>7. restarts' \in Nat /\ since' \in 0..Len(runs') /\ now' \in Nat
  BY <1>1, <1>6 DEF TypeOK
<1>8. call' \in [Calls -> {"asking", "passed", "refused", "unavailable"}]
  BY <1>1 DEF TypeOK
<1>9. now' = now
  BY <1>1
<1> QED
  BY <1>2, <1>3, <1>4, <1>5, <1>6, <1>7, <1>8, <1>9 DEF TypeOK

\* What the run adds to the history.
LEMMA ScriptRun ==
    ASSUME TypeOK, NEW c \in Calls, RunScript(c)
    PROVE  /\ Len(runs) \in Nat /\ Len(runs') = Len(runs) + 1
           /\ \A i \in 1..Len(runs) : runs'[i] = runs[i]
           /\ LET last == runs'[Len(runs) + 1]
              IN  /\ last.call = c /\ last.at = now /\ last.allowed = Admitted
                  /\ last.remaining = Remaining(Count)
<1> DEFINE r == [call |-> c, at |-> now, allowed |-> Admitted, remaining |-> Remaining(Count),
                 reset |-> runs'[Len(runs')].reset]
<1>1. PICK n : runs' = Append(runs, [call |-> c, at |-> now, allowed |-> Admitted,
                                     remaining |-> Remaining(Count), reset |-> n])
  BY DEF RunScript
<1> QED
  BY <1>1 DEF TypeOK

LEMMA ScriptHolds ==
    ASSUME Inv, NEW c \in Calls, RunScript(c)
    PROVE  HoldsSlot'
<1> SUFFICES ASSUME NEW i \in (since + 1)..Len(runs'),
                    runs'[i].allowed, runs'[i].at + Window > now
             PROVE  runs'[i].call \in members' /\ runs'[i].at <= score'[runs'[i].call]
  BY DEF HoldsSlot, RunScript
<1>1. TypeOK /\ since \in Nat
  BY DEF Inv, TypeOK
<1>2. /\ members' = IF Admitted THEN Kept \cup {c} ELSE Kept
      /\ score' = [d \in Calls |-> IF d = c /\ Admitted THEN now
                                   ELSE IF d \in Kept THEN score[d] ELSE 0]
  BY DEF RunScript
<1>3. CASE i = Len(runs) + 1
  BY <1>1, <1>2, <1>3, ScriptRun DEF TypeOK
<1>4. CASE i # Len(runs) + 1
  <2>1. i \in (since + 1)..Len(runs) /\ i \in 1..Len(runs) /\ runs'[i] = runs[i]
    BY <1>1, <1>4, ScriptRun
  <2>2. PICK d \in Calls : d = runs[i].call
    BY <1>1, <2>1, RunTypes
  <2>3. runs[i].at \in Nat /\ runs[i].at <= now
    BY <1>1, <2>1, RunTypes
  <2>4. d \in members /\ runs[i].at <= score[d]
    BY <2>1, <2>2 DEF Inv, HoldsSlot
  <2>5. score[d] \in Nat /\ now \in Nat
    BY <1>1 DEF TypeOK
  <2>6. d \in Kept
    BY <1>1, <2>1, <2>3, <2>4, <2>5, InWindowIsKept, WindowAssumption
  <2> QED
    BY <1>2, <2>1, <2>2, <2>3, <2>4, <2>6
<1> QED
  BY <1>3, <1>4

LEMMA ScriptBound ==
    ASSUME Inv, NEW c \in Calls, RunScript(c)
    PROVE  WindowBound'
<1> SUFFICES ASSUME NEW t \in Nat
             PROVE  Cardinality(AdmittedIn(t)') <= Limit
  BY DEF WindowBound
<1> DEFINE A == AdmittedIn(t)
<1>1. TypeOK /\ since \in Nat /\ since' = since /\ now \in Nat
  BY DEF Inv, TypeOK, RunScript
<1>2. A \subseteq Calls /\ IsFiniteSet(A) /\ Cardinality(A) <= Limit
  BY CallsAssumption, FS_Subset DEF AdmittedIn, Inv, WindowBound
<1>3. ASSUME NEW d \in AdmittedIn(t)'
      PROVE  d \in A \/ (d = c /\ Admitted /\ t <= now /\ now < t + Window)
  <2>1. PICK i \in (since + 1)..Len(runs') :
             runs'[i].call = d /\ runs'[i].allowed /\ t <= runs'[i].at /\ runs'[i].at < t + Window
    BY <1>1, <1>3 DEF AdmittedIn
  <2>2. CASE i = Len(runs) + 1
    BY <2>1, <2>2, <1>1, ScriptRun
  <2>3. CASE i # Len(runs) + 1
    <3>1. i \in (since + 1)..Len(runs) /\ i \in 1..Len(runs) /\ runs'[i] = runs[i]
      BY <1>1, <2>3, ScriptRun
    <3> QED
      BY <1>3, <2>1, <3>1 DEF AdmittedIn
  <2> QED
    BY <2>2, <2>3
<1>4. CASE Admitted /\ t <= now /\ now < t + Window
  <2>1. ASSUME NEW d \in A
        PROVE  d \in Kept
    <3>1. PICK i \in (since + 1)..Len(runs) :
               runs[i].call = d /\ runs[i].allowed /\ t <= runs[i].at /\ runs[i].at < t + Window
      BY <2>1 DEF AdmittedIn
    <3>2. i \in 1..Len(runs) /\ runs[i].at \in Nat
      BY <1>1, <3>1, RunTypes DEF TypeOK
    <3>3. runs[i].at + Window > now
      BY <1>1, <1>4, <3>1, <3>2, WindowAssumption
    <3>4. d \in members /\ runs[i].at <= score[d]
      BY <3>1, <3>3 DEF Inv, HoldsSlot
    <3>5. score[d] \in Nat
      BY <1>1, <3>4 DEF TypeOK
    <3> QED
      BY <1>1, <3>2, <3>3, <3>4, <3>5, InWindowIsKept, WindowAssumption
  <2>2. AdmittedIn(t)' \subseteq Kept \cup {c}
    BY <1>3, <2>1
  <2>3. IsFiniteSet(Kept \cup {c}) /\ Cardinality(Kept \cup {c}) <= Cardinality(Kept) + 1
    BY <1>1, KeptFacts, FS_AddElement
  <2>4. Cardinality(AdmittedIn(t)') <= Cardinality(Kept \cup {c})
    BY <2>2, <2>3, FS_Subset
  <2>5. Cardinality(Kept) + 1 <= Limit
    BY <1>1, <1>4, KeptFacts, WindowAssumption DEF Admitted
  <2>6. /\ Cardinality(AdmittedIn(t)') \in Nat
        /\ Cardinality(Kept \cup {c}) \in Nat /\ Cardinality(Kept) \in Nat
    BY <1>1, <2>2, <2>3, FS_Subset, FS_CardinalityType, KeptFacts
  <2> QED
    BY <2>3, <2>4, <2>5, <2>6, WindowAssumption
<1>5. CASE ~(Admitted /\ t <= now /\ now < t + Window)
  <2>1. AdmittedIn(t)' \subseteq A
    BY <1>3, <1>5
  <2>2. IsFiniteSet(AdmittedIn(t)') /\ Cardinality(AdmittedIn(t)') <= Cardinality(A)
    BY <1>2, <2>1, FS_Subset
  <2>3. Cardinality(AdmittedIn(t)') \in Nat /\ Cardinality(A) \in Nat
    BY <1>2, <2>2, FS_CardinalityType
  <2> QED
    BY <1>2, <2>2, <2>3, WindowAssumption
<1> QED
  BY <1>4, <1>5

LEMMA RestartInv ==
    ASSUME Inv, Restart
    PROVE  Inv'
<1>1. PICK saved \in SUBSET members :
        /\ members' = saved
        /\ score' = [c \in Calls |-> IF c \in saved THEN score[c] ELSE 0]
  BY DEF Restart
<1>2. TypeOK
  BY DEF Inv
<1>3. TypeOK'
  <2>1. Cardinality(saved) <= Limit
    <3>1. IsFiniteSet(members)
      BY <1>2, CallsAssumption, FS_Subset DEF TypeOK
    <3>2. IsFiniteSet(saved) /\ Cardinality(saved) <= Cardinality(members)
      BY <3>1, FS_Subset
    <3> QED
      BY <1>2, <3>1, <3>2, FS_CardinalityType, WindowAssumption DEF TypeOK
  <2>2. /\ members' \subseteq Calls /\ score' \in [Calls -> Nat]
        /\ \A c \in Calls : score'[c] <= now
        /\ \A c \in members' : score'[c] + Window <= expireAt
    BY <1>1, <1>2 DEF TypeOK
  <2>3. restarts' \in Nat /\ since' \in 0..Len(runs)
    BY <1>2 DEF Restart, TypeOK
  <2> QED
    BY <1>1, <1>2, <2>1, <2>2, <2>3 DEF TypeOK, Restart
<1>4. (since + 1)' .. Len(runs') = {}
  BY <1>2 DEF Restart, TypeOK
<1>5. HoldsSlot'
  BY <1>4 DEF HoldsSlot
<1>6. \A t \in Nat : AdmittedIn(t)' = {}
  BY <1>4 DEF AdmittedIn
<1> QED
  BY <1>3, <1>5, <1>6, FS_EmptySet, WindowAssumption DEF Inv, WindowBound

LEMMA InvStep ==
    ASSUME Inv, [Next]_vars
    PROVE  Inv'
<1>1. ASSUME NEW c \in Calls, RunScript(c)
      PROVE  Inv'
  BY <1>1, ScriptTypes, ScriptHolds, ScriptBound DEF Inv
<1>2. CASE Restart
  BY <1>2, RestartInv
<1>3. CASE Tick
  <2>1. TypeOK' /\ HoldsSlot'
    <3>1. TypeOK'
      BY <1>3, RunTypes DEF Tick, Inv, TypeOK
    <3>2. ASSUME NEW i \in (since + 1)..Len(runs), runs[i].at + Window > now + 1
          PROVE  runs[i].at + Window > now
      <4>1. i \in 1..Len(runs) /\ now \in Nat
        BY DEF Inv, TypeOK
      <4> QED
        BY <3>2, <4>1, RunTypes, WindowAssumption DEF Inv
    <3>3. HoldsSlot'
      BY <1>3, <3>2 DEF Tick, Inv, HoldsSlot
    <3> QED
      BY <3>1, <3>3
  <2>2. \A t \in Nat : AdmittedIn(t)' = AdmittedIn(t)
    BY <1>3 DEF Tick, AdmittedIn
  <2> QED
    BY <2>1, <2>2 DEF Inv, WindowBound
<1>4. CASE /\ UNCHANGED <<now, members, score, expireAt, runs, restarts, since>>
           /\ call' \in [Calls -> {"asking", "passed", "refused", "unavailable"}]
  <2>1. TypeOK' /\ HoldsSlot'
    BY <1>4 DEF Inv, TypeOK, HoldsSlot
  <2>2. \A t \in Nat : AdmittedIn(t)' = AdmittedIn(t)
    BY <1>4 DEF AdmittedIn
  <2> QED
    BY <2>1, <2>2 DEF Inv, WindowBound
<1>5. ASSUME NEW c \in Calls, Answer(c) \/ Unavailable(c)
      PROVE  Inv'
  BY <1>4, <1>5 DEF Answer, Unavailable, Inv, TypeOK
<1>6. CASE UNCHANGED vars
  BY <1>4, <1>6 DEF vars, Inv, TypeOK
<1> QED
  BY <1>1, <1>2, <1>3, <1>5, <1>6 DEF Next

LEMMA Invariant == Spec => []Inv
<1>1. Init => Inv
  BY InitInv
<1>2. Inv /\ [Next]_vars => Inv'
  BY InvStep
<1> QED
  BY <1>1, <1>2, PTL DEF Spec

\* The stored set never exceeds the limit and outlives its members' window.
THEOREM LimiterTypes == Spec => []TypeOK
<1>1. Inv => TypeOK
  BY DEF Inv
<1> QED
  BY <1>1, Invariant, PTL

\* In no window of Redis's clock does the script admit more than Limit requests,
\* whatever was timed out, sent again or refused.
THEOREM ExactWindow == Spec => []SlidingWindow
<1>1. Inv => SlidingWindow
  BY DEF Inv, TypeOK, WindowBound, SlidingWindow
<1> QED
  BY <1>1, Invariant, PTL

-----------------------------------------------------------------------------
(* What a run announces.                                                    *)

\* The calls that runs after i, up to j, admitted.
AdmittedAfter(i, j) == {runs[k].call : k \in {k \in (i + 1)..j : runs[k].allowed}}

\* Whoever holds a slot and was not admitted since left what was announced.
Announced ==
    \A i \in 1..Len(runs) :
        runs[i].remaining + Cardinality(members \ AdmittedAfter(i, Len(runs))) <= Limit

\* The slots that are left hold at most who held one before.
LEMMA FewerHold ==
    ASSUME TypeOK, NEW S \in SUBSET Calls, NEW T \in SUBSET S
    PROVE  /\ Cardinality(T) \in Nat /\ Cardinality(S) \in Nat
           /\ Cardinality(T) <= Cardinality(S)
           /\ Cardinality(S) <= Cardinality(S \ T) + Cardinality(T)
<1>1. IsFiniteSet(S) /\ IsFiniteSet(T) /\ IsFiniteSet(S \ T)
  BY CallsAssumption, FS_Subset
<1>2. Cardinality(S \ T) = Cardinality(S) - Cardinality(S \cap T) /\ S \cap T = T
  BY <1>1, FS_Difference
<1> QED
  BY <1>1, <1>2, FS_Subset, FS_CardinalityType

LEMMA AfterScript ==
    ASSUME TypeOK, NEW c \in Calls, RunScript(c),
           NEW n, n = Len(runs), NEW i \in 1..n
    PROVE  /\ \A j \in 1..n : AdmittedAfter(i, j)' = AdmittedAfter(i, j)
           /\ AdmittedAfter(i, n + 1)'
                = AdmittedAfter(i, n) \cup (IF Admitted THEN {c} ELSE {})
           /\ AdmittedAfter(i, n) \subseteq Calls
<1>1. /\ Len(runs) \in Nat /\ Len(runs') = Len(runs) + 1
      /\ \A k \in 1..Len(runs) : runs'[k] = runs[k]
      /\ runs'[Len(runs) + 1].call = c
      /\ runs'[Len(runs) + 1].allowed = Admitted
  BY ScriptRun
<1>2. ASSUME NEW j \in 1..n
      PROVE  AdmittedAfter(i, j)' = AdmittedAfter(i, j)
  <2>1. \A k \in (i + 1)..j : runs'[k] = runs[k]
    BY <1>1
  <2> QED
    BY <2>1 DEF AdmittedAfter
<1>3. (i + 1)..(n + 1) = ((i + 1)..n) \cup {n + 1}
  BY <1>1
<1>4. \A k \in (i + 1)..n : runs'[k] = runs[k] /\ runs[k].call \in Calls
  BY <1>1, RunTypes
<1> QED
  BY <1>1, <1>2, <1>3, <1>4 DEF AdmittedAfter

LEMMA ScriptAnnounces ==
    ASSUME TypeOK, Announced, NEW c \in Calls, RunScript(c), NEW n, n = Len(runs)
    PROVE  Announced'
<1>1. members' = (IF Admitted THEN Kept \cup {c} ELSE Kept) /\ n \in Nat
  BY DEF RunScript, TypeOK
<1>2. TypeOK' /\ members' \subseteq Calls /\ Cardinality(members') <= Limit
  BY ScriptTypes DEF TypeOK
<1>3. /\ Len(runs') = n + 1
      /\ \A k \in 1..n : runs'[k] = runs[k]
      /\ runs'[n + 1].remaining = Remaining(Count)
  BY ScriptRun
<1>4. ASSUME NEW i \in 1..n
      PROVE  runs[i].remaining + Cardinality(members' \ AdmittedAfter(i, n + 1)') <= Limit
  <2> DEFINE S == members \ AdmittedAfter(i, n)
             T == members' \ AdmittedAfter(i, n + 1)'
  <2>0. AdmittedAfter(i, n + 1)' = AdmittedAfter(i, n) \cup (IF Admitted THEN {c} ELSE {})
    BY AfterScript
  <2>1. T \subseteq S /\ S \subseteq Calls
    BY <1>1, <2>0, KeptFacts DEF TypeOK
  <2>2. Cardinality(T) <= Cardinality(S) /\ Cardinality(T) \in Nat /\ Cardinality(S) \in Nat
    BY <2>1, FewerHold
  <2>3. runs[i].remaining \in Nat /\ runs[i].remaining + Cardinality(S) <= Limit
    BY RunTypes DEF Announced
  <2> QED
    BY <2>2, <2>3, WindowAssumption
<1>5. Remaining(Count) + Cardinality(members') <= Limit
  <2>1. /\ Cardinality(members') \in Nat /\ Cardinality(Kept) \in Nat /\ Count \in Nat
        /\ Cardinality(members') <= Count
    <3>1. IsFiniteSet(Kept) /\ Cardinality(Kept) \in Nat
      BY KeptFacts
    <3>2. CASE Admitted
      <4>1. members' = Kept \cup {c} /\ Count = Cardinality(Kept) + 1
        BY <1>1, <3>2 DEF Count
      <4>2. Cardinality(Kept \cup {c}) = IF c \in Kept THEN Cardinality(Kept) ELSE Cardinality(Kept) + 1
        BY <3>1, FS_AddElement
      <4> QED
        BY <3>1, <4>1, <4>2
    <3>3. CASE ~Admitted
      BY <1>1, <3>1, <3>3 DEF Count
    <3> QED
      BY <3>2, <3>3
  <2>2. Remaining(Count) \in {0, Limit - Count}
    <3>1. Limit - Count \in Int /\ 0 \in Int
      BY <2>1, WindowAssumption
    <3>2. Max({0, Limit - Count}) \in {0, Limit - Count}
      BY <3>1, MaxOfTwo
    <3> QED
      BY <3>2, Zenon DEF Remaining
  <2> QED
    BY <1>2, <2>1, <2>2, WindowAssumption
<1>6. AdmittedAfter(n + 1, n + 1)' = {}
  BY <1>1 DEF AdmittedAfter
<1>7. ASSUME NEW i \in 1..Len(runs')
      PROVE  runs'[i].remaining + Cardinality(members' \ AdmittedAfter(i, n + 1)') <= Limit
  <2>1. CASE i \in 1..n
    BY <1>3, <1>4, <2>1
  <2>2. CASE i = n + 1
    <3>1. members' \ AdmittedAfter(i, n + 1)' = members'
      BY <1>6, <2>2
    <3> QED
      BY <1>3, <1>5, <2>2, <3>1
  <2> QED
    BY <1>1, <1>3, <2>1, <2>2
<1> QED
  BY <1>3, <1>7 DEF Announced

LEMMA ScriptKeeps ==
    ASSUME TypeOK, Announced, RemainingIsKept, NEW c \in Calls, RunScript(c), NEW n, n = Len(runs)
    PROVE  RemainingIsKept'
<1> SUFFICES ASSUME NEW i \in 1..Len(runs'), NEW j \in 1..Len(runs'), i < j, ~runs'[j].allowed
             PROVE  runs'[i].remaining <= Cardinality(AdmittedAfter(i, j)')
  BY DEF RemainingIsKept, AdmittedAfter
<1>1. /\ n \in Nat /\ Len(runs') = n + 1
      /\ \A k \in 1..n : runs'[k] = runs[k]
      /\ runs'[n + 1].allowed = Admitted
  BY ScriptRun
<1>2. i \in 1..n /\ runs'[i] = runs[i]
  BY <1>1
<1>3. CASE j \in 1..n
  <2>1. AdmittedAfter(i, j)' = AdmittedAfter(i, j) /\ runs'[j] = runs[j]
    BY <1>1, <1>2, <1>3, AfterScript
  <2>2. runs[i].remaining <= Cardinality(AdmittedAfter(i, j))
    BY <1>2, <1>3, <2>1 DEF RemainingIsKept, AdmittedAfter
  <2> QED
    BY <1>2, <2>1, <2>2
<1>4. CASE j = n + 1
  <2> DEFINE A == AdmittedAfter(i, n)
  <2>1. ~Admitted /\ AdmittedAfter(i, j)' = A /\ A \subseteq Calls
    <3>1. ~Admitted
      BY <1>1, <1>4
    <3>2. AdmittedAfter(i, n + 1)' = A \cup (IF Admitted THEN {c} ELSE {}) /\ A \subseteq Calls
      BY <1>2, AfterScript
    <3> QED
      BY <1>4, <3>1, <3>2
  <2>2. Limit <= Cardinality(Kept) /\ Cardinality(Kept) \in Nat /\ Kept \subseteq members
    BY <2>1, KeptFacts, WindowAssumption DEF Admitted
  <2>3. members \subseteq Calls
    BY DEF TypeOK
  <2>4. /\ Cardinality(members \cap A) <= Cardinality(A) /\ Cardinality(A) \in Nat
        /\ Cardinality(members \cap A) \in Nat
    BY <2>1, FewerHold
  <2>5. /\ Cardinality(members) <= Cardinality(members \ A) + Cardinality(members \cap A)
        /\ Cardinality(members) \in Nat /\ Cardinality(members \ A) \in Nat
    <3>1. members \ (members \cap A) = members \ A
      OBVIOUS
    <3>2. Cardinality(members) <= Cardinality(members \ (members \cap A)) + Cardinality(members \cap A)
      BY <2>3, FewerHold
    <3> QED
      BY <2>3, <3>1, <3>2, FewerHold
  <2>6. Cardinality(Kept) <= Cardinality(members)
    BY <2>2, <2>3, FewerHold
  <2>7. runs[i].remaining \in Nat /\ runs[i].remaining + Cardinality(members \ A) <= Limit
    BY <1>2, RunTypes DEF Announced
  <2> QED
    BY <1>2, <2>1, <2>2, <2>4, <2>5, <2>6, <2>7, WindowAssumption
<1> QED
  BY <1>1, <1>3, <1>4

LEMMA RestartAnnounces ==
    ASSUME TypeOK, Announced, members' \subseteq members, UNCHANGED runs
    PROVE  Announced'
<1> SUFFICES ASSUME NEW i \in 1..Len(runs)
             PROVE  runs[i].remaining + Cardinality(members' \ AdmittedAfter(i, Len(runs))) <= Limit
  BY DEF Announced, AdmittedAfter
<1> DEFINE S == members \ AdmittedAfter(i, Len(runs))
           T == members' \ AdmittedAfter(i, Len(runs))
<1>1. S \subseteq Calls /\ T \subseteq S
  BY DEF TypeOK
<1>2. Cardinality(T) <= Cardinality(S) /\ Cardinality(T) \in Nat /\ Cardinality(S) \in Nat
  BY <1>1, FewerHold
<1>3. runs[i].remaining \in Nat /\ runs[i].remaining + Cardinality(S) <= Limit
  BY RunTypes DEF Announced
<1> QED
  BY <1>2, <1>3, WindowAssumption

\* RateLimit-Remaining is kept: before a refusal after a run that announced n
\* requests left, n others were admitted, whatever was sent again, expired or
\* lost with a restart.
THEOREM RemainingKept == Spec => []RemainingIsKept
<1>1. Init => Announced /\ RemainingIsKept
  BY DEF Init, Announced, RemainingIsKept
<1>2. TypeOK /\ Announced /\ RemainingIsKept /\ [Next]_vars => Announced' /\ RemainingIsKept'
  <2> SUFFICES ASSUME TypeOK, Announced, RemainingIsKept, [Next]_vars
               PROVE  Announced' /\ RemainingIsKept'
    OBVIOUS
  <2>1. ASSUME NEW c \in Calls, RunScript(c)
        PROVE  Announced' /\ RemainingIsKept'
    <3>1. PICK n : n = Len(runs)
      OBVIOUS
    <3> QED
      BY <2>1, <3>1, ScriptAnnounces, ScriptKeeps
  <2>2. CASE UNCHANGED runs /\ members' \subseteq members
    BY <2>2, RestartAnnounces DEF RemainingIsKept
  <2>3. ASSUME NEW c \in Calls, Answer(c) \/ Unavailable(c)
        PROVE  UNCHANGED runs /\ members' \subseteq members
    BY <2>3 DEF Answer, Unavailable
  <2>4. Tick \/ Restart \/ UNCHANGED vars => UNCHANGED runs /\ members' \subseteq members
    BY DEF Tick, Restart, vars
  <2> QED
    BY <2>1, <2>2, <2>3, <2>4 DEF Next
<1> QED
  BY <1>1, <1>2, LimiterTypes, PTL DEF Spec

-----------------------------------------------------------------------------
(* What a refusal announces.                                                *)

LEMMA Division ==
    ASSUME NEW n \in Nat, NEW d \in Nat \ {0}
    PROVE  LET q == n \div d IN q \in Int /\ q * d <= n /\ n < (q + 1) * d
OBVIOUS

LEMMA RoundedUp ==
    ASSUME NEW a \in Nat, NEW d \in Nat \ {0}, NEW q, q = (a + d - 1) \div d
    PROVE  q \in Int /\ q * d >= a /\ (q - 1) * d < a
<1>1. PICK n \in Nat : n = a + d - 1
  OBVIOUS
<1>2. q \in Int /\ q * d <= n /\ n < (q + 1) * d
  BY <1>1, Division
<1>3. PICK p \in Int : p = q * d
  BY <1>2
<1>4. (q + 1) * d = p + d /\ (q - 1) * d = p - d
  BY <1>2, <1>3
<1> QED
  BY <1>1, <1>2, <1>3, <1>4

\* The seconds to a moment ahead: it is reached in the last of them.
LEMMA ResetMeets ==
    ASSUME now \in Nat, NEW oldest \in Nat, oldest + Window > now, NEW r, r = Reset(oldest)
    PROVE  /\ r \in Nat /\ now + r * Second >= oldest + Window
           /\ now + (r - 1) * Second < oldest + Window
<1>1. PICK a \in Nat : a = oldest + Window - now /\ a > 0
  BY WindowAssumption
<1>2. Max({0, a}) = a
  <2>1. Max({0, a}) \in {0, a} /\ Max({0, a}) >= a
    BY MaxOfTwo
  <2> QED
    BY <1>1, <2>1
<1>3. PICK q : q = (a + Second - 1) \div Second
  OBVIOUS
<1>4. q \in Int /\ q * Second >= a /\ (q - 1) * Second < a
  BY <1>3, RoundedUp, WindowAssumption
<1>5. q >= 1
  <2>1. ASSUME q <= 0
        PROVE  q * Second <= 0
    BY <1>4, <2>1, WindowAssumption
  <2> QED
    BY <1>1, <1>4, <2>1, WindowAssumption
<1>6. Max({1, q}) = q
  <2>1. Max({1, q}) \in {1, q} /\ Max({1, q}) >= q
    BY <1>4, MaxOfTwo
  <2> QED
    BY <1>4, <1>5, <2>1
<1>7. r = q
  <2>1. r = Max({1, (Max({0, a}) + Second - 1) \div Second})
    BY <1>1 DEF Reset
  <2> QED
    BY <2>1, <1>2, <1>3, <1>6
<1>8. q * Second \in Int /\ (q - 1) * Second \in Int
  BY <1>4, WindowAssumption
<1> QED
  BY <1>1, <1>4, <1>5, <1>7, <1>8, WindowAssumption

InWindow == {c \in members : score[c] + Window > now}

\* The slots run i found taken that were not taken anew.
TakenAt(i) == {c \in members : score[c] <= runs[i].at}

Since == (since + 1)..Len(runs)

\* A refusal's slots: fewer than the limit by now, or one leaves in time.
OneLeaves ==
    \A i \in Since : ~runs[i].allowed =>
      \/ Cardinality(TakenAt(i)) < Limit
      \/ \E c \in TakenAt(i) : score[c] + Window <= runs[i].at + runs[i].reset * Second

\* At the moment of a refusal the window is full.
FullWhenRefused ==
    \A i \in Since : ~runs[i].allowed /\ runs[i].at = now => Limit <= Cardinality(InWindow)

\* The last admission of a call is its score.
LastIsScore ==
    \A j \in Since : LastBefore(j, Len(runs)) /\ runs[j].at + Window > now =>
      runs[j].call \in members /\ score[runs[j].call] = runs[j].at

NotLong ==
    \A i \in Since : ~runs[i].allowed =>
      \A j \in (since + 1)..(i - 1) :
        LastBefore(j, i) /\ runs[j].at + Window > runs[i].at =>
          runs[j].at + Window > runs[i].at + (runs[i].reset - 1) * Second

Waiting == OneLeaves /\ FullWhenRefused /\ LastIsScore /\ NotLong

LEMMA KeptIsInWindow ==
    ASSUME TypeOK
    PROVE  Kept = InWindow
BY InWindowIsKept, KeptFacts DEF InWindow

\* What a run of the script does, with the seconds it announces.
LEMMA ScriptFacts ==
    ASSUME TypeOK, NEW c \in Calls, RunScript(c), NEW n, n = Len(runs)
    PROVE  /\ n \in Nat /\ since \in 0..n /\ Len(runs') = n + 1
           /\ UNCHANGED <<now, since>> /\ now \in Nat
           /\ \A k \in 1..n : runs'[k] = runs[k] /\ runs[k].at \in Nat /\ runs[k].at <= now
           /\ runs'[n + 1].call = c /\ runs'[n + 1].at = now /\ runs'[n + 1].allowed = Admitted
           /\ runs'[n + 1].reset = Reset(Oldest(members', score'))
           /\ members' = (IF Admitted THEN Kept \cup {c} ELSE Kept)
           /\ score' = [d \in Calls |-> IF d = c /\ Admitted THEN now
                                        ELSE IF d \in Kept THEN score[d] ELSE 0]
           /\ Kept = InWindow /\ Kept \subseteq members /\ members \subseteq Calls
           /\ score \in [Calls -> Nat]
<1>1. runs'[n + 1].reset = Reset(Oldest(members', score'))
  <2>1. runs' = Append(runs, [call |-> c, at |-> now, allowed |-> Admitted,
                              remaining |-> Remaining(Count),
                              reset |-> Reset(Oldest(members', score'))])
    BY DEF RunScript
  <2>2. PICK r : r = Reset(Oldest(members', score'))
    OBVIOUS
  <2>3. runs' = Append(runs, [call |-> c, at |-> now, allowed |-> Admitted,
                              remaining |-> Remaining(Count), reset |-> r])
    BY <2>1, <2>2
  <2> QED
    BY <2>2, <2>3 DEF TypeOK
<1> QED
  BY <1>1, ScriptRun, RunTypes, KeptIsInWindow, KeptFacts DEF RunScript, TypeOK

\* A refusal announces when the first of the slots leaves, no earlier and not a
\* second late.
LEMMA RefusalNames ==
    ASSUME TypeOK, Limit > 0, NEW c \in Calls, RunScript(c), ~Admitted, NEW n, n = Len(runs)
    PROVE  /\ Limit <= Cardinality(Kept)
           /\ \E o \in Kept : /\ score[o] + Window <= now + runs'[n + 1].reset * Second
                              /\ now + (runs'[n + 1].reset - 1) * Second < score[o] + Window
                              /\ \A d \in Kept : score[o] <= score[d]
<1> DEFINE S == {score'[d] : d \in Kept}
<1>1. Limit <= Cardinality(Kept)
  BY KeptFacts, WindowAssumption DEF Admitted
<1>2. Kept # {}
  <2>1. Cardinality({}) = 0
    BY FS_EmptySet
  <2> QED
    BY <1>1, <2>1, WindowAssumption
<1>3. members' = Kept /\ \A d \in Kept : d \in Calls /\ score'[d] = score[d] /\ score[d] \in Nat
  BY ScriptFacts
<1>4. S \in SUBSET Nat /\ S # {}
  BY <1>2, <1>3
<1>5. Min(S) \in S /\ \A y \in S : Min(S) <= y
  BY <1>4, MinOfNaturals
<1>6. PICK o \in Kept : Min(S) = score[o] /\ \A d \in Kept : score[o] <= score[d]
  BY <1>3, <1>5
<1>7. Oldest(members', score') = score[o]
  BY <1>2, <1>3, <1>6 DEF Oldest
<1>8. runs'[n + 1].reset = Reset(score[o]) /\ score[o] + Window > now /\ now \in Nat
  BY <1>6, <1>7, ScriptFacts, KeptFacts
<1> QED
  BY <1>1, <1>3, <1>6, <1>8, ResetMeets, WindowAssumption

\* Of the slots that were taken when run i was refused, none is added.
LEMMA TakenShrinks ==
    ASSUME TypeOK, FullWhenRefused, NEW c \in Calls, RunScript(c),
           NEW n, n = Len(runs), NEW i \in (since + 1)..n, ~runs[i].allowed
    PROVE  /\ TakenAt(i)' \subseteq TakenAt(i) /\ TakenAt(i) \subseteq Calls
           /\ \A o \in TakenAt(i)' : score'[o] = score[o]
<1>1. i \in 1..n /\ runs'[i] = runs[i] /\ runs[i].at \in Nat /\ runs[i].at <= now
  <2>1. n \in Nat /\ since \in 0..n
    BY ScriptFacts
  <2>2. i \in 1..n
    BY <2>1
  <2> QED
    BY <2>2, ScriptFacts
<1>2. CASE Admitted
  <2>1. runs[i].at # now
    <3>1. Cardinality(InWindow) < Limit /\ Cardinality(InWindow) \in Nat
      BY <1>2, KeptIsInWindow, KeptFacts DEF Admitted
    <3> QED
      BY <3>1, WindowAssumption DEF FullWhenRefused, Since
  <2>2. runs[i].at < now /\ now \in Nat
    BY <1>1, <2>1, ScriptFacts
  <2>3. score'[c] = now
    BY <1>2, ScriptFacts
  <2>4. ASSUME NEW o \in TakenAt(i)'
        PROVE  o \in Kept /\ o # c /\ o \in Calls
    <3>1. o \in members' /\ score'[o] <= runs[i].at
      BY <1>1 DEF TakenAt
    <3>2. o # c
      BY <2>2, <2>3, <3>1, <1>1
    <3>3. members' = Kept \cup {c} /\ Kept \subseteq Calls
      BY <1>2, ScriptFacts, KeptFacts
    <3> QED
      BY <3>1, <3>2, <3>3
  <2>5. \A o \in TakenAt(i)' : score'[o] = score[o] /\ o \in members
    <3>1. /\ score' = [d \in Calls |-> IF d = c /\ Admitted THEN now
                                       ELSE IF d \in Kept THEN score[d] ELSE 0]
          /\ Kept \subseteq members
      BY ScriptFacts
    <3> QED
      BY <2>4, <3>1
  <2> QED
    BY <1>1, <2>5, ScriptFacts DEF TakenAt
<1>3. CASE ~Admitted
  <2>1. members' = Kept /\ \A o \in Kept : o \in members /\ score'[o] = score[o]
    BY <1>3, ScriptFacts
  <2> QED
    BY <1>1, <2>1, ScriptFacts DEF TakenAt
<1> QED
  BY <1>2, <1>3

LEMMA ScriptWaits ==
    ASSUME TypeOK, Limit > 0, Waiting, NEW c \in Calls, RunScript(c), NEW n, n = Len(runs)
    PROVE  Waiting'
<1>1. /\ n \in Nat /\ since \in Nat /\ since' = since /\ now' = now /\ now \in Nat
      /\ Since = (since + 1)..n /\ Since' = (since + 1)..(n + 1)
      /\ \A k \in Since' : k \in Since \/ k = n + 1
      /\ \A k \in Since : k \in 1..n /\ runs'[k] = runs[k] /\ runs[k].at \in Nat /\ runs[k].at <= now
  BY ScriptFacts DEF Since
<1>2. /\ runs'[n + 1].call = c /\ runs'[n + 1].at = now /\ runs'[n + 1].allowed = Admitted
  BY ScriptFacts
<1>3. OneLeaves'
  <2> SUFFICES ASSUME NEW i \in Since', ~runs'[i].allowed
               PROVE  \/ Cardinality(TakenAt(i)') < Limit
                      \/ \E o \in TakenAt(i)' : score'[o] + Window <= runs'[i].at + runs'[i].reset * Second
    BY DEF OneLeaves
  <2>1. CASE i \in Since
    <3>1. ~runs[i].allowed /\ runs'[i] = runs[i]
      BY <1>1, <2>1
    <3>2. /\ TakenAt(i)' \subseteq TakenAt(i) /\ TakenAt(i) \subseteq Calls
          /\ \A o \in TakenAt(i)' : score'[o] = score[o]
      BY <1>1, <2>1, <3>1, TakenShrinks DEF Waiting
    <3>3. IsFiniteSet(TakenAt(i)) /\ Cardinality(TakenAt(i)) <= Limit
      <4>1. TakenAt(i) \subseteq members /\ members \subseteq Calls /\ Cardinality(members) <= Limit
        BY DEF TakenAt, TypeOK
      <4>2. Cardinality(TakenAt(i)) <= Cardinality(members) /\ IsFiniteSet(TakenAt(i))
        BY <4>1, <3>2, FewerHold, CallsAssumption, FS_Subset
      <4>3. Cardinality(TakenAt(i)) \in Nat /\ Cardinality(members) \in Nat
        BY <4>1, FewerHold
      <4> QED
        BY <4>1, <4>2, <4>3, WindowAssumption
    <3>4. CASE TakenAt(i)' = TakenAt(i)
      BY <2>1, <3>1, <3>2, <3>4 DEF Waiting, OneLeaves
    <3>5. CASE TakenAt(i)' # TakenAt(i)
      <4>1. /\ Cardinality(TakenAt(i)') <= Cardinality(TakenAt(i))
            /\ Cardinality(TakenAt(i)') # Cardinality(TakenAt(i))
        BY <3>2, <3>3, <3>5, FS_Subset
      <4>2. Cardinality(TakenAt(i)') \in Nat /\ Cardinality(TakenAt(i)) \in Nat
        BY <3>2, FewerHold
      <4> QED
        BY <3>3, <4>1, <4>2, WindowAssumption
    <3> QED
      BY <3>4, <3>5
  <2>2. CASE i = n + 1
    <3>1. ~Admitted
      BY <1>2, <2>2
    <3>2. PICK o \in Kept : score[o] + Window <= now + runs'[n + 1].reset * Second
      BY <3>1, RefusalNames
    <3>3. o \in members' /\ score'[o] = score[o] /\ score[o] <= now
      BY <3>1, ScriptFacts DEF TypeOK
    <3>4. o \in TakenAt(i)'
      BY <1>2, <2>2, <3>3 DEF TakenAt
    <3> QED
      BY <1>2, <2>2, <3>2, <3>3, <3>4
  <2> QED
    BY <1>1, <2>1, <2>2
<1>4. FullWhenRefused'
  <2> SUFFICES ASSUME NEW i \in Since', ~runs'[i].allowed, runs'[i].at = now
               PROVE  Limit <= Cardinality(InWindow')
    BY <1>1 DEF FullWhenRefused
  <2>1. Kept = InWindow
    BY KeptIsInWindow
  <2>2. Limit <= Cardinality(Kept) /\ ~Admitted
    <3>1. CASE i \in Since
      <4>1. Limit <= Cardinality(Kept)
        BY <1>1, <2>1, <3>1 DEF Waiting, FullWhenRefused
      <4> QED
        BY <4>1, KeptFacts, WindowAssumption DEF Admitted
    <3>2. CASE i = n + 1
      BY <1>2, <3>2, RefusalNames
    <3> QED
      BY <1>1, <3>1, <3>2
  <2>3. members' = Kept /\ \A d \in Kept : score'[d] = score[d]
    BY <2>2, ScriptFacts
  <2>4. InWindow' = Kept
    BY <1>1, <2>3, KeptFacts DEF InWindow
  <2> QED
    BY <2>2, <2>4
<1>5. LastIsScore'
  <2> SUFFICES ASSUME NEW j \in Since', LastBefore(j, n + 1)', runs'[j].at + Window > now
               PROVE  runs'[j].call \in members' /\ score'[runs'[j].call] = runs'[j].at
    <3>1. Len(runs') = n + 1
      BY ScriptFacts
    <3> QED
      BY <1>1, <3>1 DEF LastIsScore, LastBefore
  <2>1. CASE j \in Since
    <3>1. LastBefore(j, n)
      BY <1>1, <2>1 DEF LastBefore
    <3>2. runs[j].call \in members /\ score[runs[j].call] = runs[j].at /\ runs'[j] = runs[j]
      BY <1>1, <2>1, <3>1 DEF Waiting, LastIsScore
    <3>3. runs[j].call \in Kept
      BY <3>2, InWindowIsKept
    <3>4. runs[j].call # c \/ ~Admitted
      BY <1>1, <1>2, <2>1, <3>2 DEF LastBefore
    <3> QED
      BY <3>2, <3>3, <3>4, ScriptFacts
  <2>2. CASE j = n + 1
    <3>1. Admitted
      BY <1>2, <2>2 DEF LastBefore
    <3> QED
      BY <1>2, <2>2, <3>1, ScriptFacts
  <2> QED
    BY <1>1, <2>1, <2>2
<1>6. NotLong'
  <2> SUFFICES ASSUME NEW i \in Since', ~runs'[i].allowed, NEW j \in (since + 1)..(i - 1),
                      LastBefore(j, i)', runs'[j].at + Window > runs'[i].at
               PROVE  runs'[j].at + Window > runs'[i].at + (runs'[i].reset - 1) * Second
    BY <1>1 DEF NotLong
  <2>1. j \in Since /\ runs'[j] = runs[j] /\ runs[j].at \in Nat
    BY <1>1
  <2>2. CASE i \in Since
    <3>1. runs'[i] = runs[i] /\ LastBefore(j, i)
      BY <1>1, <2>1, <2>2 DEF LastBefore
    <3> QED
      BY <2>1, <2>2, <3>1 DEF Waiting, NotLong
  <2>3. CASE i = n + 1
    <3>1. LastBefore(j, n)
      BY <1>1, <2>1, <2>3 DEF LastBefore
    <3>2. runs[j].call \in members /\ score[runs[j].call] = runs[j].at
      BY <1>1, <1>2, <2>1, <2>3, <3>1 DEF Waiting, LastIsScore
    <3>3. runs[j].call \in Kept
      BY <1>2, <2>1, <2>3, <3>2, InWindowIsKept
    <3>4. PICK o \in Kept : /\ now + (runs'[n + 1].reset - 1) * Second < score[o] + Window
                            /\ \A d \in Kept : score[o] <= score[d]
      BY <1>2, <2>3, RefusalNames
    <3>5. score[o] \in Nat /\ score[o] <= runs[j].at
      BY <3>2, <3>3, <3>4, ScriptFacts
    <3>6. runs'[n + 1].reset \in Nat
      <4>1. TypeOK'
        BY ScriptTypes
      <4>2. runs' \in Seq(Run) /\ Len(runs') = n + 1 /\ n \in Nat
        BY <1>1, <4>1, ScriptFacts DEF TypeOK
      <4>3. runs'[n + 1] \in Run
        BY <4>2
      <4> QED
        BY <4>3 DEF Run
    <3>7. PICK m \in Int : m = (runs'[n + 1].reset - 1) * Second
      BY <3>6, WindowAssumption
    <3>8. now + m < runs[j].at + Window
      <4>1. now + m < score[o] + Window
        BY <3>4, <3>7
      <4>2. PICK a \in Nat, b \in Nat : a = score[o] /\ b = runs[j].at /\ a <= b
        BY <2>1, <3>5
      <4>3. now + m < a + Window /\ a \in Nat /\ b \in Nat /\ a <= b
        BY <4>1, <4>2
      <4>4. \A t \in Int, w \in Nat : t < a + w => t < b + w
        BY <4>3
      <4>5. now + m \in Int /\ Window \in Nat
        BY <1>1, <3>7, WindowAssumption
      <4>6. now + m < b + Window
        BY <4>3, <4>4, <4>5
      <4> QED
        BY <4>2, <4>6
    <3>9. runs'[i].at = now /\ runs'[i].reset = runs'[n + 1].reset
      BY <1>2, <2>3
    <3>10. runs[j].at + Window > now + m
      BY <1>1, <2>1, <3>7, <3>8, WindowAssumption
    <3> QED
      BY <2>1, <3>7, <3>9, <3>10
  <2> QED
    BY <1>1, <2>2, <2>3
<1> QED
  BY <1>3, <1>4, <1>5, <1>6 DEF Waiting

\* Retry-After is neither short nor long, wherever the limit admits anybody: when
\* its seconds are over a slot that was taken is free, and until the last of
\* them none of those had left.
THEOREM RetryAfterExact == Limit > 0 => (Spec => []RetryAfterFreesASlot)
<1> SUFFICES ASSUME Limit > 0
             PROVE  Spec => []RetryAfterFreesASlot
  OBVIOUS
<1>1. Init => Waiting
  BY DEF Init, Waiting, OneLeaves, FullWhenRefused, LastIsScore, NotLong, Since
<1>2. TypeOK /\ Waiting /\ [Next]_vars => Waiting'
  <2> SUFFICES ASSUME TypeOK, Waiting, [Next]_vars
               PROVE  Waiting'
    OBVIOUS
  <2>1. ASSUME NEW c \in Calls, RunScript(c)
        PROVE  Waiting'
    <3>1. PICK n : n = Len(runs)
      OBVIOUS
    <3> QED
      BY <2>1, <3>1, ScriptWaits
  <2>2. CASE UNCHANGED <<members, score, runs, since, now>>
    BY <2>2 DEF Waiting, OneLeaves, FullWhenRefused, LastIsScore, NotLong, Since, TakenAt, InWindow, LastBefore
  <2>3. CASE Restart
    <3>1. Since' = {}
      BY <2>3 DEF Restart, Since, TypeOK
    <3> QED
      BY <3>1 DEF Waiting, OneLeaves, FullWhenRefused, LastIsScore, NotLong
  <2>4. CASE Tick
    <3>1. UNCHANGED <<members, score, runs, since>> /\ now' = now + 1 /\ now \in Nat
      BY <2>4 DEF Tick, TypeOK
    <3>2. \A k \in Since : runs[k].at \in Nat /\ runs[k].at <= now
      <4>1. \A k \in Since : k \in 1..Len(runs)
        BY DEF Since, TypeOK
      <4> QED
        BY <4>1, RunTypes
    <3>3. OneLeaves' /\ NotLong'
      BY <3>1 DEF Waiting, OneLeaves, NotLong, Since, TakenAt, LastBefore
    <3>4. FullWhenRefused'
      BY <3>1, <3>2 DEF FullWhenRefused, Since
    <3>5. LastIsScore'
      <4>1. \A k \in Since : runs[k].at + Window > now + 1 => runs[k].at + Window > now
        BY <3>1, <3>2, WindowAssumption
      <4> QED
        BY <3>1, <4>1 DEF Waiting, LastIsScore, Since, LastBefore
    <3> QED
      BY <3>3, <3>4, <3>5 DEF Waiting
  <2>5. ASSUME NEW c \in Calls, Answer(c) \/ Unavailable(c)
        PROVE  UNCHANGED <<members, score, runs, since, now>>
    BY <2>5 DEF Answer, Unavailable
  <2>6. UNCHANGED vars => UNCHANGED <<members, score, runs, since, now>>
    BY DEF vars
  <2> QED
    BY <2>1, <2>2, <2>3, <2>4, <2>5, <2>6 DEF Next
<1>3. TypeOK /\ Waiting => RetryAfterFreesASlot
  <2> SUFFICES ASSUME TypeOK, Waiting, NEW i \in Since, ~runs[i].allowed
               PROVE  /\ now >= runs[i].at + runs[i].reset * Second =>
                           Cardinality(HeldSince(runs[i].at)) < Limit
                      /\ \A j \in (since + 1)..(i - 1) :
                           LastBefore(j, i) /\ runs[j].at + Window > runs[i].at =>
                             runs[j].at + Window > runs[i].at + (runs[i].reset - 1) * Second
    BY DEF RetryAfterFreesASlot, Since
  <2>1. ASSUME now >= runs[i].at + runs[i].reset * Second
        PROVE  Cardinality(HeldSince(runs[i].at)) < Limit
    <3> DEFINE H == HeldSince(runs[i].at)
    <3>1. H \subseteq TakenAt(i) /\ TakenAt(i) \subseteq members /\ members \subseteq Calls
      BY DEF HeldSince, TakenAt, TypeOK
    <3>2. /\ Cardinality(H) <= Cardinality(TakenAt(i)) /\ Cardinality(TakenAt(i)) <= Limit
          /\ Cardinality(H) \in Nat /\ Cardinality(TakenAt(i)) \in Nat
      <4>1. Cardinality(members) <= Limit /\ Cardinality(members) \in Nat
        BY <3>1, FewerHold DEF TypeOK
      <4>2. Cardinality(TakenAt(i)) <= Cardinality(members) /\ Cardinality(TakenAt(i)) \in Nat
        BY <3>1, FewerHold
      <4>3. Cardinality(H) <= Cardinality(TakenAt(i)) /\ Cardinality(H) \in Nat
        BY <3>1, FewerHold
      <4> QED
        BY <4>1, <4>2, <4>3, WindowAssumption
    <3>3. CASE Cardinality(TakenAt(i)) < Limit
      BY <3>2, <3>3, WindowAssumption
    <3>4. ASSUME NEW c \in TakenAt(i), score[c] + Window <= runs[i].at + runs[i].reset * Second
          PROVE  Cardinality(H) < Limit
      <4>1. /\ runs[i].at \in Nat /\ runs[i].reset \in Nat /\ now \in Nat /\ score[c] \in Nat
            /\ runs[i].reset * Second \in Nat
        <5>1. runs[i] \in Run
          BY DEF TypeOK, Since
        <5>2. runs[i].at \in Nat /\ runs[i].reset \in Nat
          BY <5>1 DEF Run
        <5> QED
          BY <3>1, <5>2, WindowAssumption DEF TypeOK
      <4>2. ~(score[c] + Window > now)
        BY <2>1, <3>4, <4>1, WindowAssumption
      <4>3. c \notin H
        BY <4>2 DEF HeldSince
      <4>4. IsFiniteSet(TakenAt(i)) /\ H # TakenAt(i)
        BY <3>1, <4>3, CallsAssumption, FS_Subset
      <4>5. Cardinality(H) # Cardinality(TakenAt(i))
        BY <3>1, <4>4, FS_Subset
      <4> QED
        BY <3>2, <4>5, WindowAssumption
    <3> QED
      BY <3>3, <3>4 DEF Waiting, OneLeaves
  <2> QED
    BY <2>1 DEF Waiting, NotLong
<1> QED
  BY <1>1, <1>2, <1>3, LimiterTypes, PTL DEF Spec
=============================================================================
