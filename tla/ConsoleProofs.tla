----------------------------- MODULE ConsoleProofs -----------------------------
(***************************************************************************)
(* What the console says is true once no frame is due: of its credentials  *)
(* and refusals, for any schemes, expiries and operations; of the last     *)
(* answer and of the calls an operation remembers, for any number of       *)
(* calls.  And the runs of all steps act one after the other.              *)
(***************************************************************************)
EXTENDS Answers, Operation, Journey, FiniteSetTheorems, TLAPS

Maybe == Credentials \cup {Nothing}

Refusals == {Nothing} \cup [sentWith : Maybe, sent : Maybe]

\* What every step keeps: types, and that a credential is kept under its own scheme.
Types ==
    /\ now \in 0 .. MaxClock
    /\ held \in [Schemes -> Maybe]
    /\ \A s \in Schemes : held[s] # Nothing => Issued[held[s]] = s
    /\ expiryTarget \in Nat \cup {Nothing} /\ expiryTimer \in Nat \cup {Nothing}
    /\ behind \in 0 .. MaxBehind
    /\ calls \in [Ops -> [out : BOOLEAN, sent : Maybe]]
    /\ notes \in [Ops -> [drawn : BOOLEAN, credential : Maybe, denied : Refusals]]
    /\ \A op \in Ops : notes[op].credential # Nothing => Issued[notes[op].credential] = Hands[op]
    /\ \A op \in Ops : notes[op].denied # Nothing => Needs[op] # Nothing
    /\ \A op \in Ops : slots[op].offers \in Maybe
    /\ \A op \in Ops : slots[op].offers # Nothing => Issued[slots[op].offers] = Hands[op]
    /\ handed \in [Ops -> Nat] /\ made \in 0 .. MaxCalls

\* The credentials of a scheme that still have to expire.
Coming(s) == held[s] # Nothing /\ Expiry[held[s]] # Nothing /\ now < Expiry[held[s]]

\* A timer is set for no later than what it aims at, and exactly for that if it aims
\* ahead within what a browser can wait.
Aimed ==
    /\ expiryTarget # Nothing /\ now < expiryTarget /\ expiryTarget <= MaxTimer =>
          expiryTimer = expiryTarget
    /\ expiryTimer # Nothing => expiryTarget # Nothing /\ expiryTimer <= expiryTarget

\* Where no frame is due, the timer fires no later than anything that is held
\* expires, but for one that was cut short and has fired.
Cut(v) == expiryTimer = Nothing /\ expiryTarget # Nothing /\ Expiry[v] > MaxTimer

Armed == behind = 0 =>
    \A s \in Schemes : Coming(s) => \/ expiryTimer # Nothing /\ expiryTimer <= Expiry[held[s]]
                                    \/ Cut(held[s])

\* A button offers what an answer handed on: the note's own where there was but one.
OffersKept ==
    \A op \in Ops :
        /\ slots[op].offers # Nothing <=> slots[op].credential = "offered"
        /\ handed[op] = 0 => slots[op].offers = Nothing /\ notes[op].credential = Nothing
        /\ handed[op] = 1 /\ slots[op].offers # Nothing /\ notes[op].credential # Nothing =>
              slots[op].offers = notes[op].credential

Painted == ExpiryIsShown /\ NotesTellTheState

Inv == Types /\ Aimed /\ Armed /\ OffersKept /\ Painted

-----------------------------------------------------------------------------
(* The nearest expiry.                                                      *)

\* A nonempty set of naturals has a least member: the intervals from 0 to its
\* members are ordered by inclusion.
LEMMA MinOfNaturals ==
    ASSUME NEW S \in SUBSET Nat, S # {}
    PROVE  Min(S) \in S /\ \A y \in S : Min(S) <= y
<1>1. PICK n \in S : TRUE
  OBVIOUS
<1> DEFINE U == 0..n
           R == StrictSubsetOrdering(U)
           T == {0..x : x \in {x \in S : x <= n}}
<1>2. T \subseteq FiniteSubsetsOf(U) /\ 0..n \in T
  <2>1. ASSUME NEW x \in S, x <= n
        PROVE  IsFiniteSet(0..x) /\ 0..x \subseteq U
    BY <1>1, <2>1, FS_Interval
  <2>2. FiniteSubsetsOf(U) = SUBSET U
    <3>1. IsFiniteSet(U)
      BY <1>1, FS_Interval
    <3> HIDE DEF U
    <3> QED
      BY <3>1, FS_FiniteSubsetsOfFinite
  <2> QED
    BY <1>1, <2>1, <2>2
<1>3. IsWellFoundedOn(R, FiniteSubsetsOf(U))
  BY FS_StrictSubsetOrderingWellFounded
<1>4. PICK I \in T : \A J \in T : ~ (<<J, I>> \in R)
  <2> HIDE DEF R, T, U
  <2> QED
    BY <1>2, <1>3, WFMin
<1>5. PICK x \in S : x <= n /\ I = 0..x
  BY <1>4
<1>6. ASSUME NEW y \in S, y < x
      PROVE  FALSE
  <2>1. 0..y \in T /\ 0..y \subseteq 0..x /\ x \notin 0..y /\ x \in 0..x /\ 0..x \subseteq U
    BY <1>1, <1>5, <1>6
  <2>2. <<0..y, 0..x>> \in R
    BY <2>1 DEF StrictSubsetOrdering
  <2> QED
    BY <1>4, <1>5, <2>1, <2>2
<1>7. \A y \in S : x <= y
  BY <1>5, <1>6
<1> QED
  BY <1>5, <1>7 DEF Min

LEMMA Constant ==
    /\ MaxTimer \in Nat /\ MaxBehind \in Nat /\ MaxClock \in Nat /\ MaxCalls \in Nat
    /\ \A v \in Credentials : Expiry[v] \in Nat \cup {Nothing} /\ Issued[v] \in Schemes
    /\ Nothing \notin Nat /\ Nothing \notin Credentials /\ Nothing \notin {"applied", "offered"}
    /\ \A op \in Ops : Hands[op] \in Schemes \cup {Nothing} /\ Needs[op] \in Schemes \cup {Nothing}
BY ClockAssumption, CallsAssumption

\* NextExpiry is ahead and the first of all.
LEMMA NextFacts ==
    ASSUME Types
    PROVE  /\ NextExpiry \in Nat \cup {Nothing}
           /\ NextExpiry # Nothing => now < NextExpiry
           /\ NextExpiry # Nothing => \E v \in Credentials : Expiry[v] = NextExpiry
           /\ \A s \in Schemes : Coming(s) => NextExpiry # Nothing /\ NextExpiry <= Expiry[held[s]]
<1> DEFINE ahead == {Expiry[held[s]] : s \in authorizedScopes} \ {Nothing}
           coming == {e \in ahead : e > now}
<1>1. coming \subseteq Nat /\ \A e \in coming : now < e /\ \E v \in Credentials : Expiry[v] = e
  BY Constant DEF authorizedScopes, Types, Maybe
<1>2. \A s \in Schemes : Coming(s) => Expiry[held[s]] \in coming
  BY DEF Coming, authorizedScopes
<1>3. NextExpiry = IF coming = {} THEN Nothing ELSE Min(coming)
  BY DEF NextExpiry
<1> HIDE DEF coming
<1>4. CASE coming = {}
  BY <1>2, <1>3, <1>4
<1>5. CASE coming # {}
  <2>1. Min(coming) \in coming /\ \A y \in coming : Min(coming) <= y
    BY <1>1, <1>5, MinOfNaturals
  <2> QED
    BY <1>1, <1>2, <1>3, <1>5, <2>1, Constant
<1> QED
  BY <1>4, <1>5

\* What a frame does to the timer.
LEMMA Arms ==
    ASSUME Types, Aimed, armExpiry
    PROVE  /\ expiryTarget' = NextExpiry
           /\ expiryTimer' \in Nat \cup {Nothing}
           /\ expiryTimer' # Nothing => NextExpiry # Nothing /\ expiryTimer' <= NextExpiry
           /\ NextExpiry # Nothing /\ NextExpiry <= MaxTimer => expiryTimer' = NextExpiry
<1>0. expiryTarget' = NextExpiry
  BY DEF armExpiry
<1>1. CASE NextExpiry = expiryTarget
  BY <1>1, NextFacts DEF armExpiry, Aimed, Types
<1>2. CASE NextExpiry # expiryTarget /\ NextExpiry # Nothing
  <2> DEFINE cut == now + MaxTimer
  <2>1. NextExpiry \in Nat /\ cut \in Nat /\ MaxTimer <= cut
    BY <1>2, NextFacts, Constant DEF Types
  <2>2. expiryTimer' = Min({NextExpiry, cut})
    BY <1>2 DEF armExpiry
  <2> HIDE DEF cut
  <2>3. /\ Min({NextExpiry, cut}) \in {NextExpiry, cut}
        /\ \A y \in {NextExpiry, cut} : Min({NextExpiry, cut}) <= y
    BY <2>1, MinOfNaturals
  <2> QED
    BY <1>0, <1>2, <2>1, <2>2, <2>3, Constant
<1>3. CASE NextExpiry # expiryTarget /\ NextExpiry = Nothing
  BY <1>3, <1>0 DEF armExpiry
<1> QED
  BY <1>1, <1>2, <1>3

-----------------------------------------------------------------------------
(* Types.                                                                   *)

LEMMA TypesInit == AnswersInit => Types
BY Constant DEF AnswersInit, CredentialsInit, Types, Maybe, Refusals, Idle, NoNotes, NoSlot

\* What is offered is what the note has.
LEMMA PaintedSlotFacts ==
    ASSUME Types, NEW op \in Ops
    PROVE  /\ PaintedSlot(op).offers \in Maybe
           /\ PaintedSlot(op).offers # Nothing => Issued[PaintedSlot(op).offers] = Hands[op]
           /\ SlotSignature(PaintedSlot(op)) = Signature(op)
<1> DEFINE sig == Signature(op)
<1>1. sig = <<sig[1], sig[2]>>
  BY DEF Signature
<1>2. notes[op].credential \in Maybe /\ Nothing \in Maybe
  BY DEF Types, Maybe
<1> HIDE DEF sig
<1>3. CASE SlotSignature(slots[op]) = sig
  BY <1>3 DEF PaintedSlot, Types, sig
<1>4. CASE SlotSignature(slots[op]) # sig
  <2>1. PaintedSlot(op) = [denied |-> sig[1], credential |-> sig[2],
                           offers |-> IF sig[2] = "offered" THEN notes[op].credential ELSE Nothing]
    BY <1>4 DEF PaintedSlot, sig
  <2> QED
    BY <1>1, <1>2, <2>1 DEF SlotSignature, Types, sig
<1> QED
  BY <1>3, <1>4

LEMMA TypesStep ==
    ASSUME Types, AnswersNext
    PROVE  Types'
<1> USE Constant
<1>1. CASE Tick /\ UNCHANGED page
  BY <1>1 DEF Tick, page, timers, shown, Types
<1>2. CASE ExpiryFires /\ UNCHANGED page
  BY <1>2 DEF ExpiryFires, page, shown, schedule, Types
<1>3. CASE Authorize /\ UNCHANGED page
  <2>1. PICK v \in Credentials : Holds(Issued[v], v) /\ UNCHANGED <<now, timers, shown, page>>
    BY <1>3 DEF Authorize
  <2> QED
    BY <2>1 DEF Holds, schedule, timers, page, Types, Maybe
<1>4. CASE LogOut /\ UNCHANGED page
  <2>1. PICK s \in Schemes : Holds(s, Nothing) /\ UNCHANGED <<now, timers, shown, page>>
    BY <1>4 DEF LogOut
  <2> QED
    BY <2>1 DEF Holds, schedule, timers, page, Types, Maybe
<1>5. CASE (openCredentials \/ closeCredentials \/ DialogTick) /\ UNCHANGED page
  BY <1>5 DEF openCredentials, closeCredentials, DialogTick, page, timers, Types
<1>6. ASSUME NEW op \in Ops, Execute(op)
      PROVE  Types'
  <2>1. IF Needs[op] = Nothing THEN TRUE ELSE held[Needs[op]] \in Maybe
    BY DEF Types
  <2> QED
    BY <1>6, <2>1 DEF Execute, schedule, session, timers, Types, Maybe
<1>7. ASSUME NEW op \in Ops, ArriveOk(op)
      PROVE  Types'
  <2>1. PICK v \in Maybe :
            /\ v # Nothing => Hands[op] # Nothing /\ Issued[v] = Hands[op]
            /\ Settles(op) /\ captureCredential(op, v)
            /\ notes' = [notes EXCEPT ![op] = [drawn |-> TRUE, credential |-> v, denied |-> Nothing]]
            /\ handed' = [handed EXCEPT ![op] = IF v = Nothing THEN @ ELSE @ + 1]
    BY <1>7 DEF ArriveOk, Maybe
  <2>2. /\ held' \in [Schemes -> Maybe]
        /\ \A s \in Schemes : held'[s] # Nothing => Issued[held'[s]] = s
    BY <2>1 DEF captureCredential, Types, Maybe
  <2>3. calls' \in [Ops -> [out : BOOLEAN, sent : Maybe]]
    BY <2>1 DEF Settles, Idle, Types, Maybe
  <2>4. /\ notes' \in [Ops -> [drawn : BOOLEAN, credential : Maybe, denied : Refusals]]
        /\ \A o \in Ops : notes'[o].credential # Nothing => Issued[notes'[o].credential] = Hands[o]
        /\ \A o \in Ops : notes'[o].denied # Nothing => Needs[o] # Nothing
    BY <2>1 DEF Types, Refusals
  <2>5. handed' \in [Ops -> Nat]
    BY <2>1 DEF Types
  <2> QED
    BY <2>1, <2>2, <2>3, <2>4, <2>5 DEF Settles, schedule, session, timers, Types
<1>8. ASSUME NEW op \in Ops, ArriveNotOk(op)
      PROVE  Types'
  <2>1. PICK denied \in {captureDenial(op), Nothing} :
            /\ Settles(op)
            /\ notes' = [notes EXCEPT ![op] = [NoNotes EXCEPT !.drawn = TRUE, !.denied = denied]]
            /\ UNCHANGED <<held, handed>>
    BY <1>8 DEF ArriveNotOk
  <2>2. /\ denied \in Refusals
        /\ denied # Nothing => Needs[op] # Nothing
    BY <2>1 DEF captureDenial, Refusals, Types
  <2>3. calls' \in [Ops -> [out : BOOLEAN, sent : Maybe]]
    BY <2>1 DEF Settles, Idle, Types, Maybe
  <2>4. /\ notes' \in [Ops -> [drawn : BOOLEAN, credential : Maybe, denied : Refusals]]
        /\ \A o \in Ops : notes'[o].credential # Nothing => Issued[notes'[o].credential] = Hands[o]
        /\ \A o \in Ops : notes'[o].denied # Nothing => Needs[o] # Nothing
    BY <2>1, <2>2 DEF Types, NoNotes, Maybe
  <2> QED
    BY <2>1, <2>3, <2>4 DEF Settles, schedule, session, timers, Types
<1>9. ASSUME NEW op \in Ops, ClearResponse(op)
      PROVE  Types'
  <2>1. /\ notes' \in [Ops -> [drawn : BOOLEAN, credential : Maybe, denied : Refusals]]
        /\ \A o \in Ops : /\ notes'[o].credential = notes[o].credential
                          /\ notes'[o].denied = notes[o].denied
    <3> DEFINE note == [notes[op] EXCEPT !.drawn = FALSE]
    <3>1. notes \in [Ops -> [drawn : BOOLEAN, credential : Maybe, denied : Refusals]]
      BY DEF Types
    <3>2. note \in [drawn : BOOLEAN, credential : Maybe, denied : Refusals]
          /\ note.credential = notes[op].credential /\ note.denied = notes[op].denied
      BY <3>1
    <3>3. notes' = [notes EXCEPT ![op] = note]
      BY <1>9 DEF ClearResponse
    <3> HIDE DEF note
    <3>4. notes' \in [Ops -> [drawn : BOOLEAN, credential : Maybe, denied : Refusals]]
      BY <3>1, <3>2, <3>3
    <3> QED
      BY <3>1, <3>2, <3>3, <3>4
  <2> QED
    BY <1>9, <2>1 DEF ClearResponse, schedule, session, timers, Types
<1>10. ASSUME NEW op \in Ops, UseThis(op)
       PROVE  Types'
  BY <1>10 DEF UseThis, Holds, schedule, session, timers, page, Types, Maybe
<1>11. CASE BarTick
  BY <1>11 DEF BarTick, session, timers, Types
<1>12. CASE Frame
  <2>1. \A op \in Ops : slots'[op] = PaintedSlot(op)
    BY <1>12 DEF Frame, paintResponseNotes
  <2>2. /\ \A op \in Ops : slots'[op].offers \in Maybe
        /\ \A op \in Ops : slots'[op].offers # Nothing => Issued[slots'[op].offers] = Hands[op]
    BY <2>1, PaintedSlotFacts
  <2>3. NextExpiry \in Nat \cup {Nothing}
    BY NextFacts
  <2>4. NextExpiry # Nothing => Min({NextExpiry, now + MaxTimer}) \in Nat
    <3>1. ASSUME NextExpiry # Nothing
          PROVE  Min({NextExpiry, now + MaxTimer}) \in {NextExpiry, now + MaxTimer}
      <4>1. NextExpiry \in Nat /\ now + MaxTimer \in Nat
        BY <2>3, <3>1 DEF Types
      <4> QED
        BY <4>1, MinOfNaturals
    <3> QED
      BY <2>3, <3>1 DEF Types
  <2>5. expiryTarget' \in Nat \cup {Nothing} /\ expiryTimer' \in Nat \cup {Nothing}
    BY <1>12, <2>3, <2>4 DEF Frame, paintTopbar, armExpiry, Types
  <2> QED
    BY <1>12, <2>2, <2>5 DEF Frame, Types
<1> QED
  BY <1>1, <1>2, <1>3, <1>4, <1>5, <1>6, <1>7, <1>8, <1>9, <1>10, <1>11, <1>12
     DEF AnswersNext, CredentialsNext

-----------------------------------------------------------------------------
(* What is painted stays true until a frame or a timer is due.               *)

\* Steps are of three kinds: a change that asks for a frame, a frame, and what
\* changes nothing that is painted but the time.
AsksAFrame == /\ behind' # 0 /\ now' = now
              /\ expiryTarget' = expiryTarget
              /\ expiryTimer' # expiryTimer => expiryTimer' = Nothing /\ expiryTimer <= now

Passes == /\ now' \in {now, now + 1}
          /\ UNCHANGED <<held, expiryTarget, expiryTimer, behind, tag, calls, notes, slots, handed>>
          /\ \/ sends' = sends
             \/ now' = now /\ \A op \in Ops : sends'[op] = SendsNow(op)

LEMMA Kinds ==
    ASSUME Types, [AnswersNext]_vars
    PROVE  AsksAFrame \/ Passes \/ Frame
<1>1. CASE UNCHANGED vars
  BY <1>1 DEF vars, page, Passes
<1>2. CASE (Tick \/ openCredentials \/ closeCredentials \/ DialogTick) /\ UNCHANGED page
  BY <1>2 DEF Tick, openCredentials, closeCredentials, DialogTick, page, timers, shown, Passes
<1>3. CASE (ExpiryFires \/ Authorize \/ LogOut) /\ UNCHANGED page
  BY <1>3 DEF ExpiryFires, Authorize, LogOut, Holds, schedule, timers, Types, AsksAFrame
<1>4. ASSUME NEW op \in Ops, Execute(op) \/ ArriveOk(op) \/ ArriveNotOk(op) \/ ClearResponse(op) \/ UseThis(op)
      PROVE  AsksAFrame
  <2>1. schedule /\ UNCHANGED session
    BY <1>4 DEF Execute, ArriveOk, ArriveNotOk, ClearResponse, UseThis, Settles, Holds
  <2> QED
    BY <2>1 DEF schedule, session, timers, Types, AsksAFrame
<1>5. CASE BarTick
  BY <1>5 DEF BarTick, paintActionBars, session, timers, shown, Passes
<1> QED
  BY <1>1, <1>2, <1>3, <1>4, <1>5 DEF AnswersNext, CredentialsNext

LEMMA AimedStep ==
    ASSUME Types, Aimed, [AnswersNext]_vars
    PROVE  Aimed'
<1>1. CASE AsksAFrame
  BY <1>1 DEF AsksAFrame, Aimed, Types
<1>2. CASE Passes
  BY <1>2, Constant DEF Passes, Aimed, Types
<1>3. CASE Frame
  BY <1>3, Arms, NextFacts, Constant DEF Frame, paintTopbar, Aimed
<1> QED
  BY <1>1, <1>2, <1>3, Kinds

LEMMA ArmedStep ==
    ASSUME Types, Aimed, Armed, [AnswersNext]_vars
    PROVE  Armed'
<1>1. CASE AsksAFrame
  BY <1>1 DEF AsksAFrame, Armed
<1>2. CASE Passes
  <2>1. ASSUME NEW s \in Schemes, Coming(s)'
        PROVE  Coming(s)
    BY <1>2, <2>1, Constant DEF Passes, Coming, Types, Maybe
  <2> QED
    BY <1>2, <2>1 DEF Passes, Armed, Cut
<1>3. CASE Frame
  <2>1. now' = now /\ held' = held /\ armExpiry
    BY <1>3 DEF Frame, paintTopbar
  <2>2. ASSUME NEW s \in Schemes, Coming(s)'
        PROVE  (expiryTimer' # Nothing /\ expiryTimer' <= Expiry[held'[s]]) \/ Cut(held[s])'
    <3>1. Coming(s) /\ Expiry[held[s]] \in Nat
      BY <2>1, <2>2, Constant DEF Coming, Types, Maybe
    <3>2. NextExpiry \in Nat /\ NextExpiry <= Expiry[held[s]] /\ NextExpiry # Nothing
      BY <3>1, NextFacts
    <3>3. /\ expiryTarget' = NextExpiry /\ expiryTimer' \in Nat \cup {Nothing}
          /\ expiryTimer' # Nothing => expiryTimer' <= NextExpiry
          /\ NextExpiry <= MaxTimer => expiryTimer' = NextExpiry
      BY <2>1, <3>2, Arms
    <3> QED
      BY <2>1, <3>1, <3>2, <3>3, Constant DEF Cut
  <2> QED
    BY <2>2 DEF Armed
<1> QED
  BY <1>1, <1>2, <1>3, Kinds

\* Nothing that is held expires while no timer comes due, unless unnoticed.
LEMMA NothingExpires ==
    ASSUME Types, Armed, Passes, Quiet', NEW s \in Schemes
    PROVE  /\ Quiet
           /\ Unnoticed(held[s]) => Unnoticed(held[s])'
           /\ (isExpired(held[s]) <=> isExpired(held[s])') \/ Unnoticed(held[s])'
<1>1. Quiet
  BY Constant DEF Quiet, Passes, Types
<1>2. held' = held /\ expiryTimer' = expiryTimer /\ expiryTarget' = expiryTarget
  BY DEF Passes
<1>3. isExpired(held[s]) => isExpired(held[s])'
  BY <1>2, Constant DEF isExpired, Passes, Types, Maybe
<1>4. ASSUME ~isExpired(held[s]), isExpired(held[s])'
      PROVE  Unnoticed(held[s])'
  <2>1. Coming(s) /\ Expiry[held[s]] \in Nat
    BY <1>2, <1>4, Constant DEF Coming, isExpired, Types, Maybe
  <2>2. (expiryTimer # Nothing /\ expiryTimer <= Expiry[held[s]]) \/ Cut(held[s])
    BY <1>1, <2>1 DEF Armed, Quiet
  <2>3. Expiry[held[s]] <= now'
    BY <1>2, <1>4 DEF isExpired
  <2>4. expiryTimer # Nothing => ~(expiryTimer <= now')
    BY <1>2 DEF Quiet
  <2>5. Cut(held[s])
    BY <2>1, <2>2, <2>3, <2>4, Constant DEF Types, Passes
  <2> QED
    BY <1>2, <1>4, <2>5 DEF Cut, Unnoticed
<1> QED
  BY <1>1, <1>2, <1>3, <1>4 DEF Unnoticed

\* The buttons under the responses.
LEMMA OffersStep ==
    ASSUME Types, OffersKept, [AnswersNext]_vars
    PROVE  OffersKept'
<1>1. CASE UNCHANGED <<slots, notes, handed>>
  BY <1>1 DEF OffersKept
<1>2. ASSUME NEW op \in Ops, ArriveOk(op)
      PROVE  OffersKept'
  <2>1. PICK v \in Maybe :
            /\ notes' = [notes EXCEPT ![op] = [drawn |-> TRUE, credential |-> v, denied |-> Nothing]]
            /\ handed' = [handed EXCEPT ![op] = IF v = Nothing THEN @ ELSE @ + 1]
            /\ slots' = slots
    BY <1>2 DEF ArriveOk, Settles, Maybe
  <2>2. \A o \in Ops : o # op => notes'[o] = notes[o] /\ handed'[o] = handed[o]
    BY <2>1 DEF Types
  <2>3. /\ notes'[op].credential = v
        /\ handed'[op] = IF v = Nothing THEN handed[op] ELSE handed[op] + 1
        /\ handed[op] \in Nat
    BY <2>1 DEF Types
  <2>4. ASSUME NEW o \in Ops
        PROVE  /\ slots'[o].offers # Nothing <=> slots'[o].credential = "offered"
               /\ handed'[o] = 0 => slots'[o].offers = Nothing /\ notes'[o].credential = Nothing
               /\ handed'[o] = 1 /\ slots'[o].offers # Nothing /\ notes'[o].credential # Nothing =>
                     slots'[o].offers = notes'[o].credential
    <3>1. CASE o # op
      BY <2>1, <2>2, <3>1 DEF OffersKept
    <3>2. CASE o = op
      BY <2>1, <2>3, <3>2 DEF OffersKept
    <3> QED
      BY <3>1, <3>2
  <2> QED
    BY <2>4 DEF OffersKept
<1>3. ASSUME NEW op \in Ops, ArriveNotOk(op) \/ ClearResponse(op)
      PROVE  OffersKept'
  <2>1. /\ slots' = slots /\ handed' = handed
        /\ \A o \in Ops : notes'[o].credential \in {notes[o].credential, Nothing}
    <3>1. CASE ArriveNotOk(op)
      <4>1. PICK denied \in {captureDenial(op), Nothing} :
                notes' = [notes EXCEPT ![op] = [NoNotes EXCEPT !.drawn = TRUE, !.denied = denied]]
        BY <3>1 DEF ArriveNotOk
      <4>2. [NoNotes EXCEPT !.drawn = TRUE, !.denied = denied].credential = Nothing
        BY DEF NoNotes
      <4> QED
        BY <3>1, <4>1, <4>2 DEF ArriveNotOk, Settles, Types
    <3>2. CASE ClearResponse(op)
      <4>1. [notes[op] EXCEPT !.drawn = FALSE].credential = notes[op].credential
        BY DEF Types
      <4> QED
        BY <3>2, <4>1 DEF ClearResponse, Types
    <3> QED
      BY <1>3, <3>1, <3>2
  <2> QED
    BY <2>1 DEF OffersKept
<1>4. CASE Frame
  <2>1. notes' = notes /\ handed' = handed /\ \A o \in Ops : slots'[o] = PaintedSlot(o)
    BY <1>4 DEF Frame, paintResponseNotes
  <2>2. ASSUME NEW o \in Ops
        PROVE  \/ slots'[o] = slots[o]
               \/ /\ slots'[o].credential = "offered"
                  /\ slots'[o].offers = notes[o].credential /\ notes[o].credential # Nothing
               \/ slots'[o].credential # "offered" /\ slots'[o].offers = Nothing
    <3> DEFINE sig == Signature(o)
    <3>1. sig[2] = "offered" => notes[o].credential # Nothing
      <4>1. CASE notes[o].drawn
        <5>1. sig[2] = noteState(o)
          BY <4>1 DEF Signature
        <5> QED
          BY <5>1, Constant DEF noteState
      <4>2. CASE ~notes[o].drawn
        <5>1. sig[2] = Nothing
          BY <4>2 DEF Signature
        <5> QED
          BY <5>1, Constant
      <4> QED
        BY <4>1, <4>2
    <3> HIDE DEF sig
    <3>2. PaintedSlot(o) \in {slots[o], [denied |-> sig[1], credential |-> sig[2],
              offers |-> IF sig[2] = "offered" THEN notes[o].credential ELSE Nothing]}
      BY DEF PaintedSlot, sig
    <3> QED
      BY <2>1, <3>1, <3>2
  <2> QED
    BY <2>1, <2>2 DEF OffersKept
<1> QED
  BY <1>1, <1>2, <1>3, <1>4
  DEF AnswersNext, CredentialsNext, Tick, ExpiryFires, Authorize, LogOut, openCredentials,
      closeCredentials, DialogTick, Execute, UseThis, BarTick, page, vars

\* A slot that has its signature tells what is true, whatever it was before.
LEMMA SignedIsTrue ==
    Types /\ OffersKept /\ (\A op \in Ops : SlotSignature(slots[op]) = Signature(op)) =>
        \A op \in Ops : DenialIsTrue(op) /\ OfferIsTrue(op)
<1> SUFFICES ASSUME Types, OffersKept, NEW op \in Ops, SlotSignature(slots[op]) = Signature(op)
             PROVE  DenialIsTrue(op) /\ OfferIsTrue(op)
  OBVIOUS
<1>1. slots[op].denied = Signature(op)[1] /\ slots[op].credential = Signature(op)[2]
  BY DEF SlotSignature, Signature
<1>2. /\ Signature(op)[1] = IF notes[op].drawn THEN denialState(op) ELSE Nothing
      /\ Signature(op)[2] = IF notes[op].drawn THEN noteState(op) ELSE Nothing
  BY DEF Signature
<1>3. DenialIsTrue(op)
  BY <1>1, <1>2 DEF DenialIsTrue, denialState, StateOf, isExpired
<1>4. OfferIsTrue(op)
  <2>1. notes[op].credential # Nothing => handed[op] # 0
    BY DEF OffersKept
  <2> QED
    BY <1>1, <1>2, <2>1, Constant DEF OfferIsTrue, noteState, OffersKept
<1> QED
  BY <1>3, <1>4

LEMMA PaintedStep ==
    ASSUME Types, Types', Aimed, Armed, OffersKept', Painted, [AnswersNext]_vars
    PROVE  Painted'
<1>1. CASE AsksAFrame
  BY <1>1 DEF AsksAFrame, Painted, ExpiryIsShown, NotesTellTheState, Quiet
<1>2. CASE Passes /\ Quiet'
  <2> USE Constant
  <2>1. /\ held' = held /\ calls' = calls /\ notes' = notes /\ slots' = slots /\ tag' = tag
        /\ handed' = handed
    BY <1>2 DEF Passes
  <2>2. \A s \in Schemes :
            /\ Quiet
            /\ Unnoticed(held[s]) => Unnoticed(held[s])'
            /\ (isExpired(held[s]) <=> isExpired(held[s])') \/ Unnoticed(held[s])'
    BY <1>2, NothingExpires
  <2>3. Quiet
    BY <1>2 DEF Quiet, Passes, Types
  <2>4. ASSUME NEW s \in Schemes
        PROVE  tag'[s] = StateOf(held[s])' \/ Unnoticed(held[s])'
    <3>1. tag[s] = StateOf(held[s]) \/ Unnoticed(held[s])
      BY <2>3 DEF Painted, ExpiryIsShown
    <3> QED
      BY <2>1, <2>2, <3>1 DEF StateOf
  <2>5. ASSUME NEW op \in Ops
        PROVE  \/ sends'[op] = SendsNow(op)'
               \/ Needs[op] # Nothing /\ Unnoticed(held[Needs[op]])'
    <3>1. sends'[op] = SendsNow(op) \/ (Needs[op] # Nothing /\ Unnoticed(held[Needs[op]]))
      BY <1>2, <2>3 DEF Passes, Painted, ExpiryIsShown
    <3>2. Needs[op] # Nothing => Needs[op] \in Schemes
      OBVIOUS
    <3>3. CASE Needs[op] = Nothing
      BY <2>1, <3>1, <3>3 DEF SendsNow
    <3>4. CASE Needs[op] # Nothing
      BY <2>1, <2>2, <3>1, <3>2, <3>4 DEF SendsNow, StateOf
    <3> QED
      BY <3>3, <3>4
  <2>6. ASSUME NEW op \in Ops
        PROVE  DenialIsTrue(op)' /\ OfferIsTrue(op)'
    <3>1. DenialIsTrue(op) /\ OfferIsTrue(op)
      BY <2>3 DEF Painted, NotesTellTheState
    <3>2. notes[op].denied # Nothing => Needs[op] \in Schemes
      BY DEF Types
    <3>3. DenialIsTrue(op)'
      BY <2>1, <2>2, <3>1, <3>2 DEF DenialIsTrue
    <3>4. OfferIsTrue(op)'
      BY <2>1, <3>1 DEF OfferIsTrue
    <3> QED
      BY <3>3, <3>4
  <2> QED
    BY <2>4, <2>5, <2>6 DEF Painted, ExpiryIsShown, NotesTellTheState
<1>3. CASE Frame
  <2>1. /\ now' = now /\ held' = held /\ calls' = calls /\ notes' = notes
        /\ tag' = TagNow /\ slots' = [op \in Ops |-> PaintedSlot(op)]
        /\ sends' = [op \in Ops |-> SendsNow(op)]
    BY <1>3 DEF Frame, paintTopbar, paintResponseNotes, paintActionBars
  <2>2. \A s \in Schemes : tag'[s] = StateOf(held[s])'
    BY <2>1 DEF TagNow, StateOf, isExpired
  <2>3. ASSUME NEW op \in Ops
        PROVE  sends'[op] = SendsNow(op)'
    BY <2>1 DEF SendsNow, StateOf, isExpired
  <2>4. ASSUME NEW op \in Ops
        PROVE  (SlotSignature(slots[op]) = Signature(op))'
    <3>1. slots'[op] = PaintedSlot(op) /\ SlotSignature(PaintedSlot(op)) = Signature(op)
      BY <2>1, PaintedSlotFacts
    <3>2. Signature(op)' = Signature(op)
      BY <2>1 DEF Signature, denialState, noteState, StateOf, isExpired
    <3> QED
      BY <3>1, <3>2 DEF SlotSignature
  <2>5. (\A op \in Ops : SlotSignature(slots[op]) = Signature(op))'
    BY <2>4
  <2>6. (\A op \in Ops : DenialIsTrue(op) /\ OfferIsTrue(op))'
    BY <2>5, SignedIsTrue, PTL
  <2> QED
    BY <2>2, <2>3, <2>6 DEF Painted, ExpiryIsShown, NotesTellTheState
<1>4. CASE ~Quiet'
  BY <1>4 DEF Painted, ExpiryIsShown, NotesTellTheState
<1> QED
  BY <1>1, <1>2, <1>3, <1>4, Kinds

-----------------------------------------------------------------------------
(* Theorems.                                                                *)

LEMMA InvInit == AnswersInit => Inv
<1>1. ASSUME AnswersInit
      PROVE  Inv
  <2>1. Types
    BY <1>1, TypesInit
  <2>2. /\ expiryTarget = Nothing /\ expiryTimer = Nothing /\ held = [s \in Schemes |-> Nothing]
        /\ tag = TagNow /\ \A op \in Ops : sends[op] = SendsNow(op)
    BY <1>1 DEF AnswersInit, CredentialsInit
  <2>3. Aimed /\ Armed
    BY <2>2 DEF Aimed, Armed, Coming
  <2>4. OffersKept
    <3>1. \A op \in Ops : /\ slots[op].offers = Nothing /\ slots[op].credential = Nothing
                          /\ notes[op].credential = Nothing
      BY <1>1 DEF AnswersInit, NoSlot, NoNotes
    <3> QED
      BY <3>1, Constant DEF OffersKept
  <2>5. ASSUME NEW op \in Ops
        PROVE  DenialIsTrue(op) /\ OfferIsTrue(op)
    BY <1>1 DEF AnswersInit, NoSlot, NoNotes, DenialIsTrue, OfferIsTrue
  <2>6. ExpiryIsShown
    BY <2>2 DEF ExpiryIsShown, TagNow
  <2> QED
    BY <2>1, <2>3, <2>4, <2>5, <2>6 DEF Inv, Painted, NotesTellTheState
<1> QED
  BY <1>1

LEMMA InvStep == Inv /\ [AnswersNext]_vars => Inv'
<1>1. Types /\ [AnswersNext]_vars => Types'
  <2>1. Types /\ UNCHANGED vars => Types'
    BY DEF vars, page, Types
  <2> QED
    BY <2>1, TypesStep
<1> QED
  BY <1>1, AimedStep, ArmedStep, OffersStep, PaintedStep DEF Inv

\* Types, and that every credential is kept under the scheme it was issued for.
THEOREM AnswersTypes == AnswersSpec => []AnswersOK
<1>1. Types /\ [AnswersNext]_vars => Types'
  <2>1. Types /\ UNCHANGED vars => Types'
    BY DEF vars, page, Types
  <2> QED
    BY <2>1, TypesStep
<1>2. Types => AnswersOK
  BY Constant DEF Types, AnswersOK, CredentialsOK, authorizedScopes, Maybe
<1> QED
  BY <1>1, <1>2, TypesInit, PTL DEF AnswersSpec

\* Once no frame and no timer is due the tag and the bars say what is held and
\* whether it still works, but for a token that expires further ahead than a
\* browser's timer can wait, after its timer was cut short and fired
\* (auth.armExpiry).
THEOREM ExpiryAlwaysShown == AnswersSpec => []ExpiryIsShown
<1>1. Inv => ExpiryIsShown
  BY DEF Inv, Painted
<1> QED
  BY <1>1, InvInit, InvStep, PTL DEF AnswersSpec

\* The notes under the responses say what is true of Authorize, whichever way it
\* changed since they were painted: a refusal is told of the credential its call
\* went out with, where Authorize still held that when the refusal arrived, and a
\* button offers the credential the answer handed on, where no other answer of the
\* operation had (responses.captureDenial, paintResponseNotes).
THEOREM NotesAlwaysTell == AnswersSpec => []NotesTellTheState
<1>1. Inv => NotesTellTheState
  BY DEF Inv, Painted
<1> QED
  BY <1>1, InvInit, InvStep, PTL DEF AnswersSpec

-----------------------------------------------------------------------------
(* An operation: the calls by number.                                       *)

Numbers == 1 .. Len(sent)

\* The store's request is the last call of its operation, its response no later one.
Asked ==
    /\ text \in [Operations -> Texts] /\ sent \in Seq(Texts)
    /\ request \in [Operations -> {None} \cup [call : Nat, body : Texts]]
    /\ response \in [Operations -> {None} \cup [call : Nat, status : Statuses, budget : Nat \cup {None}]]
    /\ \A op \in Operations : request[op] # None =>
          request[op].call \in Numbers /\ request[op].body = sent[request[op].call]
    /\ \A op \in Operations : response[op] # None =>
          /\ request[op] # None /\ response[op].call \in Nat \ {0} /\ response[op].call <= request[op].call
          /\ IF op \in pending THEN response[op].call < request[op].call
                               ELSE response[op].call = request[op].call
    /\ \A op \in pending : op \in Operations /\ request[op] # None

Tones == {"wait", "bad", "ok"}
HistoryEntries == [call : Nat, tone : Tones, body : Texts]

\* What an entry of the history says of its call.
Honest(entry) ==
    /\ entry.call \in Numbers
    /\ \E n \in entry.call .. Len(sent) : entry.body = sent[n]

Kept(op) ==
    /\ callHistory[op] = <<>> \/ historySeen[op] # None
    /\ historySeen[op] # None => /\ response[op] # None
                                 /\ historySeen[op] \in Nat /\ historySeen[op] <= response[op].call
    /\ callHistory[op] \in Seq(HistoryEntries)
    /\ \A i \in DOMAIN callHistory[op] :
          /\ Honest(callHistory[op][i]) /\ callHistory[op][i].call <= historySeen[op]
          /\ \A j \in DOMAIN callHistory[op] : i < j => callHistory[op][i].call > callHistory[op][j].call

\* The first entry is of the answer that was captured last, with its body and tone
\* unless there is a later one to capture.
Newest(op) == historySeen[op] # None =>
    /\ callHistory[op] # <<>> /\ callHistory[op][1].call = historySeen[op]
    /\ request[op].call = historySeen[op] => callHistory[op][1].body = request[op].body
    /\ response[op].call = historySeen[op] =>
          callHistory[op][1].tone = toneOf(response[op].status)

\* A sheet is signed for one status of one call, and shows the body of that call
\* unless a later one had gone out.
Signed(op) ==
    /\ \E status \in Statuses : /\ sheet[op].signature = SheetSignature([status |-> status, call |-> sheet[op].call])
                                /\ sheet[op].tone = toneOf(status)
    /\ request[op] # None /\ sheet[op].call \in Nat /\ sheet[op].call <= request[op].call
    /\ sheet[op].call = request[op].call => sheet[op].request = request[op].body

Fresh ==
    /\ latest.answer # None => bar.status = latest.answer.status /\ bar.budget = latest.budget
    /\ \A op \in open : response[op] # None =>
          /\ sheet[op] # None /\ sheet[op].signature = SheetSignature(response[op])
          /\ row[op] = toneOf(response[op].status)

\* What a frame has told of every operation, open or closed.
Told == \A op \in Operations : response[op] # None =>
            historySeen[op] = response[op].call /\ row[op] = toneOf(response[op].status)

OpInv ==
    /\ Asked
    /\ open \subseteq Operations
    /\ DOMAIN callHistory = Operations /\ DOMAIN historySeen = Operations /\ DOMAIN sheet = Operations
    /\ \A op \in Operations : Kept(op) /\ Newest(op)
    /\ \A op \in Operations : sheet[op] # None => Signed(op)
    /\ ~stale => Fresh /\ Told

LEMMA OpConstant ==
    /\ Example \in Texts /\ HISTORY_SIZE \in Nat \ {0}
    /\ None \notin Nat
    /\ None \notin [call : Nat, body : Texts]
    /\ None \notin [call : Nat, status : Nat \cup {None}, budget : Nat \cup {None}]
    /\ None \notin [signature : Seq(Nat \cup {None}), call : Nat, tone : Tones, request : Texts]
BY OperationAssumption DEF Tones

LEMMA OpInit == OperationInit => OpInv
BY OpConstant DEF OperationInit, OpInv, Asked, Kept, Newest, Fresh, Told, Numbers

\* The calls stay what they were while others are sent.
LEMMA SentGrows ==
    ASSUME sent \in Seq(Texts), NEW t \in Texts, sent' = Append(sent, t)
    PROVE  /\ sent' \in Seq(Texts) /\ Len(sent') = Len(sent) + 1 /\ Len(sent) \in Nat
           /\ \A n \in Numbers : n \in Numbers' /\ sent'[n] = sent[n]
           /\ Len(sent') \in Numbers' /\ sent'[Len(sent')] = t
BY DEF Numbers

\* Signatures tell calls apart that got an answer.
LEMMA SignaturesDiffer ==
    ASSUME NEW s1 \in Statuses, NEW s2 \in Statuses, NEW c1, NEW c2,
           SheetSignature([status |-> s1, call |-> c1]) = SheetSignature([status |-> s2, call |-> c2])
    PROVE  s1 = s2 /\ (s1 # None => c1 = c2)
<1>1. CASE s1 = None /\ s2 # None
  BY <1>1 DEF SheetSignature
<1>2. CASE s1 # None /\ s2 = None
  BY <1>2 DEF SheetSignature
<1>3. CASE s1 # None /\ s2 # None
  BY <1>3 DEF SheetSignature
<1> QED
  BY <1>1, <1>2, <1>3

LEMMA SameSheet ==
    ASSUME NEW op \in Operations, Signed(op), sheet'[op] = sheet[op], request'[op] = request[op]
    PROVE  Signed(op)'
BY DEF Signed

LEMMA SameHistory ==
    ASSUME NEW op \in Operations, Kept(op), Newest(op),
           UNCHANGED <<callHistory, historySeen, sent, request, response>>
    PROVE  Kept(op)' /\ Newest(op)'
<1>1. Kept(op)'
  BY DEF Kept, Honest, Numbers
<1>2. Newest(op)'
  BY DEF Newest
<1> QED
  BY <1>1, <1>2

\* What changes no call and nothing that is painted.
LEMMA OpKept ==
    ASSUME OpInv, UNCHANGED <<open, request, pending, response, latest, paintedVars, stale, sent>>,
           text' \in [Operations -> Texts]
    PROVE  OpInv'
<1>1. Asked'
  BY DEF OpInv, Asked, Numbers
<1>2. \A o \in Operations : Kept(o)' /\ Newest(o)'
  BY SameHistory DEF OpInv, paintedVars
<1>3. \A o \in Operations : sheet'[o] # None => Signed(o)'
  BY SameSheet DEF OpInv, paintedVars
<1>4. (Fresh <=> Fresh') /\ (Told <=> Told')
  BY DEF Fresh, Told, paintedVars
<1> QED
  BY <1>1, <1>2, <1>3, <1>4 DEF OpInv, paintedVars

LEMMA ToggleKept ==
    ASSUME OpInv, NEW op \in Operations, Toggle(op)
    PROVE  OpInv'
<1>1. stale' /\ open' \subseteq Operations
  BY DEF OpInv, Toggle
<1>2. Asked'
  BY DEF OpInv, Toggle, Asked, Numbers, editorVars
<1>3. \A o \in Operations : Kept(o)' /\ Newest(o)'
  BY SameHistory DEF OpInv, Toggle
<1>4. \A o \in Operations : sheet'[o] # None => Signed(o)'
  BY SameSheet DEF OpInv, Toggle
<1> QED
  BY <1>1, <1>2, <1>3, <1>4 DEF OpInv, Toggle

LEMMA EditorKept ==
    ASSUME OpInv, NEW op \in Operations, Type(op) \/ Edit(op) \/ Load(op)
    PROVE  OpInv'
<1>1. text' \in [Operations -> Texts]
  <2>1. text \in [Operations -> Texts]
    BY DEF OpInv, Asked
  <2>2. CASE Type(op)
    BY <2>1, <2>2 DEF Type, setAreaValue
  <2>3. CASE Edit(op)
    BY <2>1, <2>3 DEF Edit
  <2>4. CASE Load(op)
    <3>1. PICK i \in DOMAIN callHistory[op] : text' = [text EXCEPT ![op] = callHistory[op][i].body]
      BY <2>4 DEF Load, setAreaValue
    <3>2. callHistory[op][i].body \in Texts
      <4>1. callHistory[op][i] \in HistoryEntries
        BY DEF OpInv, Kept
      <4> QED
        BY <4>1 DEF HistoryEntries
    <3> QED
      BY <2>1, <3>1, <3>2
  <2> QED
    BY <2>2, <2>3, <2>4
<1>2. UNCHANGED <<open, request, pending, response, latest, paintedVars, stale, sent>>
  BY DEF Type, Edit, Load
<1> QED
  BY <1>1, <1>2, OpKept

LEMMA ExecuteKept ==
    ASSUME OpInv, NEW op \in Operations, ExecuteBody(op)
    PROVE  OpInv'
<1> DEFINE asking == [call |-> Len(sent) + 1, body |-> text[op]]
<1>1. sent \in Seq(Texts) /\ text[op] \in Texts /\ sent' = Append(sent, text[op])
  BY DEF OpInv, Asked, ExecuteBody
<1>2. asking \in [call : Nat, body : Texts] /\ asking # None
  BY <1>1, OpConstant
<1>3. /\ request' = [request EXCEPT ![op] = asking] /\ pending' = pending \cup {op} /\ stale'
      /\ UNCHANGED <<open, text, response, latest, sheet, row, bar, callHistory, historySeen>>
  BY DEF ExecuteBody, editorVars, paintedVars
<1>4. \A n \in Numbers : n \in Numbers' /\ sent'[n] = sent[n]
  BY <1>1, SentGrows
<1>5. asking.call \in Numbers' /\ asking.body = sent'[asking.call]
  BY <1>1, SentGrows
<1>6. \A o \in Operations : request[o] # None => request[o].call \in Nat /\ request[o].call < asking.call
  BY <1>1 DEF OpInv, Asked, Numbers
<1> HIDE DEF asking
<1>7. Asked'
  <2>1. sent' \in Seq(Texts)
    BY <1>1, SentGrows
  <2>2. request' \in [Operations -> {None} \cup [call : Nat, body : Texts]]
    BY <1>2, <1>3 DEF OpInv, Asked
  <2>3. \A o \in Operations : request'[o] # None =>
            request'[o].call \in Numbers' /\ request'[o].body = sent'[request'[o].call]
    BY <1>3, <1>4, <1>5 DEF OpInv, Asked
  <2>4. \A o \in Operations : response[o] # None =>
            /\ request'[o] # None /\ response[o].call \in Nat \ {0} /\ response[o].call <= request'[o].call
            /\ IF o \in pending' THEN response[o].call < request'[o].call
                                 ELSE response[o].call = request'[o].call
    BY <1>2, <1>3, <1>6 DEF OpInv, Asked
  <2>5. \A o \in pending' : o \in Operations /\ request'[o] # None
    BY <1>2, <1>3 DEF OpInv, Asked
  <2> QED
    BY <1>3, <2>1, <2>2, <2>3, <2>4, <2>5 DEF OpInv, Asked
<1>8. ASSUME NEW o \in Operations
      PROVE  Kept(o)' /\ Newest(o)'
  <2>1. Kept(o) /\ Newest(o)
    BY DEF OpInv
  <2>2. \A e : Honest(e) => Honest(e)'
    BY <1>1, <1>4, SentGrows DEF Honest, Numbers
  <2>3. Kept(o)'
    BY <1>3, <2>1, <2>2 DEF Kept
  <2>4. CASE o = op
    <3>1. request'[o] = asking
      BY <1>3, <2>4 DEF OpInv, Asked
    <3>2. historySeen[o] # None => historySeen[o] \in Nat /\ historySeen[o] < asking.call
      BY <1>1, <1>2, <1>6, <2>1, OpConstant DEF Kept, OpInv, Asked
    <3> QED
      BY <1>3, <2>1, <2>3, <3>1, <3>2 DEF Newest
  <2>5. CASE o # op
    BY <1>3, <2>1, <2>3, <2>5 DEF Newest, OpInv, Asked
  <2> QED
    BY <2>3, <2>4, <2>5
<1>9. ASSUME NEW o \in Operations, sheet'[o] # None
      PROVE  Signed(o)'
  <2>1. Signed(o) /\ sheet'[o] = sheet[o]
    BY <1>3, <1>9 DEF OpInv
  <2>2. CASE o = op
    <3>1. request'[o] = asking
      BY <1>3, <2>2 DEF OpInv, Asked
    <3>2. sheet[o].call \in Nat /\ sheet[o].call <= request[o].call /\ request[o] # None
      BY <2>1 DEF Signed
    <3>3. sheet[o].call < asking.call
      BY <1>2, <1>6, <3>2
    <3> QED
      BY <1>2, <2>1, <3>1, <3>2, <3>3 DEF Signed
  <2>3. CASE o # op
    BY <1>3, <2>1, <2>3, SameSheet DEF OpInv, Asked
  <2> QED
    BY <2>2, <2>3
<1> QED
  BY <1>3, <1>7, <1>8, <1>9 DEF OpInv

LEMMA AnswerKept ==
    ASSUME OpInv, NEW op \in Operations, Answer(op)
    PROVE  OpInv'
<1>1. PICK r \in [call : Nat, status : Statuses, budget : Nat \cup {None}] :
          /\ r.call = request[op].call /\ op \in pending /\ pending' = pending \ {op}
          /\ response' = [response EXCEPT ![op] = r] /\ stale'
          /\ UNCHANGED <<open, editorVars, request, paintedVars, sent>>
  <2>1. PICK status \in Statuses :
            LET r == [call |-> request[op].call, status |-> status,
                      budget |-> IF status = None THEN None ELSE request[op].call]
            IN  /\ op \in pending /\ pending' = pending \ {op}
                /\ response' = [response EXCEPT ![op] = r] /\ stale' = TRUE
                /\ UNCHANGED <<open, editorVars, request, paintedVars, sent>>
    BY DEF Answer
  <2>2. op \in pending /\ request[op] # None /\ request[op].call \in Nat
    BY <2>1 DEF OpInv, Asked, Numbers
  <2> DEFINE r == [call |-> request[op].call, status |-> status,
                   budget |-> IF status = None THEN None ELSE request[op].call]
  <2>3. r \in [call : Nat, status : Statuses, budget : Nat \cup {None}]
    BY <2>2
  <2>4. response' = [response EXCEPT ![op] = r] /\ r.call = request[op].call
    BY <2>1
  <2> HIDE DEF r
  <2> QED
    BY <2>1, <2>3, <2>4
<1>2. r # None
  <2>1. r \in [call : Nat, status : Nat \cup {None}, budget : Nat \cup {None}]
    BY DEF Statuses
  <2> QED
    BY <2>1, OpConstant
<1>3. request[op] # None /\ request[op].call \in Nat \ {0}
  BY <1>1 DEF OpInv, Asked, Numbers
<1>4. Asked'
  BY <1>1, <1>2, <1>3 DEF OpInv, Asked, editorVars, Numbers
<1>5. ASSUME NEW o \in Operations
      PROVE  Kept(o)' /\ Newest(o)'
  <2>1. /\ callHistory' = callHistory /\ historySeen' = historySeen /\ sent' = sent
        /\ response[o] # None => response'[o] # None /\ response[o].call <= response'[o].call
                                 /\ response[o].call \in Nat /\ response'[o].call \in Nat
    BY <1>1, <1>2, <1>3 DEF OpInv, Asked, paintedVars
  <2>2. Kept(o) /\ Newest(o)
    BY DEF OpInv
  <2>3. Kept(o)'
    BY <2>1, <2>2 DEF Kept, Honest, Numbers
  <2>4. historySeen[o] # None => \/ response'[o] = response[o]
                                 \/ response'[o].call # historySeen[o]
    BY <1>1, <1>2, <1>3, <2>2 DEF Kept, OpInv, Asked
  <2> QED
    BY <1>1, <2>1, <2>2, <2>3, <2>4 DEF Newest
<1>6. \A o \in Operations : sheet'[o] # None => Signed(o)'
  BY <1>1, SameSheet DEF OpInv, paintedVars
<1> QED
  BY <1>1, <1>4, <1>5, <1>6 DEF OpInv, paintedVars

LEMMA FrameKept ==
    ASSUME OpInv, OperationFrame
    PROVE  OpInv'
<1>1. /\ ~stale' /\ UNCHANGED <<open, text, verdict, request, pending, response, latest, sent>>
      /\ paintResults /\ captureHistory /\ paintLastAnswers /\ paintStatusTelemetry
  BY DEF OperationFrame
<1>2. Asked'
  BY <1>1 DEF OpInv, Asked, Numbers
<1>3. ASSUME NEW op \in Operations
      PROVE  Kept(op)' /\ Newest(op)'
  <2>1. callHistory'[op] = Captured(op)
    BY <1>1 DEF captureHistory
  <2>2. historySeen'[op] = IF response[op] = None THEN None ELSE response[op].call
    BY <1>1 DEF captureHistory
  <2>3. /\ Kept(op) /\ Newest(op) /\ response'[op] = response[op] /\ request'[op] = request[op]
        /\ sent' = sent
    BY <1>1 DEF OpInv
  <2>4. response[op] # None => /\ response[op].call \in Nat \ {0} /\ response[op].call # None
                               /\ request[op] # None /\ response[op].call <= request[op].call
                               /\ request[op].call \in Numbers /\ request[op].body = sent[request[op].call]
                               /\ request[op].body \in Texts
    BY OpConstant DEF OpInv, Asked
  <2>5. CASE response[op] = None \/ historySeen[op] = response[op].call
    <3>1. callHistory'[op] = callHistory[op] /\ historySeen'[op] = historySeen[op]
      BY <2>1, <2>2, <2>3, <2>5 DEF Captured, Kept
    <3> QED
      BY <2>3, <3>1, SameHistory DEF Kept, Newest, Honest, Numbers
  <2>6. CASE response[op] # None /\ historySeen[op] # response[op].call
    <3> DEFINE h == callHistory[op]
               all == <<Entry(op)>> \o h
               n == IF Len(all) < HISTORY_SIZE THEN Len(all) ELSE HISTORY_SIZE
    <3>1. h \in Seq(HistoryEntries) /\ Entry(op) \in HistoryEntries
      <4>1. toneOf(response[op].status) \in Tones
        BY DEF toneOf, Tones
      <4>2. Entry(op) \in HistoryEntries
        BY <2>4, <2>6, <4>1 DEF HistoryEntries, Entry, BodyOf
      <4> QED
        BY <2>3, <4>2 DEF Kept
    <3>2. /\ all \in Seq(HistoryEntries) /\ Len(all) = Len(h) + 1
          /\ all[1] = Entry(op) /\ \A i \in 1 .. Len(h) : all[i + 1] = h[i]
      BY <3>1
    <3>3. n \in 1 .. Len(all) /\ n \in Nat
      BY <3>1, <3>2, OpConstant
    <3>4. callHistory'[op] = SubSeq(all, 1, n)
      BY <2>1, <2>6 DEF Captured
    <3> HIDE DEF all, n
    <3>5. /\ callHistory'[op] \in Seq(HistoryEntries) /\ Len(callHistory'[op]) = n
          /\ \A i \in 1 .. n : callHistory'[op][i] = all[i]
      BY <3>2, <3>3, <3>4
    <3>6. Honest(Entry(op)) /\ Entry(op).call = response[op].call
      <4>1. response[op].call \in Numbers
        BY <2>4, <2>6 DEF Numbers, OpInv, Asked
      <4>2. /\ Entry(op).call = response[op].call /\ Entry(op).body = request[op].body
        BY DEF Entry, BodyOf
      <4>3. request[op].call \in response[op].call .. Len(sent)
        BY <2>4, <2>6 DEF Numbers
      <4> QED
        BY <2>4, <2>6, <4>1, <4>2, <4>3 DEF Honest
    <3>7. \A i \in 1 .. Len(h) : /\ Honest(h[i]) /\ historySeen[op] \in Nat
                                  /\ h[i].call \in Nat /\ h[i].call < response[op].call
      <4>1. \A i \in 1 .. Len(h) : h[i] \in HistoryEntries /\ i \in DOMAIN h
        BY <3>1
      <4>2. ASSUME NEW i \in 1 .. Len(h)
            PROVE  h[i].call \in Nat /\ Honest(h[i]) /\ h[i].call <= historySeen[op]
        <5>1. h[i].call \in Nat
          BY <4>1 DEF HistoryEntries
        <5> QED
          BY <2>3, <4>1, <5>1 DEF Kept
      <4>3. Len(h) # 0 => historySeen[op] \in Nat /\ historySeen[op] < response[op].call
        BY <2>3, <2>4, <2>6, <3>1 DEF Kept
      <4> QED
        BY <2>4, <2>6, <4>2, <4>3, <3>1
    <3>8. \A i, j \in 1 .. Len(h) : i < j => h[i].call > h[j].call
      BY <2>3, <3>1 DEF Kept
    <3>9. \A j \in 1 .. n : 1 < j => j - 1 \in 1 .. Len(h) /\ all[j] = h[j - 1]
      BY <3>1, <3>2, <3>3
    <3> HIDE DEF h
    <3>10. ASSUME NEW i \in 1 .. n
           PROVE  /\ Honest(all[i]) /\ all[i].call <= response[op].call
                  /\ \A j \in 1 .. n : i < j => all[i].call > all[j].call
      <4>1. CASE i = 1
        <5>1. all[i] = Entry(op) /\ Honest(all[i]) /\ all[i].call = response[op].call
          BY <3>2, <3>6, <4>1
        <5>2. response[op].call \in Nat
          BY <2>4, <2>6
        <5>3. \A j \in 1 .. n : i < j => all[j].call \in Nat /\ all[j].call < response[op].call
          BY <3>7, <3>9, <4>1
        <5> QED
          BY <5>1, <5>2, <5>3
      <4>2. CASE i # 1
        <5>1. i - 1 \in 1 .. Len(h) /\ all[i] = h[i - 1]
          BY <3>3, <3>9, <4>2
        <5>2. \A j \in 1 .. n : i < j => h[i - 1].call > all[j].call
          <6>1. ASSUME NEW j \in 1 .. n, i < j
                PROVE  h[i - 1].call > all[j].call
            <7>1. j - 1 \in 1 .. Len(h) /\ all[j] = h[j - 1] /\ i - 1 < j - 1
              BY <3>3, <3>9, <4>2, <6>1
            <7> QED
              BY <3>8, <5>1, <7>1
          <6> QED
            BY <6>1
        <5> QED
          BY <2>4, <2>6, <3>7, <5>1, <5>2
      <4> QED
        BY <4>1, <4>2
    <3>11. DOMAIN callHistory'[op] = 1 .. n
      BY <3>3, <3>5
    <3> QED
      <4>1. sent' = sent /\ response'[op] = response[op] /\ historySeen'[op] = response[op].call
        BY <1>1, <2>2, <2>6
      <4>2. \A e : Honest(e) => Honest(e)'
        BY <4>1 DEF Honest, Numbers
      <4>3. \A i \in 1 .. n : /\ callHistory'[op][i].call \in Numbers'
                              /\ \E k \in callHistory'[op][i].call .. Len(sent') :
                                    callHistory'[op][i].body = sent'[k]
        BY <3>5, <3>10, <4>2 DEF Honest
      <4>4. \A i \in 1 .. n : callHistory'[op][i].call <= historySeen'[op]
        BY <3>5, <3>10, <4>1
      <4>5. \A i, j \in 1 .. n : i < j => callHistory'[op][i].call > callHistory'[op][j].call
        BY <3>5, <3>10
      <4>6. Kept(op)'
        BY <2>4, <2>6, <3>5, <3>11, <4>1, <4>3, <4>4, <4>5 DEF Kept, Honest
      <4>7. callHistory'[op][1] = Entry(op) /\ callHistory'[op] # <<>>
        BY <3>2, <3>3, <3>5
      <4> QED
        BY <2>3, <4>1, <4>6, <4>7 DEF Newest, Entry, BodyOf
  <2> QED
    BY <2>5, <2>6
<1>4. ASSUME NEW op \in Operations, sheet'[op] # None
      PROVE  Signed(op)'
  <2>1. request'[op] = request[op]
    BY <1>1
  <2>2. CASE op \in Redrawn
    <3> DEFINE painted == [signature |-> SheetSignature(response[op]), call |-> response[op].call,
                           tone |-> toneOf(response[op].status), request |-> request[op].body]
    <3>1. sheet'[op] = painted
      BY <1>1, <2>2 DEF paintResults
    <3>2. /\ response[op] # None /\ request[op] # None /\ response[op].status \in Statuses
          /\ response[op].call \in Nat /\ response[op].call <= request[op].call
      BY <2>2 DEF Redrawn, OpInv, Asked
    <3>3. SheetSignature(response[op]) = SheetSignature([status |-> response[op].status, call |-> response[op].call])
      BY DEF SheetSignature
    <3> QED
      BY <2>1, <3>1, <3>2, <3>3 DEF Signed
  <2>3. CASE op \notin Redrawn
    <3>1. sheet'[op] = sheet[op]
      BY <1>1, <1>4, <2>3 DEF paintResults
    <3> QED
      BY <1>4, <2>1, <3>1, SameSheet DEF OpInv
  <2> QED
    BY <2>2, <2>3
<1>5. Fresh' /\ Told'
  <2>1. latest'.answer # None => bar'.status = latest'.answer.status /\ bar'.budget = latest'.budget
    BY <1>1 DEF paintStatusTelemetry
  <2>2. ASSUME NEW op \in open, response[op] # None
        PROVE  /\ op \in Operations
               /\ sheet'[op] # None /\ sheet'[op].signature = SheetSignature(response[op])
               /\ row'[op] = toneOf(response[op].status)
    <3>1. op \in Operations
      BY DEF OpInv
    <3>2. row'[op] = toneOf(response[op].status)
      BY <1>1, <2>2, <3>1 DEF paintLastAnswers
    <3>3. CASE op \in Redrawn
      <4> DEFINE painted == [signature |-> SheetSignature(response[op]), call |-> response[op].call,
                             tone |-> toneOf(response[op].status), request |-> request[op].body]
      <4>1. sheet'[op] = painted
        BY <1>1, <3>1, <3>3 DEF paintResults
      <4>2. painted # None
        <5>1. response[op] \in [call : Nat, status : Statuses, budget : Nat \cup {None}]
              /\ request[op] \in [call : Nat, body : Texts]
          BY <2>2, <3>1 DEF OpInv, Asked
        <5>2. SheetSignature(response[op]) \in Seq(Nat \cup {None}) /\ toneOf(response[op].status) \in Tones
          <6>1. toneOf(response[op].status) \in Tones
            BY DEF toneOf, Tones
          <6>2. response[op].status \in Nat \cup {None} /\ response[op].call \in Nat \cup {None}
            BY <5>1 DEF Statuses
          <6>3. CASE response[op].status = None
            BY <6>1, <6>2, <6>3 DEF SheetSignature
          <6>4. CASE response[op].status # None
            <7> DEFINE s == response[op].status
                       c == response[op].call
            <7>1. SheetSignature(response[op]) = <<s, c>>
              BY <6>4 DEF SheetSignature
            <7>2. s \in Nat \cup {None} /\ c \in Nat \cup {None}
              BY <6>2
            <7> HIDE DEF s, c
            <7>3. <<s, c>> \in Seq(Nat \cup {None})
              BY <7>2
            <7> QED
              BY <6>1, <7>1, <7>3
          <6> QED
            BY <6>3, <6>4
        <5> QED
          BY <5>1, <5>2, OpConstant
      <4> QED
        BY <3>1, <3>2, <4>1, <4>2
    <3>4. CASE op \notin Redrawn
      <4>1. sheet'[op] = sheet[op] /\ sheet[op] # None /\ sheet[op].signature = SheetSignature(response[op])
        BY <1>1, <2>2, <3>1, <3>4 DEF paintResults, Redrawn
      <4> QED
        BY <3>1, <3>2, <4>1
    <3> QED
      BY <3>3, <3>4
  <2>3. open' = open /\ response' = response
    BY <1>1
  <2>4. \A op \in Operations : response[op] # None =>
            historySeen'[op] = response[op].call /\ row'[op] = toneOf(response[op].status)
    BY <1>1 DEF captureHistory, paintLastAnswers
  <2> QED
    BY <2>1, <2>2, <2>3, <2>4 DEF Fresh, Told
<1> QED
  BY <1>1, <1>2, <1>3, <1>4, <1>5 DEF OpInv, paintResults, captureHistory

LEMMA OpStep == OpInv /\ [OperationNext]_opVars => OpInv'
<1> SUFFICES ASSUME OpInv, [OperationNext]_opVars
             PROVE  OpInv'
  OBVIOUS
<1>1. CASE UNCHANGED opVars
  <2>1. text' \in [Operations -> Texts]
    BY <1>1 DEF opVars, editorVars, OpInv, Asked
  <2> QED
    BY <1>1, <2>1, OpKept DEF opVars, editorVars, paintedVars
<1>2. CASE OperationNext
  BY <1>2, FrameKept, ToggleKept, EditorKept, ExecuteKept, AnswerKept DEF OperationNext
<1> QED
  BY <1>1, <1>2

LEMMA OpSays == OpInv => SheetIsTheAnswer /\ HistoryHasTheAnswer
<1> SUFFICES ASSUME OpInv
             PROVE  SheetIsTheAnswer /\ HistoryHasTheAnswer
  OBVIOUS
<1>1. HistoryHasTheAnswer
  <2> SUFFICES ASSUME NEW op \in Operations
               PROVE  LET history == callHistory[op]
                      IN  /\ \A i, j \in DOMAIN history : i < j => history[i].call > history[j].call
                          /\ \A i \in DOMAIN history :
                                \E n \in history[i].call .. Len(sent) : history[i].body = sent[n]
                          /\ ~stale /\ op \notin pending /\ response[op] # None =>
                                /\ history # <<>>
                                /\ history[1].call = response[op].call
                                /\ history[1].body = sent[response[op].call]
                                /\ history[1].tone = row[op]
    BY DEF HistoryHasTheAnswer
  <2>1. Kept(op) /\ Newest(op)
    BY DEF OpInv
  <2>2. ASSUME ~stale, op \notin pending, response[op] # None
        PROVE  /\ callHistory[op] # <<>> /\ callHistory[op][1].call = response[op].call
               /\ callHistory[op][1].body = sent[response[op].call]
               /\ callHistory[op][1].tone = row[op]
    <3>1. historySeen[op] = response[op].call /\ row[op] = toneOf(response[op].status)
      BY <2>2 DEF OpInv, Told
    <3>2. /\ historySeen[op] # None /\ request[op].call = response[op].call
          /\ request[op].body = sent[request[op].call]
      BY <2>2, <3>1, OpConstant DEF OpInv, Asked
    <3> QED
      BY <2>1, <3>1, <3>2 DEF Newest
  <2> QED
    BY <2>1, <2>2 DEF Kept, Honest
<1>2. ASSUME ~stale
      PROVE  /\ latest.answer # None => bar.status = latest.answer.status /\ bar.budget = latest.budget
             /\ \A op \in open \ pending : response[op] # None /\ response[op].status # None =>
                   /\ sheet[op] # None /\ sheet[op].call = response[op].call
                   /\ sheet[op].request = sent[response[op].call]
                   /\ row[op] = sheet[op].tone
  <2>1. Fresh
    BY <1>2 DEF OpInv
  <2>2. ASSUME NEW op \in open \ pending, response[op] # None, response[op].status # None
        PROVE  /\ sheet[op] # None /\ sheet[op].call = response[op].call
               /\ sheet[op].request = sent[response[op].call]
               /\ row[op] = sheet[op].tone
    <3>1. /\ op \in Operations /\ sheet[op] # None
          /\ sheet[op].signature = SheetSignature(response[op])
          /\ row[op] = toneOf(response[op].status)
      BY <2>1, <2>2 DEF Fresh, OpInv
    <3>2. PICK status \in Statuses :
              /\ sheet[op].signature = SheetSignature([status |-> status, call |-> sheet[op].call])
              /\ sheet[op].tone = toneOf(status)
      BY <3>1 DEF OpInv, Signed
    <3>3. /\ response[op].status \in Statuses /\ response[op].call = request[op].call
          /\ request[op] # None /\ request[op].body = sent[request[op].call]
      BY <2>2, <3>1 DEF OpInv, Asked
    <3>4. SheetSignature(response[op]) =
              SheetSignature([status |-> response[op].status, call |-> response[op].call])
      BY DEF SheetSignature
    <3>5. status = response[op].status /\ sheet[op].call = response[op].call
      <4>1. SheetSignature([status |-> status, call |-> sheet[op].call]) =
                SheetSignature([status |-> response[op].status, call |-> response[op].call])
        BY <3>1, <3>2, <3>4
      <4> QED
        BY <2>2, <3>3, <4>1, SignaturesDiffer
    <3>6. sheet[op].request = request[op].body
      BY <3>1, <3>3, <3>5 DEF OpInv, Signed
    <3> QED
      BY <3>1, <3>2, <3>3, <3>5, <3>6
  <2> QED
    BY <2>1, <2>2 DEF Fresh
<1> QED
  BY <1>1, <1>2 DEF SheetIsTheAnswer

OperationSpec == OperationInit /\ [][OperationNext]_opVars

\* Once a frame is painted, whatever was typed, opened, closed and answered since
\* the last one, the sheet, the row and the statusbar tell the last answer, over the
\* body its call sent (result.paintResults, statusbar.paintStatusTelemetry).
THEOREM SheetIsAlwaysTheAnswer == OperationSpec => []SheetIsTheAnswer
BY OpInit, OpStep, OpSays, PTL DEF OperationSpec

\* The history of an operation lists its calls once, the newest first.  Once a frame
\* is painted and no call is out its first entry is the last answer with the body
\* its call sent, and no entry ever holds an earlier body than its own
\* (history.captureHistory).
THEOREM HistoryAlwaysHasTheAnswer == OperationSpec => []HistoryHasTheAnswer
BY OpInit, OpStep, OpSays, PTL DEF OperationSpec

-----------------------------------------------------------------------------
(* Run all steps: whose turn it is.                                         *)

Ats == {"gone", "threw", "button", "click", "answer", "evidence", "pause"}
Threads == [at : Ats, polls : Int, heard : BOOLEAN]

\* Runs start in the order of their numbers, and none after the page's own.
Turns ==
    /\ autopilot \in 0 .. MaxRunsStarted /\ DOMAIN step = JourneyRuns
    /\ thread \in [JourneyRuns -> Threads]
    /\ \A q, r \in JourneyRuns : q < r /\ step[r] # 0 => step[q] # 0
    /\ autopilot # 0 => step[autopilot] # 0 /\ \A q \in JourneyRuns : q > autopilot => step[q] = 0

\* The run that clicked last has not clicked for its step before the click, and
\* has after it.
ClickedOnce ==
    /\ clicked.run \in 0 .. MaxRunsStarted
    /\ clicked.run # 0 =>
        /\ step[clicked.run] # 0
        /\ thread[clicked.run].at \in {"button", "click"} => clicked.step # step[clicked.run]
        /\ thread[clicked.run].at \in {"answer", "evidence", "pause"} => clicked.step = step[clicked.run]

JourneyInv == Turns /\ ClickedOnce

LEMMA JourneyConstants == Polls \in Int /\ MaxRunsStarted \in Nat /\ JourneyRuns \subseteq Nat \ {0}
BY JourneyAssumption DEF JourneyRuns

LEMMA WaitIsAThread ==
    ASSUME NEW here \in Ats, NEW heard \in BOOLEAN
    PROVE  Wait(here, heard) \in Threads /\ Wait(here, heard).at = here
BY JourneyConstants DEF Wait, Threads

LEMMA EndedThreads == /\ Gone \in Threads /\ Gone.at = "gone"
                      /\ Threw \in Threads /\ Threw.at = "threw"
<1>1. Gone \in Threads /\ Gone.at = "gone"
  BY DEF Gone, Threads, Ats
<1> QED
  BY <1>1 DEF Threw, Threads, Ats

LEMMA JourneyInvInit == JourneyInit => JourneyInv
<1> SUFFICES ASSUME JourneyInit
             PROVE  JourneyInv
  OBVIOUS
<1>1. thread \in [JourneyRuns -> Threads] /\ autopilot = 0 /\ clicked.run = 0
  BY EndedThreads DEF JourneyInit
<1>2. step = [r \in JourneyRuns |-> 0]
  BY DEF JourneyInit
<1> QED
  BY <1>1, <1>2, JourneyConstants DEF JourneyInv, Turns, ClickedOnce

\* A run that waits on moves within one side of its click.
Side(here) == CASE here \in {"button", "click"} -> "before"
                [] here \in {"answer", "evidence", "pause"} -> "after"
                [] OTHER -> "ended"

\* What changes no step and no click, and takes no thread across its click.
LEMMA JourneyKept ==
    ASSUME JourneyInv, UNCHANGED <<step, clicked>>, autopilot' \in {autopilot, 0},
           thread' \in [JourneyRuns -> Threads],
           \A r \in JourneyRuns : Side(thread'[r].at) \in {Side(thread[r].at), "ended"}
    PROVE  JourneyInv'
<1>1. Turns'
  BY JourneyConstants DEF JourneyInv, Turns, JourneyRuns
<1>2. ClickedOnce'
  BY DEF JourneyInv, Turns, ClickedOnce, JourneyRuns, Side
<1> QED
  BY <1>1, <1>2 DEF JourneyInv

LEMMA EndsStep ==
    ASSUME JourneyInv, NEW r \in JourneyRuns, Ends(r)
    PROVE  JourneyInv'
<1>1. /\ autopilot' = 0 /\ thread' = [thread EXCEPT ![r] = Gone] /\ UNCHANGED <<step, clicked>>
  BY DEF Ends, stopJourney
<1>2. /\ thread' \in [JourneyRuns -> Threads]
      /\ \A q \in JourneyRuns : thread'[q] \in {thread[q], Gone}
  BY <1>1, EndedThreads DEF JourneyInv, Turns
<1> QED
  BY <1>1, <1>2, JourneyKept, EndedThreads DEF Side

\* A step of the wait, from one side of the click.
LEMMA StaysStep ==
    ASSUME JourneyInv, NEW r \in JourneyRuns, NEW t \in Threads, thread' = [thread EXCEPT ![r] = t],
           Side(t.at) = Side(thread[r].at), UNCHANGED <<autopilot, step, clicked>>
    PROVE  JourneyInv'
<1>1. /\ thread' \in [JourneyRuns -> Threads]
      /\ \A q \in JourneyRuns : thread'[q] = IF q = r THEN t ELSE thread[q]
  BY DEF JourneyInv, Turns
<1> QED
  BY <1>1, JourneyKept

LEMMA WhileRunningStep ==
    ASSUME JourneyInv, NEW r \in JourneyRuns, whileRunning(r)
    PROVE  JourneyInv'
<1>1. thread[r] \in Threads
  BY DEF JourneyInv, Turns
<1>2. CASE PollsOn(r)
  <2> DEFINE t == [thread[r] EXCEPT !.polls = @ - 1]
  <2>1. t \in Threads /\ t.at = thread[r].at /\ thread' = [thread EXCEPT ![r] = t]
    BY <1>1, <1>2 DEF Threads, PollsOn, JourneyInv, Turns
  <2> HIDE DEF t
  <2> QED
    BY <1>2, <2>1, StaysStep DEF PollsOn
<1>3. ASSUME NEW here \in {"click", "pause", "evidence"}, Goes(r, here), Side(here) = Side(thread[r].at)
      PROVE  JourneyInv'
  <2> DEFINE t == Wait(here, thread[r].heard)
  <2>1. t \in Threads /\ t.at = here
    BY <1>1, WaitIsAThread DEF Threads, Ats
  <2> HIDE DEF t
  <2>2. thread' = [thread EXCEPT ![r] = t] /\ UNCHANGED <<autopilot, step, clicked>>
    BY <1>3 DEF Goes, t
  <2> QED
    BY <1>3, <2>1, <2>2, StaysStep
<1>4. CASE Ends(r)
  BY <1>4, EndsStep
<1>5. CASE thread[r].at = "button" /\ Goes(r, "click")
  BY <1>3, <1>5 DEF Side
<1>6. CASE thread[r].at = "evidence" /\ Goes(r, "pause")
  BY <1>3, <1>6 DEF Side
<1>7. CASE thread[r].at = "answer" /\ Goes(r, "evidence")
  BY <1>3, <1>7 DEF Side
<1> QED
  BY <1>2, <1>4, <1>5, <1>6, <1>7 DEF whileRunning, Misses

LEMMA ClickStepStep ==
    ASSUME JourneyInv, NEW r \in JourneyRuns, autopilot = r, ClickStep(r)
    PROVE  JourneyInv'
<1>1. thread[r] \in Threads /\ r # 0 /\ step[r] # 0
  BY JourneyConstants DEF JourneyInv, Turns
<1>2. CASE step[r] \notin blockOpen
  <2>1. /\ thread' = [thread EXCEPT ![r] = Threw] /\ UNCHANGED <<autopilot, step, clicked>>
    BY <1>2 DEF ClickStep
  <2>2. /\ thread' \in [JourneyRuns -> Threads]
        /\ \A q \in JourneyRuns : thread'[q] \in {thread[q], Threw}
    BY <2>1, EndedThreads DEF JourneyInv, Turns
  <2> QED
    BY <2>1, <2>2, JourneyKept, EndedThreads DEF Side
<1>3. CASE step[r] \in blockOpen
  <2> DEFINE t == Wait("answer", thread[r].heard)
  <2>1. t \in Threads /\ t.at = "answer"
    BY <1>1, WaitIsAThread DEF Threads, Ats
  <2> HIDE DEF t
  <2>2. /\ thread' = [thread EXCEPT ![r] = t] /\ UNCHANGED <<autopilot, step>>
        /\ clicked' = [odd |-> ~clicked.odd, run |-> r, step |-> step[r]]
    BY <1>3 DEF ClickStep, t
  <2>3. Turns'
    BY <2>1, <2>2 DEF JourneyInv, Turns
  <2>4. ClickedOnce'
    BY <1>1, <2>1, <2>2 DEF JourneyInv, Turns, ClickedOnce
  <2> QED
    BY <2>3, <2>4 DEF JourneyInv
<1> QED
  BY <1>2, <1>3

\* The next step is another than the one that was clicked for.
LEMMA NextStepStep ==
    ASSUME JourneyInv, NEW r \in JourneyRuns, autopilot = r,
           thread[r].at = "pause", nextJourneyStep(r)
    PROVE  JourneyInv'
<1> DEFINE next == journeyState.next
<1>1. step[r] # 0 /\ r # 0 /\ r \in Nat
  BY JourneyConstants DEF JourneyInv, Turns
<1>2. CASE StopsAt(r, next)
  BY <1>2, EndsStep DEF nextJourneyStep
<1>3. CASE ~StopsAt(r, next)
  <2>1. /\ step' = [step EXCEPT ![r] = next] /\ next # 0 /\ next # step[r] /\ clicked' = clicked
    BY <1>3 DEF nextJourneyStep, StopsAt
  <2>2. \/ autopilot' = 0 /\ thread' = [thread EXCEPT ![r] = Gone]
        \/ autopilot' = autopilot /\ thread' = [thread EXCEPT ![r] = Wait("button", FALSE)]
    BY <1>3 DEF nextJourneyStep, stopJourney
  <2> HIDE DEF next
  <2>3. PICK t \in Threads : /\ thread' = [thread EXCEPT ![r] = t] /\ t.at \in {"gone", "button"}
                             /\ autopilot' \in {0, autopilot}
    BY <2>2, WaitIsAThread, EndedThreads DEF Ats
  <2>4. Turns'
    <3>1. autopilot' \in 0 .. MaxRunsStarted /\ thread' \in [JourneyRuns -> Threads]
      BY <2>3, JourneyConstants DEF JourneyInv, Turns
    <3>2. DOMAIN step' = JourneyRuns /\ \A q \in JourneyRuns : step'[q] = 0 <=> step[q] = 0
      BY <1>1, <2>1 DEF JourneyInv, Turns
    <3> QED
      BY <1>1, <2>3, <3>1, <3>2 DEF JourneyInv, Turns
  <2>5. ClickedOnce'
    <3>1. CASE clicked.run = r
      <4>1. clicked.step = step[r]
        BY <1>1, <3>1 DEF JourneyInv, ClickedOnce
      <4> QED
        BY <1>1, <2>1, <2>3, <3>1, <4>1 DEF JourneyInv, Turns, ClickedOnce
    <3>2. CASE clicked.run # r
      BY <2>1, <2>3, <3>2 DEF JourneyInv, Turns, ClickedOnce, JourneyRuns
    <3> QED
      BY <3>1, <3>2
  <2> QED
    BY <2>4, <2>5 DEF JourneyInv
<1> QED
  BY <1>2, <1>3

LEMMA TimerStep ==
    ASSUME JourneyInv, NEW r \in JourneyRuns, JourneyTimer(r)
    PROVE  JourneyInv'
<1>1. CASE ~IsCurrent(r)
  <2>1. /\ thread' = [thread EXCEPT ![r] = Gone] /\ UNCHANGED <<autopilot, step, clicked>>
    BY <1>1 DEF JourneyTimer
  <2>2. /\ thread' \in [JourneyRuns -> Threads]
        /\ \A q \in JourneyRuns : thread'[q] \in {thread[q], Gone}
    BY <2>1, EndedThreads DEF JourneyInv, Turns
  <2> QED
    BY <2>1, <2>2, JourneyKept, EndedThreads DEF Side
<1>2. CASE autopilot = r
  BY <1>2, WhileRunningStep, ClickStepStep, NextStepStep DEF JourneyTimer, IsCurrent
<1> QED
  BY <1>1, <1>2 DEF IsCurrent

\* A run starts with the next number, after every run that clicked.
LEMMA RunStep ==
    ASSUME JourneyInv, runJourney
    PROVE  JourneyInv'
<1>1. PICK r \in JourneyRuns :
        /\ step[r] = 0 /\ \A q \in JourneyRuns : q < r => step[q] # 0
        /\ step' = [step EXCEPT ![r] = journeyState.next]
        /\ \/ autopilot' = r /\ thread' = [thread EXCEPT ![r] = Wait("button", FALSE)]
           \/ UNCHANGED <<autopilot, thread>>
  BY DEF runJourney
<1> DEFINE next == journeyState.next
<1>2. next # 0 /\ autopilot = 0 /\ clicked' = clicked /\ step' = [step EXCEPT ![r] = next]
  BY <1>1 DEF runJourney
<1> HIDE DEF next
<1>3. thread' \in [JourneyRuns -> Threads] /\ \A q \in JourneyRuns \ {r} : thread'[q] = thread[q]
  <2>1. Wait("button", FALSE) \in Threads
    BY WaitIsAThread DEF Ats
  <2> QED
    BY <1>1, <2>1 DEF JourneyInv, Turns
<1>4. Turns'
  <2>1. DOMAIN step' = JourneyRuns /\ step'[r] # 0 /\ \A q \in JourneyRuns \ {r} : step'[q] = step[q]
    BY <1>2 DEF JourneyInv, Turns
  <2>2. \A q \in JourneyRuns : q > r => step'[q] = 0
    BY <1>1, <2>1, JourneyConstants DEF JourneyInv, Turns
  <2>3. \A p, q \in JourneyRuns : p < q /\ step'[q] # 0 => step'[p] # 0
    BY <1>1, <2>1, <2>2, JourneyConstants DEF JourneyInv, Turns
  <2>4. autopilot' \in {0, r} /\ autopilot' \in 0 .. MaxRunsStarted
    <3>1. r \in 0 .. MaxRunsStarted /\ 0 \in 0 .. MaxRunsStarted
      BY JourneyConstants DEF JourneyRuns
    <3>2. autopilot' = r \/ autopilot' = autopilot
      BY <1>1
    <3> QED
      BY <1>2, <3>1, <3>2
  <2> QED
    BY <1>3, <2>1, <2>2, <2>3, <2>4 DEF Turns
<1>5. clicked.run # r
  BY <1>1, JourneyConstants DEF JourneyInv, ClickedOnce
<1>6. ClickedOnce'
  BY <1>2, <1>3, <1>5 DEF JourneyInv, Turns, ClickedOnce, JourneyRuns
<1> QED
  BY <1>4, <1>6 DEF JourneyInv

LEMMA AnswersKept ==
    ASSUME JourneyInv, NEW i \in Steps, NEW ok \in BOOLEAN, StepAnswers(i, ok)
    PROVE  JourneyInv'
<1>1. /\ thread' = [r \in JourneyRuns |-> IF thread[r] \notin {Gone, Threw} /\ step[r] = i
                                          THEN [thread[r] EXCEPT !.heard = TRUE] ELSE thread[r]]
      /\ UNCHANGED <<autopilot, step, clicked>>
  BY DEF StepAnswers
<1>2. \A r \in JourneyRuns : thread'[r] \in Threads /\ thread'[r].at = thread[r].at
  BY <1>1 DEF JourneyInv, Turns, Threads
<1>3. thread' \in [JourneyRuns -> Threads]
  BY <1>1, <1>2
<1> QED
  BY <1>1, <1>2, <1>3, JourneyKept

LEMMA JourneyInvKept == JourneyInv /\ [JourneyNext]_journeyVars => JourneyInv'
<1> SUFFICES ASSUME JourneyInv, [JourneyNext]_journeyVars
             PROVE  JourneyInv'
  OBVIOUS
<1>1. CASE UNCHANGED <<step, clicked, thread>> /\ autopilot' \in {autopilot, 0}
  BY <1>1, JourneyKept DEF JourneyInv, Turns
<1>2. CASE UNCHANGED journeyVars \/ StopRun \/ JourneyFrame
  BY <1>1, <1>2 DEF journeyVars, StopRun, JourneyFrame, stopJourney
<1>3. CASE \/ \E i \in Steps : ToggleStep(i) \/ ExecuteStep(i) \/ LogsOut(i)
           \/ \E how \in {"done", "failed"} : FollowEnds(how)
  BY <1>1, <1>3 DEF ToggleStep, ExecuteStep, LogsOut, FollowEnds
<1>4. CASE RunsOn \/ runJourney \/ \E i \in Steps, ok \in BOOLEAN : StepAnswers(i, ok)
  BY <1>4, TimerStep, RunStep, AnswersKept DEF RunsOn
<1> QED
  BY <1>2, <1>3, <1>4 DEF JourneyNext

\* Only a click of the page's own run is a click.
LEMMA ClicksInTurn ==
    ASSUME JourneyInv, JourneyNext, clicked' # clicked
    PROVE  /\ clicked'.run = autopilot /\ clicked'.run >= clicked.run
           /\ clicked'.run = clicked.run => clicked'.step # clicked.step
<1>1. PICK r \in JourneyRuns : JourneyTimer(r)
  BY DEF JourneyNext, RunsOn, runJourney, StopRun, JourneyFrame, StepAnswers, ToggleStep,
         ExecuteStep, LogsOut, FollowEnds
<1>2. autopilot = r /\ ClickStep(r)
  BY <1>1 DEF JourneyTimer, IsCurrent, whileRunning, Misses, PollsOn, Goes, Ends, nextJourneyStep
<1>3. thread[r].at = "click" /\ clicked' = [odd |-> ~clicked.odd, run |-> r, step |-> step[r]]
  BY <1>2 DEF ClickStep
<1>4. clicked.run <= r
  <2>1. clicked.run \in Nat /\ r \in Nat /\ r # 0
    BY JourneyConstants DEF JourneyInv, ClickedOnce
  <2>2. clicked.run > r => step[clicked.run] = 0
    BY <1>2, <2>1 DEF JourneyInv, Turns, ClickedOnce, JourneyRuns
  <2> QED
    BY <2>1, <2>2 DEF JourneyInv, ClickedOnce
<1>5. clicked.run = r => clicked.step # step[r]
  BY <1>3, JourneyConstants DEF JourneyInv, ClickedOnce
<1> QED
  BY <1>2, <1>3, <1>4, <1>5, JourneyConstants DEF JourneyInv, ClickedOnce

LEMMA RunsAct == JourneyInit /\ [][JourneyNext]_journeyVars => JourneyActsForItself
<1>1. JourneyInv /\ [JourneyNext]_journeyVars =>
        [clicked' # clicked => /\ clicked'.run = autopilot /\ clicked'.run >= clicked.run
                               /\ clicked'.run = clicked.run => clicked'.step # clicked.step]_journeyVars
  BY ClicksInTurn DEF journeyVars
<1> QED
  BY <1>1, JourneyInvInit, JourneyInvKept, PTL DEF JourneyActsForItself

\* Of the runs of all steps only the page's own clicks, they act in the order they
\* started, and none clicks twice in a row for one step (journey.nextJourneyStep).
THEOREM RunsActInTurn == JourneySpec => JourneyActsForItself
BY RunsAct, PTL DEF JourneySpec

-----------------------------------------------------------------------------
(* The journey's walk.                                                      *)

WalkInv == JourneyInv /\ JourneyOK

LEMMA NextIsAStep == journeyState.next \in Steps \cup {0}
<1>1. Steps \in SUBSET Nat
  BY JourneyAssumption DEF Steps
<1>2. ASSUME Steps \ DoneSteps # {}
      PROVE  Min(Steps \ DoneSteps) \in Steps
  BY <1>1, <1>2, MinOfNaturals
<1> QED
  BY <1>2 DEF journeyState

\* What the walk shows changes with a frame to come.
LEMMA WalkKept ==
    ASSUME JourneyOK, [JourneyNext]_journeyVars
    PROVE  ~unpainted' => walk' = paintJourney'
<1> SUFFICES ASSUME ~unpainted'
             PROVE  walk' = paintJourney'
  OBVIOUS
<1>1. ASSUME ~unpainted, UNCHANGED <<walk, autopilot, lastAnswers, evidence>>
      PROVE  walk' = paintJourney'
  BY <1>1 DEF JourneyOK, paintJourney, journeyState, DoneSteps, Proves, stepDone
<1>2. CASE UNCHANGED journeyVars
  BY <1>1, <1>2 DEF journeyVars
<1>3. CASE JourneyFrame
  BY <1>3 DEF JourneyFrame, world, paintJourney, journeyState, DoneSteps, Proves, stepDone
<1>4. ASSUME NEW r \in JourneyRuns, JourneyTimer(r)
      PROVE  walk' = paintJourney'
  <2>1. UNCHANGED unpainted /\ UNCHANGED <<walk, autopilot, lastAnswers, evidence>>
    BY <1>4 DEF JourneyTimer, whileRunning, Misses, PollsOn, Ends, stopJourney, Goes, ClickStep,
                nextJourneyStep, world
  <2> QED
    BY <1>1, <2>1
<1> QED
  BY <1>2, <1>3, <1>4 DEF JourneyNext, RunsOn, runJourney, StopRun, stopJourney, StepAnswers, ToggleStep,
                          ExecuteStep, LogsOut, FollowEnds

LEMMA WalkTypesKept ==
    ASSUME JourneyInv, JourneyOK, [JourneyNext]_journeyVars
    PROVE  step' \in [JourneyRuns -> Steps \cup {0}] /\ blockOpen' \cup calling' \subseteq Steps
<1>0. step \in [JourneyRuns -> Steps \cup {0}] /\ blockOpen \cup calling \subseteq Steps
  BY DEF JourneyOK
<1>1. ASSUME NEW r \in JourneyRuns, JourneyTimer(r)
      PROVE  /\ step' = step \/ step' = [step EXCEPT ![r] = journeyState.next]
             /\ blockOpen' \subseteq blockOpen \cup ({journeyState.next} \ {0})
             /\ calling' \subseteq calling \cup (blockOpen \cap {step[r]})
  BY <1>1 DEF JourneyTimer, whileRunning, Misses, PollsOn, Ends, stopJourney, Goes, ClickStep,
              nextJourneyStep, StopsAt, world
<1>2. CASE runJourney
  <2>1. PICK r \in JourneyRuns :
          /\ step' = [step EXCEPT ![r] = journeyState.next]
          /\ blockOpen' \subseteq blockOpen \cup ({journeyState.next} \ {0})
          /\ calling' = calling
    BY <1>2 DEF runJourney
  <2> QED
    BY <1>0, <2>1, NextIsAStep
<1>3. CASE RunsOn
  BY <1>0, <1>1, <1>3, NextIsAStep DEF RunsOn
<1>4. CASE StopRun \/ JourneyFrame \/ UNCHANGED journeyVars
           \/ \E how \in {"done", "failed"} : FollowEnds(how)
  BY <1>0, <1>4 DEF StopRun, JourneyFrame, journeyVars, FollowEnds, world
<1>5. CASE \E i \in Steps : \/ \E ok \in BOOLEAN : StepAnswers(i, ok)
                             \/ ToggleStep(i) \/ ExecuteStep(i) \/ LogsOut(i)
  BY <1>0, <1>5 DEF StepAnswers, ToggleStep, ExecuteStep, LogsOut
<1> QED
  BY <1>2, <1>3, <1>4, <1>5 DEF JourneyNext

LEMMA WalkInvInit == JourneyInit => WalkInv
BY JourneyInvInit, JourneyConstants DEF WalkInv, JourneyInit, JourneyOK

LEMMA WalkInvStep == WalkInv /\ [JourneyNext]_journeyVars => WalkInv'
<1> SUFFICES ASSUME WalkInv, [JourneyNext]_journeyVars
             PROVE  WalkInv'
  OBVIOUS
<1>1. JourneyInv'
  BY JourneyInvKept DEF WalkInv
<1> QED
  BY <1>1, WalkKept, WalkTypesKept DEF WalkInv, JourneyOK, JourneyInv, Turns

\* Once a frame is painted the rail, the strip and the panel count the steps that are
\* done now, and the button knows whether a run is going: every answer, login, run and
\* Stop asks for a frame (journey.paintJourney).
THEOREM WalkIsPainted == JourneySpec => []JourneyOK
<1>1. WalkInv => JourneyOK
  BY DEF WalkInv
<1> QED
  BY <1>1, WalkInvInit, WalkInvStep, PTL DEF JourneySpec

-----------------------------------------------------------------------------
(* An operation's history keeps its size.                                   *)

Bounded == /\ editing \subseteq Operations
           /\ \A op \in Operations : Len(callHistory[op]) <= HISTORY_SIZE

LEMMA BoundedStep ==
    ASSUME OpInv, Bounded, [OperationNext]_opVars
    PROVE  Bounded'
<1>1. CASE UNCHANGED opVars
  BY <1>1 DEF opVars, editorVars, paintedVars, Bounded
<1>2. ASSUME NEW op \in Operations,
             Toggle(op) \/ Type(op) \/ Edit(op) \/ Load(op) \/ ExecuteBody(op) \/ Answer(op)
      PROVE  Bounded'
  <2>1. UNCHANGED callHistory /\ editing' \subseteq editing \cup {op}
    BY <1>2 DEF Toggle, Type, Edit, Load, ExecuteBody, Answer, editorVars, paintedVars
  <2> QED
    BY <2>1 DEF Bounded
<1>3. CASE OperationFrame
  <2>1. editing' \subseteq editing
    BY <1>3 DEF OperationFrame, paintResults
  <2>2. ASSUME NEW op \in Operations
        PROVE  Len(callHistory'[op]) <= HISTORY_SIZE
    <3> DEFINE all == <<Entry(op)>> \o callHistory[op]
               n == IF Len(all) < HISTORY_SIZE THEN Len(all) ELSE HISTORY_SIZE
    <3>1. callHistory'[op] \in {callHistory[op], SubSeq(all, 1, n)}
      BY <1>3 DEF OperationFrame, captureHistory, Captured
    <3>2. callHistory[op] \in Seq(HistoryEntries)
      BY DEF OpInv, Kept
    <3>3. all \in Seq({Entry(op)} \cup HistoryEntries) /\ Len(all) \in Nat
      BY <3>2
    <3>4. n \in Nat /\ n <= HISTORY_SIZE /\ n <= Len(all)
      BY <3>3, OpConstant
    <3> HIDE DEF all, n
    <3>5. Len(SubSeq(all, 1, n)) = n
      BY <3>3, <3>4
    <3> QED
      BY <3>1, <3>4, <3>5 DEF Bounded
  <2> QED
    BY <2>1, <2>2 DEF Bounded
<1> QED
  BY <1>1, <1>2, <1>3 DEF OperationNext

LEMMA BoundedInit == OperationInit => Bounded
BY OpConstant DEF OperationInit, Bounded

LEMMA OpTypes == OpInv /\ Bounded => OperationOK
BY DEF OpInv, Asked, Bounded, OperationOK

\* An operation remembers no more all than it may, and bodies stay bodies
\* (history.captureHistory).
THEOREM HistoryIsBounded == OperationSpec => []OperationOK
BY OpInit, OpStep, BoundedInit, BoundedStep, OpTypes, PTL DEF OperationSpec
=============================================================================
