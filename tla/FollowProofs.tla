----------------------------- MODULE FollowProofs -----------------------------
(***************************************************************************)
(* The reader of a run, for any documents, backoff, budget and bounds: one *)
(* chain of reads per follow, states that are true and never go back, and  *)
(* a reserve that is left alone.                                           *)
(*                                                                         *)
(* Everything the properties say of a follow depends on what waits for its *)
(* present run; runs are numbered, so what waits for an older one is never *)
(* mistaken for it.                                                        *)
(***************************************************************************)
EXTENDS Follow, FiniteSetTheorems, TLAPS

\* The timeouts and the fetches of a follow's present run.
TimersOf(f) == {t \in timers : t.follow = f /\ t.run = follows[f].run}
ReadsOf(f) == {r \in reads : r.follow = f /\ r.run = follows[f].run}

Active(f) == follows[f].phase \in {"following", "rate-limited"}

\* A state the document has reached, and its last one if it is an outcome.
Told(s, d) == s \in States /\ Rank(s) <= Rank(status[d]) /\ (isTerminal(s) => s = status[d])

\* The reserve is left, but for what others took since the run read last.
Spared(f) == budget + others[f] > Reserve

\* Exactly one thing waits for a follow that reads on, and none for one that stopped.
Waits(f) ==
    \/ ~Active(f) /\ TimersOf(f) = {} /\ ReadsOf(f) = {}
    \/ Active(f) /\ (\E t : TimersOf(f) = {t}) /\ ReadsOf(f) = {}
    \/ Active(f) /\ TimersOf(f) = {} /\ \E r : ReadsOf(f) = {r}

\* What an answer on its way is good for, if the follow still listens to it.
Good(f, r) ==
    /\ r.answer = Nil /\ r.attempt > 0 => Spared(f)
    /\ r.answer # Nil /\ r.answer.status = 200 =>
         /\ Told(r.answer.state, follows[f].doc)
         /\ Rank(follows[f].state) <= Rank(r.answer.state)
         /\ r.answer.remaining > Reserve => Spared(f)

Fine(f) ==
    /\ Waits(f)
    /\ Told(follows[f].state, follows[f].doc)
    /\ follows[f].phase = "ended" => isTerminal(follows[f].state)
    /\ \A t \in TimersOf(f) : t.attempt > 0 => Spared(f)
    /\ \A r \in ReadsOf(f) : Good(f, r)

\* What the callbacks work on exists, and every run was numbered.
Tied ==
    /\ \A t \in timers : t.follow \in DOMAIN follows /\ t.run <= followRun
    /\ \A r \in reads : r.follow \in DOMAIN follows /\ r.run <= followRun
    /\ \A f \in DOMAIN follows : follows[f].run <= followRun
    /\ slot # Nil => slot.target \in DOMAIN follows
    /\ Len(follows) <= MaxFollows
    /\ generating # Nil => Len(follows) < MaxFollows
    /\ generating # Nil /\ generating.answer \in States => Told(generating.answer, generating.doc)

Inv == FollowTypeOK /\ Tied /\ \A f \in DOMAIN follows : Fine(f)

-----------------------------------------------------------------------------
(* Records and sequences.                                                   *)

\* A follow in a new run.
Anew(x, n) == [x EXCEPT !.run = n, !.phase = "following"]

LEMMA Renewed ==
    ASSUME NEW x \in Follows, NEW n \in Nat
    PROVE  /\ Anew(x, n) \in Follows /\ Anew(x, n).run = n /\ Anew(x, n).phase = "following"
           /\ Anew(x, n).doc = x.doc /\ Anew(x, n).state = x.state
BY DEF Anew, Follows, Phases

LEMMA Phased ==
    ASSUME NEW x \in Follows, NEW p \in Phases, NEW y, y = [x EXCEPT !.phase = p]
    PROVE  /\ y \in Follows /\ y.run = x.run /\ y.phase = p
           /\ y.doc = x.doc /\ y.state = x.state
BY DEF Follows

LEMMA ReadOnce ==
    ASSUME NEW x \in Follows, NEW y, y = [x EXCEPT !.reads = @ + 1]
    PROVE  /\ y \in Follows /\ y.run = x.run /\ y.phase = x.phase
           /\ y.doc = x.doc /\ y.state = x.state
BY DEF Follows

\* A follow that shows a state in a phase.
Moved(x, s, p) == [x EXCEPT !.state = s, !.phase = p]

LEMMA MovedTo ==
    ASSUME NEW x \in Follows, NEW s \in States, NEW p \in Phases
    PROVE  /\ Moved(x, s, p) \in Follows /\ Moved(x, s, p).run = x.run
           /\ Moved(x, s, p).phase = p
           /\ Moved(x, s, p).doc = x.doc /\ Moved(x, s, p).state = s
BY DEF Moved, Follows

LEMMA Shown ==
    ASSUME NEW r, NEW a, NEW x \in Follows
    PROVE  /\ a.status = 429 => /\ Taken(r, a, x) \in Follows
                               /\ Taken(r, a, x).phase = "rate-limited"
                               /\ Taken(r, a, x).state = x.state
           /\ a.status = 503 => /\ Taken(r, a, x) \in Follows
                               /\ Taken(r, a, x).phase = "error"
                               /\ Taken(r, a, x).state = x.state
           /\ a.status = 200 /\ a.state \in States =>
                               /\ Taken(r, a, x) \in Follows
                               /\ Taken(r, a, x).phase = NextPhase(a.state, a, r.attempt)
                               /\ Taken(r, a, x).state = a.state
           /\ a.status \in {429, 503} \/ (a.status = 200 /\ a.state \in States) =>
                               /\ Taken(r, a, x).run = x.run
                               /\ Taken(r, a, x).doc = x.doc
<1>1. NextPhase(a.state, a, r.attempt) \in Phases
  BY DEF NextPhase, Phases
<1>2. ASSUME a.status = 429
      PROVE  /\ Taken(r, a, x) \in Follows /\ Taken(r, a, x).phase = "rate-limited"
             /\ Taken(r, a, x).state = x.state /\ Taken(r, a, x).run = x.run
             /\ Taken(r, a, x).doc = x.doc
  <2>1. PICK y : y = [x EXCEPT !.phase = "rate-limited"]
    OBVIOUS
  <2>2. Taken(r, a, x) = y
    BY <1>2, <2>1 DEF Taken
  <2> QED
    BY <2>1, <2>2, Phased DEF Phases
<1>3. ASSUME a.status = 503
      PROVE  /\ Taken(r, a, x) \in Follows /\ Taken(r, a, x).phase = "error"
             /\ Taken(r, a, x).state = x.state /\ Taken(r, a, x).run = x.run
             /\ Taken(r, a, x).doc = x.doc
  <2>1. PICK y : y = [x EXCEPT !.phase = "error"]
    OBVIOUS
  <2>2. Taken(r, a, x) = y
    BY <1>3, <2>1 DEF Taken
  <2> QED
    BY <2>1, <2>2, Phased DEF Phases
<1>4. ASSUME a.status = 200, a.state \in States
      PROVE  /\ Taken(r, a, x) \in Follows
             /\ Taken(r, a, x).phase = NextPhase(a.state, a, r.attempt)
             /\ Taken(r, a, x).state = a.state /\ Taken(r, a, x).run = x.run
             /\ Taken(r, a, x).doc = x.doc
  <2>1. Taken(r, a, x) = Moved(x, a.state, NextPhase(a.state, a, r.attempt))
    BY <1>4 DEF Taken, Moved
  <2> QED
    BY <1>1, <1>4, <2>1, MovedTo
<1> QED
  BY <1>2, <1>3, <1>4

LEMMA Answered ==
    ASSUME NEW r \in Reads, NEW a \in ReadAnswers, NEW y, y = [r EXCEPT !.answer = a]
    PROVE  /\ y \in Reads /\ y.follow = r.follow /\ y.run = r.run /\ y.answer = a
BY DEF Reads

LEMMA NewFollow ==
    ASSUME NEW d \in FollowDocs, NEW s \in States, followRun \in Nat
    PROVE  /\ Started(d, s) \in Follows /\ Started(d, s).run = followRun + 1
           /\ Started(d, s).phase = "following"
           /\ Started(d, s).doc = d /\ Started(d, s).state = s
BY DEF Started, Follows, Phases

LEMMA Edited ==
    ASSUME NEW fs \in Seq(Follows), NEW f \in DOMAIN fs, NEW y \in Follows,
           NEW gs, gs = [fs EXCEPT ![f] = y]
    PROVE  /\ gs \in Seq(Follows) /\ Len(gs) = Len(fs) /\ DOMAIN gs = DOMAIN fs
           /\ gs[f] = y /\ \A g \in DOMAIN fs : g # f => gs[g] = fs[g]
OBVIOUS

LEMMA Appended ==
    ASSUME NEW fs \in Seq(Follows), NEW y \in Follows, NEW gs, gs = Append(fs, y)
    PROVE  /\ gs \in Seq(Follows) /\ Len(gs) = Len(fs) + 1
           /\ DOMAIN gs = DOMAIN fs \cup {Len(fs) + 1}
           /\ Len(fs) + 1 \notin DOMAIN fs
           /\ gs[Len(fs) + 1] = y /\ \A g \in DOMAIN fs : gs[g] = fs[g]
OBVIOUS

LEMMA Indices ==
    ASSUME FollowTypeOK, Tied, NEW f \in DOMAIN follows
    PROVE  /\ f \in Nat \ {0} /\ f \in 1 .. MaxFollows /\ f # Nil
           /\ follows[f] \in Follows /\ others[f] \in 0 .. (Reserve + 1)
<1>1. f \in 1 .. Len(follows) /\ Len(follows) \in Nat /\ follows[f] \in Follows
  BY DEF FollowTypeOK
<1>2. f \in Nat \ {0} /\ f \in 1 .. MaxFollows
  BY <1>1, NumbersAssumption DEF Tied
<1> QED
  BY <1>1, <1>2, NilAssumption DEF FollowTypeOK

-----------------------------------------------------------------------------
(* What a step leaves alone stays fine.                                     *)

LEMMA Rests ==
    ASSUME NEW f, Fine(f), follows'[f] = follows[f],
           TimersOf(f)' = TimersOf(f), ReadsOf(f)' = ReadsOf(f),
           \A s, d : d = follows[f].doc /\ Told(s, d) => Told(s, d)',
           Spared(f) => Spared(f)'
    PROVE  Fine(f)'
<1>1. Active(f)' <=> Active(f)
  BY DEF Active
<1>2. Waits(f)'
  BY <1>1 DEF Fine, Waits
<1>3. Told(follows[f].state, follows[f].doc)'
  BY DEF Fine, Told
<1>4. \A r : Good(f, r) => Good(f, r)'
  BY DEF Good, Told
<1> QED
  BY <1>2, <1>3, <1>4 DEF Fine

LEMMA ToldKept ==
    ASSUME FollowTypeOK, NEW d \in FollowDocs, Progress(d), NEW s, NEW e \in FollowDocs, Told(s, e)
    PROVE  Told(s, e)'
<1>1. /\ status[d] \in {"PENDING", "PROCESSING"}
      /\ status'[d] \in {"PROCESSING", "DONE", "FAILED"}
      /\ status[d] = "PROCESSING" => status'[d] # "PROCESSING"
      /\ \A c \in FollowDocs : c # d => status'[c] = status[c]
  BY DEF Progress, FollowTypeOK
<1>2. CASE e = d
  BY <1>1, <1>2 DEF Told, Rank, isTerminal, States
<1> QED
  BY <1>1, <1>2 DEF Told

LEMMA CountedTypes ==
    ASSUME FollowTypeOK, NEW mine, others' = Counted(mine)
    PROVE  /\ others' \in [1 .. MaxFollows -> 0 .. (Reserve + 1)]
           /\ \A f \in 1 .. MaxFollows :
                /\ f = mine => others'[f] = 0
                /\ f # mine => others'[f] = others[f] + 1 \/ (others'[f] = others[f] /\ others[f] > Reserve)
<1>1. \A f \in 1 .. MaxFollows : others[f] \in 0 .. (Reserve + 1)
  BY DEF FollowTypeOK
<1> QED
  BY <1>1, NumbersAssumption DEF Counted

LEMMA Spent ==
    ASSUME FollowTypeOK, Tied, NEW mine, budget > 0, budget' = budget - 1, others' = Counted(mine),
           NEW f \in DOMAIN follows, f # mine, Spared(f)
    PROVE  Spared(f)'
<1>1. f \in 1 .. MaxFollows /\ others[f] \in Nat
  BY Indices
<1>2. others'[f] = others[f] + 1 \/ (others'[f] = others[f] /\ others[f] > Reserve)
  BY <1>1, CountedTypes
<1> QED
  BY <1>1, <1>2, NumbersAssumption DEF Spared, FollowTypeOK

\* A step of the server's that no follow hears of.
LEMMA PageRests ==
    ASSUME Inv, UNCHANGED page,
           \A s, e : e \in FollowDocs /\ Told(s, e) => Told(s, e)',
           \A f \in DOMAIN follows : Spared(f) => Spared(f)'
    PROVE  \A f \in DOMAIN follows' : Fine(f)'
<1> SUFFICES ASSUME NEW f \in DOMAIN follows
             PROVE  Fine(f)'
  BY DEF page
<1>1. follows'[f] = follows[f] /\ TimersOf(f)' = TimersOf(f) /\ ReadsOf(f)' = ReadsOf(f)
  BY DEF page, TimersOf, ReadsOf
<1>2. follows[f].doc \in FollowDocs
  BY Indices DEF Inv, Follows
<1> QED
  BY <1>1, <1>2, Rests DEF Inv

LEMMA ProgressStep ==
    ASSUME Inv, NEW d \in FollowDocs, Progress(d)
    PROVE  Inv'
<1>1. FollowTypeOK'
  BY DEF Inv, FollowTypeOK, Progress, page, States
<1>2. Tied'
  <2>1. generating # Nil => generating.doc \in FollowDocs
    BY DEF Inv, FollowTypeOK, GenerateCalls
  <2> QED
    BY <2>1, ToldKept DEF Inv, Tied, Progress, page
<1>3. \A f \in DOMAIN follows' : Fine(f)'
  BY PageRests, ToldKept DEF Inv, Progress, Spared
<1> QED
  BY <1>1, <1>2, <1>3 DEF Inv

LEMMA RefillStep ==
    ASSUME Inv, Refill
    PROVE  Inv'
<1>1. FollowTypeOK'
  BY NumbersAssumption DEF Inv, FollowTypeOK, Refill, page
<1>2. Tied'
  BY DEF Inv, Tied, Refill, page, Told
<1>3. \A f \in DOMAIN follows : Spared(f) => Spared(f)'
  BY Indices, NumbersAssumption DEF Inv, FollowTypeOK, Refill, Spared
<1>4. \A f \in DOMAIN follows' : Fine(f)'
  BY <1>3, PageRests DEF Inv, Refill, Told
<1> QED
  BY <1>1, <1>2, <1>4 DEF Inv

LEMMA SpendStep ==
    ASSUME Inv, Spend
    PROVE  Inv'
<1>1. FollowTypeOK'
  BY CountedTypes, NumbersAssumption DEF Inv, FollowTypeOK, Spend, page
<1>2. Tied'
  BY DEF Inv, Tied, Spend, page, Told
<1>3. \A f \in DOMAIN follows : Spared(f) => Spared(f)'
  BY Indices, Spent DEF Inv, Spend
<1>4. \A f \in DOMAIN follows' : Fine(f)'
  BY <1>3, PageRests DEF Inv, Spend, Told
<1> QED
  BY <1>1, <1>2, <1>4 DEF Inv

\* The server names the state the document is in.
LEMMA StatusIsTold ==
    ASSUME FollowTypeOK, NEW d \in FollowDocs
    PROVE  Told(status[d], d)
BY DEF FollowTypeOK, Told, Rank, States

LEMMA ExecuteStep ==
    ASSUME Inv, NEW d \in FollowDocs, Execute(d)
    PROVE  Inv'
<1>1. /\ generating' \in GenerateCalls
      /\ generating'.doc = d
      /\ generating'.answer \in States => generating'.answer = status[d]
      /\ Len(follows) < MaxFollows
      /\ UNCHANGED <<status, page, note, slot>>
  <2>1. status[d] \in States
    BY DEF Inv, FollowTypeOK
  <2>2. PICK a \in {IF status[d] = "PENDING" THEN "accepted" ELSE status[d], "refused"} : generating' = [doc |-> d, answer |-> a]
    BY DEF Execute
  <2> QED
    BY <2>1, <2>2 DEF Execute, GenerateCalls, States
<1>2. \/ budget > 0 /\ budget' = budget - 1 /\ others' = Counted(Nil)
      \/ UNCHANGED <<budget, others>>
  BY DEF Execute
<1>3. FollowTypeOK'
  BY <1>1, <1>2, CountedTypes, NumbersAssumption DEF Inv, FollowTypeOK, page
<1>4. Tied'
  BY <1>1, StatusIsTold DEF Inv, Tied, page, Told
<1>5. \A f \in DOMAIN follows : Spared(f) => Spared(f)'
  BY <1>2, Indices, Spent DEF Inv, Spared
<1>6. \A f \in DOMAIN follows' : Fine(f)'
  BY <1>1, <1>5, PageRests DEF Inv, Told
<1> QED
  BY <1>3, <1>4, <1>6 DEF Inv

-----------------------------------------------------------------------------
(* The server answers a read.                                               *)

LEMMA ServeStep ==
    ASSUME Inv, NEW r \in reads, Serve(r)
    PROVE  Inv'
<1> DEFINE f == r.follow
<1>1. r \in Reads /\ f \in DOMAIN follows /\ r.run <= followRun
  BY DEF Inv, FollowTypeOK, Tied
<1>2. follows[f].doc \in FollowDocs /\ status[follows[f].doc] \in States
  BY <1>1, Indices DEF Inv, FollowTypeOK, Follows
<1>3. PICK a \in ReadAnswers :
        /\ reads' = (reads \ {r}) \cup {[r EXCEPT !.answer = a]}
        /\ \/ /\ budget > 0 /\ budget' = budget - 1
              /\ others' = Counted(IF r.run = follows[f].run THEN f ELSE Nil)
              /\ a = [status |-> 200, state |-> status[follows[f].doc], remaining |-> budget - 1]
           \/ a = [status |-> 429] /\ UNCHANGED <<budget, others>>
  <2>1. [status |-> 429] \in ReadAnswers
    BY DEF ReadAnswers
  <2>2. budget > 0 => [status |-> 200, state |-> status[follows[f].doc], remaining |-> budget - 1] \in ReadAnswers
    BY <1>2, NumbersAssumption DEF Inv, FollowTypeOK, ReadAnswers
  <2> QED
    BY <2>1, <2>2 DEF Serve
<1>4. PICK q : q = [r EXCEPT !.answer = a]
  OBVIOUS
<1>5. q \in Reads /\ q.follow = f /\ q.run = r.run /\ q.answer = a
  BY <1>1, <1>4, Answered
<1>6. reads' = (reads \ {r}) \cup {q} /\ UNCHANGED <<status, follows, followRun, timers, generating, note, slot>>
  BY <1>3, <1>4 DEF Serve
<1>7. FollowTypeOK'
  <2>1. budget' \in 0 .. FollowLimit /\ others' \in [1 .. MaxFollows -> 0 .. (Reserve + 1)]
    BY <1>3, CountedTypes, NumbersAssumption DEF Inv, FollowTypeOK
  <2> QED
    BY <2>1, <1>5, <1>6 DEF Inv, FollowTypeOK
<1>8. Tied'
  BY <1>1, <1>5, <1>6 DEF Inv, Tied, Told
<1>9. \A g \in DOMAIN follows : follows'[g] = follows[g] /\ TimersOf(g)' = TimersOf(g)
  BY <1>6 DEF TimersOf
<1>10. \A s, d : Told(s, d)' <=> Told(s, d)
  BY <1>6 DEF Told
<1>11. ASSUME NEW g \in DOMAIN follows, ~(g = f /\ r.run = follows[f].run)
       PROVE  Fine(g)'
  <2>1. ReadsOf(g)' = ReadsOf(g)
    BY <1>5, <1>6, <1>11 DEF ReadsOf
  <2>2. Spared(g) => Spared(g)'
    <3>1. g # (IF r.run = follows[f].run THEN f ELSE Nil)
      BY <1>11, Indices DEF Inv
    <3> QED
      BY <3>1, <1>3, Spent DEF Inv, Spared
  <2> QED
    BY <2>1, <2>2, <1>9, <1>10, Rests DEF Inv
<1>12. ASSUME r.run = follows[f].run
       PROVE  Fine(f)'
  <2>1. Fine(f) /\ r \in ReadsOf(f)
    BY <1>1, <1>12 DEF Inv, ReadsOf
  <2>2. Active(f) /\ TimersOf(f) = {} /\ ReadsOf(f) = {r}
    BY <2>1 DEF Fine, Waits
  <2>3. ReadsOf(f)' = {q}
    BY <2>2, <1>5, <1>6, <1>12 DEF ReadsOf
  <2>4. Waits(f)'
    BY <2>2, <2>3, <1>1, <1>9 DEF Waits, Active
  <2>5. Good(f, q)'
    <3>1. CASE a.status = 429
      BY <3>1, <1>5, AnswersAssumption DEF Good
    <3>2. CASE a.status # 429
      <4>1. /\ budget > 0 /\ budget' = budget - 1 /\ others' = Counted(f)
            /\ a.state = status[follows[f].doc] /\ a.remaining = budget'
        BY <3>2, <1>3, <1>12
      <4>2. others'[f] = 0
        BY <4>1, <1>1, Indices, CountedTypes DEF Inv
      <4>3. a.remaining > Reserve => Spared(f)'
        BY <4>1, <4>2, NumbersAssumption DEF Spared, Inv, FollowTypeOK
      <4>4. Told(a.state, follows[f].doc)' /\ Rank(follows[f].state) <= Rank(a.state)
        <5>1. Told(a.state, follows[f].doc)
          BY <4>1, <1>2, StatusIsTold DEF Inv
        <5>2. follows'[f] = follows[f]
          BY <1>1, <1>9
        <5> QED
          BY <5>1, <5>2, <4>1, <2>1, <1>10 DEF Fine, Told
      <4> QED
        BY <4>3, <4>4, <1>5, <1>6, AnswersAssumption DEF Good
    <3> QED
      BY <3>1, <3>2
  <2> QED
    BY <2>1, <2>2, <2>3, <2>4, <2>5, <1>1, <1>9, <1>10 DEF Fine
<1> QED
  BY <1>6, <1>7, <1>8, <1>11, <1>12 DEF Inv

-----------------------------------------------------------------------------
(* The page handles one of its callbacks, which concern one follow.         *)

\* What a callback of one follow leaves to the others.
LEMMA OthersRest ==
    ASSUME Inv, NEW f, UNCHANGED <<status, budget, others>>,
           \A t : t.follow # f => (t \in timers' <=> t \in timers),
           \A r : r.follow # f => (r \in reads' <=> r \in reads),
           NEW g \in DOMAIN follows, g # f, follows'[g] = follows[g]
    PROVE  Fine(g)'
<1>1. TimersOf(g)' = TimersOf(g) /\ ReadsOf(g)' = ReadsOf(g)
  BY DEF TimersOf, ReadsOf
<1>2. Fine(g)
  BY DEF Inv
<1> QED
  BY <1>1, <1>2, Rests DEF Told, Spared

\* A restart begins a run nothing waits for yet.
LEMMA Restarted ==
    ASSUME Inv, NEW f \in DOMAIN follows, NEW left \in SUBSET timers,
           restartFollow(f, left), UNCHANGED <<status, budget, others, generating, note, slot>>,
           \A t : t.follow # f => (t \in left <=> t \in timers)
    PROVE  Inv'
<1> DEFINE n == followRun + 1
           next == Timer("read", f, n, 0)
<1>0. f \in Nat /\ follows \in Seq(Follows) /\ follows[f] \in Follows /\ followRun \in Nat
  BY Indices DEF Inv, FollowTypeOK
<1>1. PICK x : x = follows[f]
  OBVIOUS
<1>2. PICK y : y = Anew(x, n)
  OBVIOUS
<1>3. y \in Follows /\ y.run = n /\ y.phase = "following" /\ y.doc = x.doc /\ y.state = x.state
  <2>1. n \in Nat /\ x \in Follows
    BY <1>0, <1>1
  <2> HIDE DEF n, next
  <2> QED
    BY <2>1, <1>2, Renewed
<1>4. follows' = [follows EXCEPT ![f] = y]
  BY <1>1, <1>2 DEF restartFollow, Anew
<1>5. /\ follows' \in Seq(Follows) /\ Len(follows') = Len(follows) /\ DOMAIN follows' = DOMAIN follows
      /\ follows'[f] = y /\ \A g \in DOMAIN follows : g # f => follows'[g] = follows[g]
  BY <1>0, <1>3, <1>4, Edited
<1>6. followRun' = n /\ timers' = left \cup {next} /\ reads' = reads
  BY DEF restartFollow
<1>7. next \in Timers /\ next.follow = f /\ next.run = n /\ next.attempt = 0
  BY <1>0 DEF Timer, Timers
<1>8. FollowTypeOK'
  BY <1>0, <1>5, <1>6, <1>7 DEF Inv, FollowTypeOK
<1>9. Tied'
  <2>1. \A t \in timers' : t.follow \in DOMAIN follows' /\ t.run <= followRun'
    BY <1>0, <1>5, <1>6, <1>7 DEF Inv, Tied, FollowTypeOK, Timers
  <2>2. \A r \in reads' : r.follow \in DOMAIN follows' /\ r.run <= followRun'
    BY <1>0, <1>5, <1>6 DEF Inv, Tied, FollowTypeOK, Reads
  <2>3. \A g \in DOMAIN follows' : follows'[g].run <= followRun'
    <3>1. \A g \in DOMAIN follows : follows[g].run \in Nat
      BY Indices DEF Inv, Follows
    <3> QED
      BY <1>0, <1>3, <1>5, <1>6, <3>1 DEF Inv, Tied
  <2> QED
    BY <2>1, <2>2, <2>3, <1>5 DEF Inv, Tied, Told
<1>10. \A g \in DOMAIN follows : g # f => Fine(g)'
  BY <1>5, <1>6, <1>7, OthersRest
<1>11. Fine(f)'
  <2>1. TimersOf(f)' = {next} /\ ReadsOf(f)' = {}
    <3>1. \A t \in left : t.run # n
      BY <1>0 DEF Inv, Tied, FollowTypeOK, Timers
    <3>2. \A r \in reads : r.run # n
      BY <1>0 DEF Inv, Tied, FollowTypeOK, Reads
    <3> QED
      BY <3>1, <3>2, <1>3, <1>5, <1>6, <1>7 DEF TimersOf, ReadsOf
  <2>2. Waits(f)'
    BY <2>1, <1>3, <1>5 DEF Waits, Active
  <2>3. Fine(f)
    BY DEF Inv
  <2>4. Told(follows[f].state, follows[f].doc)'
    BY <2>3, <1>1, <1>3, <1>5 DEF Fine, Told
  <2> QED
    BY <2>1, <2>2, <2>4, <1>3, <1>5, <1>7 DEF Fine
<1> QED
  BY <1>5, <1>8, <1>9, <1>10, <1>11 DEF Inv

LEMMA CheckAgainStep ==
    ASSUME Inv, CheckAgain
    PROVE  Inv'
<1>1. slot.target \in DOMAIN follows
  BY DEF Inv, Tied, CheckAgain
<1> QED
  BY <1>1, Restarted DEF CheckAgain, server

\* A timeout is due: an older run's, the next read's, or the end of Retry-After.
LEMMA FireStep ==
    ASSUME Inv, NEW t \in timers, Fire(t)
    PROVE  Inv'
<1> DEFINE f == t.follow
<1>0. /\ t \in Timers /\ f \in DOMAIN follows /\ f \in Nat /\ follows \in Seq(Follows)
      /\ follows[f] \in Follows /\ t.run <= followRun /\ followRun \in Nat
  BY Indices DEF Inv, FollowTypeOK, Tied
<1>1. UNCHANGED <<status, budget, others, generating, note, slot>>
  BY DEF Fire, server
<1>2. CASE t.run # follows[f].run /\ timers' = timers \ {t} /\ UNCHANGED <<follows, followRun, reads>>
  <2>1. \A g \in DOMAIN follows : TimersOf(g)' = TimersOf(g) /\ ReadsOf(g)' = ReadsOf(g)
    BY <1>2 DEF TimersOf, ReadsOf
  <2>2. \A g \in DOMAIN follows : Fine(g)'
    BY <2>1, <1>1, <1>2, Rests DEF Inv, Told, Spared
  <2> QED
    BY <2>2, <1>1, <1>2 DEF Inv, FollowTypeOK, Tied, Told
<1>3. CASE /\ t.run = follows[f].run /\ t.kind = "read" /\ timers' = timers \ {t}
           /\ readState(follows, f, t.attempt) /\ UNCHANGED followRun
  <2>1. Fine(f) /\ t \in TimersOf(f)
    BY <1>0, <1>3 DEF Inv, TimersOf
  <2>2. Active(f) /\ TimersOf(f) = {t} /\ ReadsOf(f) = {}
    BY <2>1 DEF Fine, Waits
  <2>3. PICK x : x = follows[f]
    OBVIOUS
  <2>4. x \in Follows /\ x.run = t.run
    BY <1>0, <1>3, <2>3
  <2>6. CASE /\ follows' = [follows EXCEPT ![f].reads = @ + 1]
             /\ reads' = reads \cup {[follow |-> f, run |-> follows[f].run, attempt |-> t.attempt, answer |-> Nil]}
    <3>1. PICK y : y = [x EXCEPT !.reads = @ + 1]
      OBVIOUS
    <3>2. y \in Follows /\ y.run = x.run /\ y.phase = x.phase /\ y.doc = x.doc /\ y.state = x.state
      BY <2>4, <3>1, ReadOnce
    <3>3. follows' = [follows EXCEPT ![f] = y]
      BY <2>3, <2>6, <3>1
    <3>4. /\ follows' \in Seq(Follows) /\ Len(follows') = Len(follows) /\ DOMAIN follows' = DOMAIN follows
          /\ follows'[f] = y /\ \A g \in DOMAIN follows : g # f => follows'[g] = follows[g]
      BY <1>0, <3>2, <3>3, Edited
    <3>5. PICK q : q = [follow |-> f, run |-> follows[f].run, attempt |-> t.attempt, answer |-> Nil]
      OBVIOUS
    <3>6. q \in Reads /\ q.follow = f /\ q.run = t.run /\ q.attempt = t.attempt /\ q.answer = Nil
      BY <1>0, <1>3, <3>5 DEF Reads, Timers, Follows
    <3>7. reads' = reads \cup {q}
      BY <2>6, <3>5
    <3>8. FollowTypeOK'
      BY <1>1, <1>3, <3>4, <3>6, <3>7 DEF Inv, FollowTypeOK
    <3>9. Tied'
      <4>1. \A g \in DOMAIN follows' : follows'[g].run <= followRun'
        BY <1>3, <2>3, <3>2, <3>4 DEF Inv, Tied
      <4>2. \A r \in reads' : r.follow \in DOMAIN follows' /\ r.run <= followRun'
        BY <1>0, <1>3, <3>4, <3>6, <3>7 DEF Inv, Tied
      <4> QED
        BY <4>1, <4>2, <1>1, <1>3, <3>4 DEF Inv, Tied, Told
    <3>10. \A g \in DOMAIN follows : g # f => Fine(g)'
      BY <1>1, <1>3, <3>4, <3>6, <3>7, OthersRest
    <3>11. Fine(f)'
      <4>1. TimersOf(f)' = {} /\ ReadsOf(f)' = {q}
        BY <2>2, <2>3, <2>4, <1>3, <3>2, <3>4, <3>6, <3>7 DEF TimersOf, ReadsOf
      <4>2. Waits(f)'
        BY <4>1, <2>2, <2>3, <3>2, <3>4 DEF Waits, Active
      <4>3. Told(follows[f].state, follows[f].doc)'
        BY <2>1, <2>3, <1>1, <3>2, <3>4 DEF Fine, Told
      <4>4. Good(f, q)'
        BY <2>1, <1>1, <3>6 DEF Good, Fine, Spared
      <4> QED
        BY <4>1, <4>2, <4>3, <4>4, <2>1, <2>3, <3>2, <3>4 DEF Fine
    <3> QED
      BY <3>4, <3>8, <3>9, <3>10, <3>11 DEF Inv
  <2>7. CASE follows' = [follows EXCEPT ![f].phase = "no-credential"] /\ reads' = reads
    <3>1. PICK y : y = [x EXCEPT !.phase = "no-credential"]
      OBVIOUS
    <3>2. y \in Follows /\ y.run = x.run /\ y.phase = "no-credential" /\ y.doc = x.doc /\ y.state = x.state
      BY <2>4, <3>1, Phased DEF Phases
    <3>3. follows' = [follows EXCEPT ![f] = y]
      BY <2>3, <2>7, <3>1
    <3>4. /\ follows' \in Seq(Follows) /\ Len(follows') = Len(follows) /\ DOMAIN follows' = DOMAIN follows
          /\ follows'[f] = y /\ \A g \in DOMAIN follows : g # f => follows'[g] = follows[g]
      BY <1>0, <3>2, <3>3, Edited
    <3>5. FollowTypeOK'
      BY <1>1, <1>3, <2>7, <3>4 DEF Inv, FollowTypeOK
    <3>6. Tied'
      <4>1. \A g \in DOMAIN follows' : follows'[g].run <= followRun'
        BY <1>3, <2>3, <3>2, <3>4 DEF Inv, Tied
      <4> QED
        BY <4>1, <1>1, <1>3, <2>7, <3>4 DEF Inv, Tied, Told
    <3>7. \A g \in DOMAIN follows : g # f => Fine(g)'
      BY <1>1, <1>3, <2>7, <3>4, OthersRest
    <3>8. Fine(f)'
      <4>1. TimersOf(f)' = {} /\ ReadsOf(f)' = {}
        BY <2>2, <2>3, <2>7, <1>3, <3>2, <3>4 DEF TimersOf, ReadsOf
      <4>2. Waits(f)'
        BY <4>1, <3>2, <3>4 DEF Waits, Active
      <4>3. Told(follows[f].state, follows[f].doc)'
        BY <2>1, <2>3, <1>1, <3>2, <3>4 DEF Fine, Told
      <4> QED
        BY <4>1, <4>2, <4>3, <3>2, <3>4 DEF Fine
    <3> QED
      BY <3>4, <3>5, <3>6, <3>7, <3>8 DEF Inv
  <2> QED
    BY <1>3, <2>6, <2>7 DEF readState
<1>4. CASE restartFollow(f, timers \ {t})
  BY <1>0, <1>1, <1>4, Restarted
<1> QED
  BY <1>2, <1>3, <1>4 DEF Fire

\* What a follow makes of an answer it listens to.
LEMMA Heard ==
    ASSUME Inv, NEW r \in reads, Listens(r), NEW a \in {r.answer, Failure} \ {Nil},
           NEW x, x = follows[r.follow], NEW y, y = Taken(r, a, x)
    PROVE  /\ y \in Follows /\ y.run = x.run /\ y.doc = x.doc
           /\ Told(y.state, y.doc) /\ Rank(x.state) <= Rank(y.state)
           /\ y.phase = "ended" => isTerminal(y.state)
           /\ \/ y.phase \notin {"following", "rate-limited"} /\ Sets(r, a) = {}
              \/ /\ y.phase \in {"following", "rate-limited"}
                 /\ \E t \in Timers : /\ Sets(r, a) = {t} /\ t.follow = r.follow /\ t.run = r.run
                                      /\ t.attempt > 0 => Spared(r.follow)
<1> DEFINE f == r.follow
<1>1. r \in Reads /\ f \in DOMAIN follows /\ x \in Follows /\ x.run = r.run
  BY Indices DEF Inv, FollowTypeOK, Tied, Listens
<1>2. Fine(f) /\ Good(f, r)
  BY <1>1 DEF Inv, Fine, ReadsOf
<1>3. Told(x.state, x.doc)
  BY <1>2 DEF Fine
<1>4. Rank(x.state) <= Rank(x.state)
  BY DEF Rank
<1>5. /\ f \in Nat /\ r.run \in Nat /\ r.attempt \in Nat
      /\ r.answer \in ReadAnswers \cup {Nil}
  BY <1>1 DEF Reads
<1>6. CASE a = Failure
  <2>1. a.status = 503
    BY <1>6 DEF Failure
  <2>2. y \in Follows /\ y.phase = "error" /\ y.state = x.state /\ y.run = x.run /\ y.doc = x.doc
    BY <2>1, <1>1, Shown
  <2>3. Sets(r, a) = {}
    BY <2>1 DEF Sets
  <2> QED
    BY <2>2, <2>3, <1>3, <1>4
<1>7. CASE a # Failure /\ a.status = 429
  <2>1. y \in Follows /\ y.phase = "rate-limited" /\ y.state = x.state /\ y.run = x.run /\ y.doc = x.doc
    BY <1>1, <1>7, Shown
  <2>2. PICK t : t = Timer("resume", f, r.run, 0)
    OBVIOUS
  <2>3. t \in Timers /\ t.follow = f /\ t.run = r.run /\ t.attempt = 0
    BY <1>5, <2>2 DEF Timer, Timers
  <2>4. Sets(r, a) = {t}
    BY <1>7, <2>2 DEF Sets
  <2> QED
    BY <2>1, <2>3, <2>4, <1>3, <1>4
<1>8. CASE a # Failure /\ a.status # 429
  <2>1. a \in ReadAnswers /\ a = r.answer /\ r.answer # Nil
    BY <1>5, <1>8, AnswersAssumption
  <2>2. a.status = 200 /\ a.state \in States /\ a.remaining \in Nat
    BY <2>1, <1>8 DEF ReadAnswers
  <2>3. /\ Told(a.state, x.doc) /\ Rank(x.state) <= Rank(a.state)
        /\ a.remaining > Reserve => Spared(f)
    BY <2>1, <2>2, <1>2 DEF Good
  <2> DEFINE p == NextPhase(a.state, a, r.attempt)
  <2>4. y \in Follows /\ y.phase = p /\ y.state = a.state /\ y.run = x.run /\ y.doc = x.doc
    BY <2>2, <1>1, Shown
  <2>5. /\ p = "ended" => isTerminal(a.state)
        /\ p = "following" => a.remaining > Reserve
        /\ p # "rate-limited"
    BY <2>2, NumbersAssumption DEF NextPhase
  <2>6. CASE p = "following"
    <3>1. PICK t : t = Timer("read", f, r.run, r.attempt + 1)
      OBVIOUS
    <3>2. t \in Timers /\ t.follow = f /\ t.run = r.run
      BY <1>5, <3>1 DEF Timer, Timers
    <3>3. Sets(r, a) = {t}
      BY <2>2, <2>6, <3>1 DEF Sets
    <3>4. y.phase \in {"following", "rate-limited"} /\ y.phase # "ended"
      BY <2>4, <2>6
    <3>5. Spared(f)
      BY <2>3, <2>5, <2>6
    <3> QED
      BY <2>3, <2>4, <3>2, <3>3, <3>4, <3>5
  <2>7. CASE p # "following"
    <3>1. Sets(r, a) = {}
      BY <2>2, <2>7 DEF Sets
    <3>2. y.phase \notin {"following", "rate-limited"} /\ (y.phase = "ended" => isTerminal(y.state))
      BY <2>4, <2>5, <2>7
    <3> QED
      BY <2>3, <2>4, <3>1, <3>2
  <2> QED
    BY <2>6, <2>7
<1> QED
  BY <1>6, <1>7, <1>8

\* A fetch settles.
LEMMA ArriveStep ==
    ASSUME Inv, NEW r \in reads, Arrive(r)
    PROVE  Inv'
<1> DEFINE f == r.follow
<1>0. /\ r \in Reads /\ f \in DOMAIN follows /\ follows \in Seq(Follows)
      /\ follows[f] \in Follows /\ r.run <= followRun
  BY Indices DEF Inv, FollowTypeOK, Tied
<1>1. UNCHANGED <<status, budget, others, followRun, generating, note, slot>> /\ reads' = reads \ {r}
  BY DEF Arrive, server
<1>2. CASE ~Listens(r) /\ UNCHANGED <<follows, timers>>
  <2>1. \A g \in DOMAIN follows : TimersOf(g)' = TimersOf(g) /\ ReadsOf(g)' = ReadsOf(g)
    BY <1>1, <1>2 DEF TimersOf, ReadsOf, Listens
  <2>2. \A g \in DOMAIN follows : Fine(g)'
    BY <2>1, <1>1, <1>2, Rests DEF Inv, Told, Spared
  <2> QED
    BY <2>2, <1>1, <1>2 DEF Inv, FollowTypeOK, Tied, Told
<1>3. CASE /\ Listens(r)
           /\ \E a \in {r.answer, Failure} \ {Nil} :
                 /\ follows' = [follows EXCEPT ![f] = Taken(r, a, @)]
                 /\ timers' = timers \cup Sets(r, a)
  <2>1. PICK a \in {r.answer, Failure} \ {Nil} :
                 /\ follows' = [follows EXCEPT ![f] = Taken(r, a, @)]
                 /\ timers' = timers \cup Sets(r, a)
    BY <1>3
  <2>2. PICK x : x = follows[f]
    OBVIOUS
  <2>3. PICK y : y = Taken(r, a, x)
    OBVIOUS
  <2>4. /\ y \in Follows /\ y.run = x.run /\ y.doc = x.doc /\ Told(y.state, y.doc)
        /\ y.phase = "ended" => isTerminal(y.state)
        /\ \/ y.phase \notin {"following", "rate-limited"} /\ Sets(r, a) = {}
           \/ /\ y.phase \in {"following", "rate-limited"}
              /\ \E t \in Timers : /\ Sets(r, a) = {t} /\ t.follow = f /\ t.run = r.run
                                   /\ t.attempt > 0 => Spared(f)
    BY <1>3, <2>2, <2>3, Heard
  <2>5. follows' = [follows EXCEPT ![f] = y]
    BY <2>1, <2>2, <2>3
  <2>6. /\ follows' \in Seq(Follows) /\ Len(follows') = Len(follows) /\ DOMAIN follows' = DOMAIN follows
        /\ follows'[f] = y /\ \A g \in DOMAIN follows : g # f => follows'[g] = follows[g]
    BY <1>0, <2>4, <2>5, Edited
  <2>7. \A t \in Sets(r, a) : t \in Timers /\ t.follow = f /\ t.run = r.run
    BY <2>4
  <2>8. FollowTypeOK'
    BY <1>1, <2>1, <2>6, <2>7 DEF Inv, FollowTypeOK
  <2>9. Tied'
    <3>1. \A t \in timers' : t.follow \in DOMAIN follows' /\ t.run <= followRun'
      BY <1>0, <1>1, <2>1, <2>6, <2>7 DEF Inv, Tied
    <3>2. \A g \in DOMAIN follows' : follows'[g].run <= followRun'
      BY <1>0, <1>1, <2>2, <2>4, <2>6 DEF Inv, Tied
    <3> QED
      BY <3>1, <3>2, <1>1, <2>6 DEF Inv, Tied, Told
  <2>10. \A g \in DOMAIN follows : g # f => Fine(g)'
    BY <1>1, <2>1, <2>6, <2>7, OthersRest
  <2>11. Fine(f)'
    <3>1. TimersOf(f) = {} /\ ReadsOf(f) = {r} /\ x.run = r.run
      <4>1. r \in ReadsOf(f) /\ Fine(f)
        BY <1>0, <1>3 DEF Inv, ReadsOf, Listens
      <4> QED
        BY <4>1, <1>3, <2>2 DEF Fine, Waits, Listens
    <3>2. TimersOf(f)' = Sets(r, a)
      BY <3>1, <2>1, <2>2, <2>4, <2>6, <2>7 DEF TimersOf
    <3>3. ReadsOf(f)' = {}
      BY <3>1, <1>1, <2>2, <2>4, <2>6 DEF ReadsOf
    <3>4. Waits(f)'
      BY <3>2, <3>3, <2>4, <2>6 DEF Waits, Active
    <3>5. Told(follows[f].state, follows[f].doc)'
      BY <1>1, <2>4, <2>6 DEF Told
    <3>6. \A t \in TimersOf(f)' : t.attempt > 0 => Spared(f)'
      BY <1>1, <2>4, <3>2 DEF Spared
    <3> QED
      BY <3>3, <3>4, <3>5, <3>6, <2>4, <2>6 DEF Fine
  <2> QED
    BY <2>6, <2>8, <2>9, <2>10, <2>11 DEF Inv
<1> QED
  BY <1>2, <1>3 DEF Arrive

-----------------------------------------------------------------------------
(* The answer of a generate call, and the note.                             *)

\* A follow is added, in a run of its own: it waits for a timeout, or for a
\* read, or says that there is no key.
LEMMA Begun ==
    ASSUME Inv, generating # Nil, UNCHANGED <<status, budget, others, slot>>, generating' = Nil,
           NEW k, k = Len(follows) + 1, note' = k, NEW y \in Follows,
           y.run = followRun + 1, Told(y.state, y.doc),
           follows' \in Seq(Follows), Len(follows') = k, DOMAIN follows' = DOMAIN follows \cup {k},
           follows'[k] = y, \A g \in DOMAIN follows : follows'[g] = follows[g],
           followRun' = followRun + 1,
           timers \subseteq timers', reads \subseteq reads',
           \A t \in timers' \ timers : t \in Timers /\ t.follow = k /\ t.run = y.run /\ t.attempt = 0,
           \A r \in reads' \ reads :
                r \in Reads /\ r.follow = k /\ r.run = y.run /\ r.attempt = 0 /\ r.answer = Nil,
           y.phase # "ended", Waits(k)'
    PROVE  Inv'
<1>1. /\ follows \in Seq(Follows) /\ Len(follows) \in Nat /\ DOMAIN follows = 1 .. Len(follows)
      /\ k \in Nat /\ k \notin DOMAIN follows /\ followRun \in Nat
  BY DEF Inv, FollowTypeOK
<1>2. FollowTypeOK'
  BY <1>1 DEF Inv, FollowTypeOK
<1>3. Tied'
  <2>1. \A t \in timers' : t.follow \in DOMAIN follows' /\ t.run <= followRun'
    BY <1>1 DEF Inv, Tied, FollowTypeOK, Timers
  <2>2. \A r \in reads' : r.follow \in DOMAIN follows' /\ r.run <= followRun'
    BY <1>1 DEF Inv, Tied, FollowTypeOK, Reads
  <2>3. \A g \in DOMAIN follows' : follows'[g].run <= followRun'
    <3>1. \A g \in DOMAIN follows : follows[g].run \in Nat
      BY Indices DEF Inv, Follows
    <3> QED
      BY <1>1, <3>1 DEF Inv, Tied
  <2>4. Len(follows') <= MaxFollows
    BY <1>1, NumbersAssumption DEF Inv, Tied
  <2> QED
    BY <2>1, <2>2, <2>3, <2>4 DEF Inv, Tied
<1>4. ASSUME NEW g \in DOMAIN follows
      PROVE  Fine(g)'
  <2>1. g # k
    BY <1>1
  <2>2. \A t : t.follow # k => (t \in timers' <=> t \in timers)
    OBVIOUS
  <2>3. \A r : r.follow # k => (r \in reads' <=> r \in reads)
    OBVIOUS
  <2> QED
    BY <2>1, <2>2, <2>3, OthersRest
<1>5. Fine(k)'
  <2>1. TimersOf(k)' = timers' \ timers /\ ReadsOf(k)' = reads' \ reads
    BY <1>1 DEF TimersOf, ReadsOf, Inv, Tied
  <2>2. Told(follows[k].state, follows[k].doc)'
    BY DEF Told
  <2> QED
    BY <2>1, <2>2 DEF Fine, Good
<1> QED
  BY <1>2, <1>3, <1>4, <1>5 DEF Inv

LEMMA startFollowStep ==
    ASSUME Inv, captureResponses, startFollow
    PROVE  Inv'
<1>1. /\ generating # Nil /\ generating' = Nil /\ UNCHANGED <<status, budget, others, slot>>
      /\ followRun \in Nat /\ follows \in Seq(Follows) /\ Len(follows) \in Nat
  BY DEF captureResponses, server, Inv, FollowTypeOK
<1>2. generating.doc \in FollowDocs
  BY <1>1 DEF Inv, FollowTypeOK, GenerateCalls
<1>3. PICK y : y = Started(generating.doc, "PENDING")
  OBVIOUS
<1>4. /\ y \in Follows /\ y.run = followRun + 1 /\ y.phase = "following"
      /\ y.doc = generating.doc /\ y.state = "PENDING"
  BY <1>1, <1>2, <1>3, NewFollow DEF States
<1>5. Told(y.state, y.doc)
  <2>1. status[generating.doc] \in States
    BY <1>2 DEF Inv, FollowTypeOK
  <2> QED
    BY <1>4, <2>1 DEF Told, Rank, isTerminal, States
<1>6. PICK k : k = Len(follows) + 1
  OBVIOUS
<1>7. /\ follows' \in Seq(Follows) /\ Len(follows') = k /\ DOMAIN follows' = DOMAIN follows \cup {k}
      /\ follows'[k] = y /\ \A g \in DOMAIN follows : follows'[g] = follows[g]
  BY <1>1, <1>3, <1>4, <1>6, Appended DEF startFollow
<1>8. PICK t : t = Timer("read", k, followRun + 1, 0)
  OBVIOUS
<1>9. t \in Timers /\ t.follow = k /\ t.run = y.run /\ t.attempt = 0
  BY <1>1, <1>4, <1>6, <1>8 DEF Timer, Timers
<1>10. followRun' = followRun + 1 /\ timers' = timers \cup {t} /\ reads' = reads /\ note' = k
  BY <1>6, <1>8 DEF startFollow
<1>11. Waits(k)'
  <2>1. k \notin DOMAIN follows
    BY <1>1, <1>6
  <2>2. TimersOf(k)' = {t} /\ ReadsOf(k)' = {}
    BY <2>1, <1>4, <1>7, <1>9, <1>10 DEF TimersOf, ReadsOf, Inv, Tied
  <2> QED
    BY <2>2, <1>4, <1>7 DEF Waits, Active
<1>12. \A u \in timers' \ timers : u \in Timers /\ u.follow = k /\ u.run = y.run /\ u.attempt = 0
  BY <1>9, <1>10
<1> QED
  BY <1>1, <1>4, <1>5, <1>6, <1>7, <1>10, <1>11, <1>12, Begun

LEMMA resumeFollowStep ==
    ASSUME Inv, captureResponses, resumeFollow
    PROVE  Inv'
<1>1. /\ generating # Nil /\ generating' = Nil /\ UNCHANGED <<status, budget, others, slot>>
      /\ followRun \in Nat /\ follows \in Seq(Follows) /\ Len(follows) \in Nat
      /\ generating.answer \in States
  BY DEF captureResponses, resumeFollow, server, Inv, FollowTypeOK
<1>2. generating.doc \in FollowDocs /\ Told(generating.answer, generating.doc)
  BY <1>1 DEF Inv, FollowTypeOK, GenerateCalls, Tied
<1>3. PICK x : x = Started(generating.doc, generating.answer)
  OBVIOUS
<1>4. /\ x \in Follows /\ x.run = followRun + 1 /\ x.phase = "following"
      /\ x.doc = generating.doc /\ x.state = generating.answer
  BY <1>1, <1>2, <1>3, NewFollow
<1>5. PICK k : k = Len(follows) + 1
  OBVIOUS
<1>6. PICK fs : fs = Append(follows, x)
  OBVIOUS
<1>7. /\ fs \in Seq(Follows) /\ Len(fs) = k /\ DOMAIN fs = DOMAIN follows \cup {k}
      /\ k \notin DOMAIN follows
      /\ fs[k] = x /\ \A g \in DOMAIN follows : fs[g] = follows[g]
  BY <1>1, <1>4, <1>5, <1>6, Appended
<1>8. followRun' = followRun + 1 /\ timers' = timers /\ note' = k /\ readState(fs, k, 0)
  BY <1>3, <1>5, <1>6 DEF resumeFollow
<1>10. CASE /\ follows' = [fs EXCEPT ![k].reads = @ + 1]
            /\ reads' = reads \cup {[follow |-> k, run |-> fs[k].run, attempt |-> 0, answer |-> Nil]}
  <2>1. PICK y : y = [x EXCEPT !.reads = @ + 1]
    OBVIOUS
  <2>2. y \in Follows /\ y.run = x.run /\ y.phase = x.phase /\ y.doc = x.doc /\ y.state = x.state
    BY <1>4, <2>1, ReadOnce
  <2>3. follows' = [fs EXCEPT ![k] = y]
    BY <1>7, <1>10, <2>1
  <2>4. /\ follows' \in Seq(Follows) /\ Len(follows') = k /\ DOMAIN follows' = DOMAIN follows \cup {k}
        /\ follows'[k] = y /\ \A g \in DOMAIN follows : follows'[g] = follows[g]
    <3>1. k \in DOMAIN fs
      BY <1>7
    <3>2. /\ follows' \in Seq(Follows) /\ Len(follows') = Len(fs) /\ DOMAIN follows' = DOMAIN fs
          /\ follows'[k] = y /\ \A g \in DOMAIN fs : g # k => follows'[g] = fs[g]
      BY <1>7, <2>2, <2>3, <3>1, Edited
    <3> QED
      BY <1>7, <3>2
  <2>5. PICK q : q = [follow |-> k, run |-> fs[k].run, attempt |-> 0, answer |-> Nil]
    OBVIOUS
  <2>6. q \in Reads /\ q.follow = k /\ q.run = y.run /\ q.attempt = 0 /\ q.answer = Nil
    BY <1>1, <1>4, <1>5, <1>7, <2>2, <2>5 DEF Reads
  <2>7. reads' = reads \cup {q} /\ {q} \in SUBSET Reads
    BY <1>10, <2>5, <2>6
  <2>8. Told(y.state, y.doc) /\ y.run = followRun + 1 /\ y.phase = "following"
    BY <1>2, <1>4, <2>2
  <2>9. Waits(k)'
    <3>1. TimersOf(k)' = {} /\ ReadsOf(k)' = {q}
      BY <1>7, <1>8, <2>4, <2>6, <2>7 DEF TimersOf, ReadsOf, Inv, Tied
    <3> QED
      BY <3>1, <2>4, <2>8 DEF Waits, Active
  <2>10. \A r \in reads' \ reads : r \in Reads /\ r.follow = k /\ r.run = y.run /\ r.attempt = 0 /\ r.answer = Nil
    BY <2>6, <2>7
  <2> QED
    BY <1>1, <1>5, <1>8, <2>2, <2>4, <2>7, <2>8, <2>9, <2>10, Begun
<1>11. CASE follows' = [fs EXCEPT ![k].phase = "no-credential"] /\ reads' = reads
  <2>1. PICK y : y = [x EXCEPT !.phase = "no-credential"]
    OBVIOUS
  <2>2. y \in Follows /\ y.run = x.run /\ y.phase = "no-credential" /\ y.doc = x.doc /\ y.state = x.state
    BY <1>4, <2>1, Phased DEF Phases
  <2>3. follows' = [fs EXCEPT ![k] = y]
    BY <1>7, <1>11, <2>1
  <2>4. /\ follows' \in Seq(Follows) /\ Len(follows') = k /\ DOMAIN follows' = DOMAIN follows \cup {k}
        /\ follows'[k] = y /\ \A g \in DOMAIN follows : follows'[g] = follows[g]
    <3>1. k \in DOMAIN fs
      BY <1>7
    <3>2. /\ follows' \in Seq(Follows) /\ Len(follows') = Len(fs) /\ DOMAIN follows' = DOMAIN fs
          /\ follows'[k] = y /\ \A g \in DOMAIN fs : g # k => follows'[g] = fs[g]
      BY <1>7, <2>2, <2>3, <3>1, Edited
    <3> QED
      BY <1>7, <3>2
  <2>5. Told(y.state, y.doc) /\ y.run = followRun + 1 /\ reads' = reads
    BY <1>2, <1>4, <1>11, <2>2
  <2>6. Waits(k)'
    <3>1. TimersOf(k)' = {} /\ ReadsOf(k)' = {}
      BY <1>7, <1>8, <2>4, <2>5 DEF TimersOf, ReadsOf, Inv, Tied
    <3> QED
      BY <3>1, <2>2, <2>4 DEF Waits, Active
  <2> QED
    BY <1>1, <1>5, <1>8, <2>2, <2>4, <2>5, <2>6, Begun
<1> QED
  BY <1>8, <1>10, <1>11 DEF readState

LEMMA captureStep ==
    ASSUME Inv, captureResponses
    PROVE  Inv'
<1>1. CASE generating.answer = "refused" /\ note' = Nil /\ UNCHANGED page
  <2>1. generating' = Nil /\ UNCHANGED <<status, budget, others, slot>> /\ UNCHANGED page
    BY <1>1 DEF captureResponses, server
  <2>2. \A f \in DOMAIN follows' : Fine(f)'
    BY <2>1, PageRests DEF Told, Spared
  <2> QED
    BY <1>1, <2>1, <2>2 DEF Inv, FollowTypeOK, Tied, page
<1> QED
  BY <1>1, startFollowStep, resumeFollowStep DEF captureResponses

LEMMA paintStep ==
    ASSUME Inv, paintResponseNotes
    PROVE  Inv'
<1>1. UNCHANGED <<status, budget, others, generating, note>> /\ UNCHANGED page
  BY DEF paintResponseNotes, server
<1>2. slot' \in Slots \cup {Nil} /\ (slot' # Nil => slot'.target \in DOMAIN follows)
  <2>1. CASE slot' = Nil
    BY <2>1
  <2>2. CASE note # Nil /\ slot' = Painted(note)
    <3>1. note \in DOMAIN follows /\ note \in Nat /\ follows[note] \in Follows
      BY <2>2, Indices DEF Inv, FollowTypeOK
    <3>2. Painted(note) \in Slots /\ Painted(note).target = note
      BY <3>1 DEF Painted, Slots, Follows
    <3> QED
      BY <2>2, <3>1, <3>2
  <2> QED
    BY <2>1, <2>2 DEF paintResponseNotes
<1>3. \A f \in DOMAIN follows' : Fine(f)'
  BY <1>1, PageRests DEF Told, Spared
<1> QED
  BY <1>1, <1>2, <1>3 DEF Inv, FollowTypeOK, Tied, page, Told

-----------------------------------------------------------------------------
(* The invariant, and what it says of the runs.                             *)

LEMMA InitInv == FollowInit => Inv
<1> SUFFICES ASSUME FollowInit PROVE Inv
  OBVIOUS
<1>1. FollowTypeOK
  BY NumbersAssumption DEF FollowInit, FollowTypeOK, States
<1>2. DOMAIN follows = {}
  BY DEF FollowInit
<1> QED
  BY <1>1, <1>2, NumbersAssumption DEF FollowInit, Inv, Tied

LEMMA StepInv == Inv /\ [FollowNext]_followVars => Inv'
<1> SUFFICES ASSUME Inv, [FollowNext]_followVars
             PROVE  Inv'
  OBVIOUS
<1>1. CASE UNCHANGED followVars
  <2>1. UNCHANGED page
    BY <1>1 DEF followVars, page
  <2>2. \A f \in DOMAIN follows' : Fine(f)'
    BY <1>1, <2>1, PageRests DEF followVars, Told, Spared
  <2> QED
    BY <1>1, <2>2 DEF followVars, Inv, FollowTypeOK, Tied, Told
<1>2. CASE \E d \in FollowDocs : Progress(d) \/ Execute(d)
  BY <1>2, ProgressStep, ExecuteStep
<1>3. CASE Refill \/ Spend
  BY <1>3, RefillStep, SpendStep
<1>4. CASE \E r \in reads : Serve(r) \/ Arrive(r)
  BY <1>4, ServeStep, ArriveStep
<1>5. CASE \E t \in timers : Fire(t)
  BY <1>5, FireStep
<1>6. CASE captureResponses \/ paintResponseNotes \/ CheckAgain
  BY <1>6, captureStep, paintStep, CheckAgainStep
<1> QED
  BY <1>1, <1>2, <1>3, <1>4, <1>5, <1>6 DEF FollowNext

LEMMA Invariance == FollowSpec => []Inv
BY InitInv, StepInv, PTL DEF FollowSpec

\* Every state has the types the module declares.
THEOREM TypeCorrect == FollowSpec => []FollowTypeOK
<1>1. Inv => FollowTypeOK
  BY DEF Inv
<1> QED
  BY <1>1, Invariance, PTL

\* A follow waits for exactly one thing while it reads on, and for none once it
\* stopped, whatever clicks and late answers the page met.
THEOREM OneChainAlways == FollowSpec => []OneChain
<1>1. Inv => OneChain
  <2> SUFFICES ASSUME Inv, NEW f \in DOMAIN follows
               PROVE  Cardinality(Continuations(f)) =
                        IF follows[f].phase \in {"following", "rate-limited"} THEN 1 ELSE 0
    BY DEF OneChain
  <2>1. Continuations(f) = TimersOf(f) \cup ReadsOf(f)
    BY DEF Continuations, TimersOf, ReadsOf
  <2>2. Waits(f)
    BY DEF Inv, Fine
  <2>3. CASE ~Active(f)
    <3>1. Continuations(f) = {}
      BY <2>1, <2>2, <2>3 DEF Waits
    <3> QED
      BY <2>3, <3>1, FS_EmptySet DEF Active
  <2>4. CASE Active(f)
    <3>1. PICK c : Continuations(f) = {c}
      BY <2>1, <2>2, <2>4 DEF Waits
    <3> QED
      BY <2>4, <3>1, FS_Singleton DEF Active
  <2> QED
    BY <2>3, <2>4
<1> QED
  BY <1>1, Invariance, PTL

\* No follow shows a state its document has not reached, and one that has ended
\* shows the outcome.
THEOREM ShownIsTrueAlways == FollowSpec => []ShownIsTrue
<1>1. Inv => ShownIsTrue
  BY DEF Inv, Fine, Told, ShownIsTrue
<1> QED
  BY <1>1, Invariance, PTL

\* A run that is about to read again by itself finds more than the reserve, but
\* for what others took since it read last.
THEOREM ReserveIsTheReadersAlways == FollowSpec => []ReserveIsTheReaders
<1>1. Inv => ReserveIsTheReaders
  <2> SUFFICES ASSUME Inv, NEW f \in DOMAIN follows, NEW c \in Continuations(f),
                      c.attempt > 0, c \in reads => c.answer = Nil
               PROVE  budget + others[f] > Reserve
    BY DEF ReserveIsTheReaders
  <2>1. Fine(f) /\ (c \in TimersOf(f) \/ c \in ReadsOf(f))
    BY DEF Inv, Continuations, TimersOf, ReadsOf
  <2> QED
    BY <2>1 DEF Fine, Good, Spared, ReadsOf
<1> QED
  BY <1>1, Invariance, PTL

\* What a follow shows never goes back: only an answer it listens to moves it,
\* and that answer was given after the one it shows.
THEOREM NeverBackAlways == FollowSpec => NeverBack
<1> DEFINE Kept == \A f \in DOMAIN follows : Rank(follows[f].state) <= Rank(follows'[f].state)
<1>1. \A s : Rank(s) <= Rank(s)
  BY DEF Rank
<1>2. Inv /\ [FollowNext]_followVars => [Kept]_followVars
  <2> SUFFICES ASSUME Inv, FollowNext, NEW f \in DOMAIN follows
               PROVE  Rank(follows[f].state) <= Rank(follows'[f].state)
    OBVIOUS
  <2>0. follows \in Seq(Follows) /\ follows[f] \in Follows /\ \A g \in DOMAIN follows : follows[g] \in Follows
    BY Indices DEF Inv, FollowTypeOK
  <2>1. CASE UNCHANGED follows
    BY <1>1, <2>1
  <2>2. ASSUME NEW g \in DOMAIN follows, NEW left, restartFollow(g, left)
        PROVE  follows'[f].state = follows[f].state
    <3>1. PICK x : x = follows[g]
      OBVIOUS
    <3>2. PICK y : y = Anew(x, followRun + 1)
      OBVIOUS
    <3>3. y \in Follows /\ y.state = x.state
      <4>1. followRun + 1 \in Nat
        BY DEF Inv, FollowTypeOK
      <4> QED
        BY <2>0, <3>1, <3>2, <4>1, Renewed
    <3>4. follows' = [follows EXCEPT ![g] = y]
      BY <2>2, <3>1, <3>2 DEF restartFollow, Anew
    <3> QED
      BY <2>0, <3>1, <3>3, <3>4
  <2>3. ASSUME NEW fs \in Seq(Follows), NEW g \in DOMAIN fs, NEW n, readState(fs, g, n), NEW h \in DOMAIN fs
        PROVE  follows'[h].state = fs[h].state
    <3>1. PICK x : x = fs[g]
      OBVIOUS
    <3>2. CASE follows' = [fs EXCEPT ![g].reads = @ + 1]
      <4>1. PICK y : y = [x EXCEPT !.reads = @ + 1]
        OBVIOUS
      <4>2. y \in Follows /\ y.state = x.state
        BY <3>1, <4>1, ReadOnce
      <4>3. follows' = [fs EXCEPT ![g] = y]
        BY <3>1, <3>2, <4>1
      <4> QED
        BY <3>1, <4>2, <4>3
    <3>3. CASE follows' = [fs EXCEPT ![g].phase = "no-credential"]
      <4>1. PICK y : y = [x EXCEPT !.phase = "no-credential"]
        OBVIOUS
      <4>2. y \in Follows /\ y.state = x.state
        BY <3>1, <4>1, Phased DEF Phases
      <4>3. follows' = [fs EXCEPT ![g] = y]
        BY <3>1, <3>3, <4>1
      <4> QED
        BY <3>1, <4>2, <4>3
    <3> QED
      BY <2>3, <3>2, <3>3 DEF readState
  <2>4. CASE \E d \in FollowDocs : Progress(d) \/ Execute(d)
    BY <2>1, <2>4 DEF Progress, Execute, page
  <2>5. CASE Refill \/ Spend
    BY <2>1, <2>5 DEF Refill, Spend, page
  <2>6. ASSUME NEW r \in reads, Serve(r)
        PROVE  UNCHANGED follows
    BY <2>6 DEF Serve
  <2>7. ASSUME NEW r \in reads, Arrive(r)
        PROVE  Rank(follows[f].state) <= Rank(follows'[f].state)
    <3>1. r.follow \in DOMAIN follows
      BY DEF Inv, Tied
    <3>2. CASE Listens(r) /\ f = r.follow
      <4>1. PICK a \in {r.answer, Failure} \ {Nil} : follows' = [follows EXCEPT ![f] = Taken(r, a, @)]
        BY <2>7, <3>2 DEF Arrive
      <4>2. Rank(follows[f].state) <= Rank(Taken(r, a, follows[f]).state)
        BY <3>2, Heard
      <4> QED
        BY <2>0, <4>1, <4>2
    <3>3. CASE Listens(r) /\ f # r.follow
      <4>1. PICK a : follows' = [follows EXCEPT ![r.follow] = Taken(r, a, @)]
        BY <2>7, <3>3 DEF Arrive
      <4>2. follows'[f] = follows[f]
        BY <2>0, <3>1, <3>3, <4>1
      <4> QED
        BY <1>1, <4>2
    <3>4. CASE ~Listens(r)
      BY <2>1, <2>7, <3>4 DEF Arrive
    <3> QED
      BY <3>2, <3>3, <3>4
  <2>8. ASSUME NEW t \in timers, Fire(t)
        PROVE  Rank(follows[f].state) <= Rank(follows'[f].state)
    <3>1. t.follow \in DOMAIN follows
      BY DEF Inv, Tied
    <3>2. CASE readState(follows, t.follow, t.attempt)
      BY <1>1, <2>0, <2>3, <3>1, <3>2
    <3>3. CASE restartFollow(t.follow, timers \ {t})
      BY <1>1, <2>2, <3>1, <3>3
    <3> QED
      BY <2>1, <2>8, <3>2, <3>3 DEF Fire
  <2>9. CASE captureResponses
    <3>1. generating # Nil
      BY <2>9 DEF captureResponses
    <3>2. generating.doc \in FollowDocs /\ followRun \in Nat
      BY <3>1 DEF Inv, FollowTypeOK, GenerateCalls
    <3>3. CASE startFollow
      <4>1. Started(generating.doc, "PENDING") \in Follows
        BY <3>2, NewFollow DEF States
      <4>2. follows'[f] = follows[f]
        BY <2>0, <3>3, <4>1, Appended DEF startFollow
      <4> QED
        BY <1>1, <4>2
    <3>4. CASE resumeFollow
      <4>1. Started(generating.doc, generating.answer) \in Follows
        BY <3>2, <3>4, NewFollow DEF resumeFollow
      <4>2. PICK fs : fs = Append(follows, Started(generating.doc, generating.answer))
        OBVIOUS
      <4>3. /\ fs \in Seq(Follows) /\ Len(follows) + 1 \in DOMAIN fs
            /\ f \in DOMAIN fs /\ fs[f] = follows[f]
        BY <2>0, <4>1, <4>2, Appended
      <4>4. readState(fs, Len(follows) + 1, 0)
        BY <3>4, <4>2 DEF resumeFollow
      <4>5. follows'[f].state = follows[f].state
        BY <2>3, <4>3, <4>4
      <4> QED
        BY <1>1, <4>5
    <3> QED
      BY <2>1, <2>9, <3>3, <3>4 DEF captureResponses, page
  <2>10. CASE paintResponseNotes
    BY <2>1, <2>10 DEF paintResponseNotes, page
  <2>11. CASE CheckAgain
    <3>1. slot.target \in DOMAIN follows
      BY <2>11 DEF CheckAgain, Inv, Tied
    <3> QED
      BY <1>1, <2>2, <2>11, <3>1 DEF CheckAgain
  <2> QED
    BY <2>1, <2>4, <2>5, <2>6, <2>7, <2>8, <2>9, <2>10, <2>11 DEF FollowNext
<1>3. [Kept]_followVars <=> [\A f \in DOMAIN follows : Rank(follows[f].state) <= Rank(follows'[f].state)]_followVars
  OBVIOUS
<1> QED
  BY <1>2, <1>3, Invariance, PTL DEF FollowSpec, NeverBack
=============================================================================
