----------------------------- MODULE PageProofs -----------------------------
(***************************************************************************)
(* Theorems about the parts of the page that ConsoleProofs leaves: the     *)
(* description and the ids carried from it, where the page rests, the      *)
(* window, the palette and the folds, and the demo's API.  The last        *)
(* section is about all the parts of the page together.                    *)
(***************************************************************************)
EXTENDS MCConsole, ConsoleProofs

-----------------------------------------------------------------------------
(* Numbers and sequences.                                                   *)

\* A set that has 0 and, with n, n + 1, has every number up to N.
LEMMA ReachesAll ==
    ASSUME NEW N \in Nat, NEW S, 0 \in S,
           \A n \in 0 .. N : n \in S /\ n < N => n + 1 \in S
    PROVE  \A n \in 0 .. N : n \in S
<1> DEFINE Left == {n \in 0 .. N : n \notin S}
<1> SUFFICES ASSUME Left # {}
             PROVE  FALSE
  OBVIOUS
<1>1. PICK m \in Left : \A n \in Left : m <= n
  <2>1. Left \in SUBSET Nat
    OBVIOUS
  <2> QED
    BY <2>1, MinOfNaturals
<1>2. m \in Nat /\ m # 0 /\ m <= N /\ m \notin S
  BY <1>1
<1>3. m - 1 \in 0 .. N /\ m - 1 < N /\ m - 1 \notin Left
  BY <1>1, <1>2
<1>4. (m - 1) + 1 \in S
  BY <1>3
<1> QED
  BY <1>2, <1>4

LEMMA LeastOfTwo ==
    ASSUME NEW m \in Int, NEW n \in Int
    PROVE  Min({m, n}) \in {m, n} /\ Min({m, n}) <= m /\ Min({m, n}) <= n
<1>1. \E x \in {m, n} : \A y \in {m, n} : x <= y
  OBVIOUS
<1> QED
  BY <1>1 DEF Min

LEMMA GreatestOfTwo ==
    ASSUME NEW m \in Int, NEW n \in Int
    PROVE  Max({m, n}) \in {m, n} /\ Max({m, n}) >= m /\ Max({m, n}) >= n
<1>1. \E x \in {m, n} : \A y \in {m, n} : x >= y
  OBVIOUS
<1> QED
  BY <1>1 DEF Max

LEMMA SeqOfMore ==
    ASSUME NEW A, NEW B, A \subseteq B, NEW s \in Seq(A)
    PROVE  s \in Seq(B)
OBVIOUS

\* A filtered sequence is of the same elements, no longer, and all in the set.
LEMMA ThoseFacts ==
    ASSUME NEW S, NEW s \in Seq(S), NEW T
    PROVE  /\ Those(s, T) \in Seq(S) /\ Len(Those(s, T)) \in Nat /\ Len(Those(s, T)) <= Len(s)
           /\ \A i \in 1 .. Len(Those(s, T)) : Those(s, T)[i] \in T /\ Those(s, T)[i] \in S
<1> DEFINE N == Len(s)
           Value(f, n) == IF n = 0 THEN <<>>
                          ELSE IF s[n] \in T THEN Append(f[n - 1], s[n]) ELSE f[n - 1]
           Fits(f, n) == f = [m \in 0 .. n |-> Value(f, m)]
           Fine(t, n) == /\ t \in Seq(S) /\ Len(t) <= n
                         /\ \A i \in 1 .. Len(t) : t[i] \in T
           A == {n \in 0 .. N : \E f : Fits(f, n)}
<1>0. N \in Nat
  OBVIOUS
<1>1. 0 \in A
  <2> DEFINE g == [m \in 0 .. 0 |-> <<>>]
  <2>1. Fits(g, 0)
    OBVIOUS
  <2> HIDE DEF Fits, g, N
  <2> QED
    BY <1>0, <2>1
<1>2. ASSUME NEW n \in 0 .. N, n \in A, n < N
      PROVE  n + 1 \in A
  <2>1. PICK f : Fits(f, n)
    BY <1>2
  <2> DEFINE next == IF s[n + 1] \in T THEN Append(f[n], s[n + 1]) ELSE f[n]
             g == [m \in 0 .. n + 1 |-> IF m = n + 1 THEN next ELSE f[m]]
  <2>2. ASSUME NEW m \in 0 .. n + 1
        PROVE  g[m] = Value(g, m)
    <3>1. CASE m = n + 1
      <4>1. m # 0 /\ m - 1 = n /\ n \in 0 .. n + 1 /\ n # n + 1
        BY <3>1
      <4> HIDE DEF next
      <4>2. g[n] = f[n] /\ g[m] = next
        BY <3>1, <4>1
      <4> HIDE DEF g
      <4> QED
        BY <3>1, <4>1, <4>2 DEF next
    <3>2. CASE m # n + 1
      <4> HIDE DEF next
      <4>1. m \in 0 .. n /\ g[m] = f[m]
        BY <3>2
      <4>2. f[m] = Value(f, m)
        BY <2>1, <4>1
      <4>3. m # 0 => g[m - 1] = f[m - 1]
        BY <3>2
      <4> HIDE DEF g
      <4> QED
        BY <4>1, <4>2, <4>3
    <3> QED
      BY <3>1, <3>2
  <2>3. g = [m \in 0 .. n + 1 |-> g[m]]
    OBVIOUS
  <2> HIDE DEF g, next
  <2>4. Fits(g, n + 1)
    BY <2>2, <2>3
  <2>5. n + 1 \in 0 .. N
    BY <1>0, <1>2
  <2> HIDE DEF Fits, N
  <2> QED
    BY <2>4, <2>5
<1>3. N \in A
  <2> HIDE DEF A, N
  <2>1. \A n \in 0 .. N : n \in A
    BY <1>0, <1>1, <1>2, ReachesAll
  <2> QED
    BY <1>0, <2>1
<1> DEFINE h == CHOOSE f : Fits(f, N)
<1>4. Those(s, T) = h[N]
  BY DEF Those
<1>5. Fits(h, N)
  <2> HIDE DEF Fits, N
  <2> QED
    BY <1>3
<1> HIDE DEF h
<1>6. ASSUME NEW n \in 0 .. N
      PROVE  h[n] = Value(h, n)
  <2> HIDE DEF N, Value
  <2> QED
    BY <1>5
<1> DEFINE B == {n \in 0 .. N : Fine(h[n], n)}
<1>7. 0 \in B
  <2>1. Fine(<<>>, 0) /\ h[0] = <<>>
    BY <1>0, <1>6
  <2> HIDE DEF Fine
  <2> QED
    BY <1>0, <2>1
<1>8. ASSUME NEW n \in 0 .. N, n \in B, n < N
      PROVE  n + 1 \in B
  <2>1. n + 1 \in 1 .. N /\ n + 1 # 0 /\ (n + 1) - 1 = n /\ s[n + 1] \in S
    BY <1>0, <1>8
  <2>2. h[n + 1] = IF s[n + 1] \in T THEN Append(h[n], s[n + 1]) ELSE h[n]
    BY <1>6, <2>1
  <2>3. h[n] \in Seq(S) /\ Len(h[n]) <= n /\ \A i \in 1 .. Len(h[n]) : h[n][i] \in T
    BY <1>8
  <2>4. Fine(h[n + 1], n + 1)
    BY <2>1, <2>2, <2>3
  <2> HIDE DEF Fine
  <2> QED
    BY <1>0, <2>1, <2>4
<1>9. N \in B
  <2> HIDE DEF B, N
  <2>1. \A n \in 0 .. N : n \in B
    BY <1>0, <1>7, <1>8, ReachesAll
  <2> QED
    BY <1>0, <2>1
<1> QED
  BY <1>4, <1>9

-----------------------------------------------------------------------------
(* Descriptions.                                                            *)

\* What one part of the page says of the description the others do not deny.
LEMMA AgreesOf ==
    ASSUME NEW d, WellFormed(d)
    PROVE  WhatIsMarkedIsSent(d) /\ LinksLead(d) /\ NothingLeftOut(d)
<1>1. WhatIsMarkedIsSent(d)
  <2> SUFFICES ASSUME NEW here \in PageOperations(d)
               PROVE  LET needs == requiredSchemes(d, OperationAt(d, here))
                      IN  /\ "PUBLIC" \in scopesFor(d, here) => needs = {}
                          /\ needs \subseteq scopesFor(d, here)
                          /\ needs # {} => here \in responseSources(d)
    BY DEF WhatIsMarkedIsSent
  <2> DEFINE reqs == Requirements(d, OperationAt(d, here))
             needs == requiredSchemes(d, OperationAt(d, here))
  <2>1. reqs # Absent => reqs \in Seq(Range(reqs)) /\ "PUBLIC" \notin UNION Range(reqs)
    BY DEF WellFormed, Requirements
  <2>2. needs = IF reqs \in {Absent, <<>>} THEN {} ELSE reqs[1]
    BY DEF requiredSchemes
  <2>3. scopesFor(d, here) = IF reqs = Absent THEN {}
                           ELSE IF reqs = <<>> THEN {"PUBLIC"} ELSE UNION Range(reqs)
    BY DEF scopesFor
  <2>4. reqs \notin {Absent, <<>>} => reqs[1] \in Range(reqs)
    BY <2>1 DEF Range
  <2>5. needs # {} => here \in responseSources(d)
    BY DEF responseSources
  <2> HIDE DEF reqs, needs
  <2>6. ("PUBLIC" \in scopesFor(d, here) => needs = {}) /\ needs \subseteq scopesFor(d, here)
    BY <2>1, <2>2, <2>3, <2>4
  <2> QED
    BY <2>5, <2>6 DEF needs
<1>2. LinksLead(d)
  <2>1. MapLinks(d) = Named(d)
    <3> DEFINE tags == {TagOf(OperationAt(d, here)) : here \in Named(d)}
               group(name) == {here \in Named(d) : TagOf(OperationAt(d, here)) = name}
    <3>1. DOMAIN mapEntries(d) = tags /\ \A name \in tags : mapEntries(d)[name] = group(name)
      BY DEF mapEntries
    <3>2. MapLinks(d) = UNION {group(name) : name \in tags}
      BY <3>1 DEF MapLinks
    <3> QED
      BY <3>2
  <2>2. DOMAIN operationIndex(d) = Named(d)
    BY DEF operationIndex
  <2>3. /\ ModelLinks(d) \subseteq Named(d)
        /\ \A here \in PageOperations(d) : carryTargets(d, here[1]) \subseteq Named(d)
    BY DEF ModelLinks, usersOf, carryTargets
  <2> QED
    BY <2>1, <2>2, <2>3 DEF LinksLead
<1>3. NothingLeftOut(d)
  <2> SUFFICES ASSUME NEW here \in PageOperations(d),
                      NEW code \in DOMAIN OperationAt(d, here).responses
               PROVE  LET op == OperationAt(d, here)
                      IN  /\ \A cause \in op.responses[code].causes :
                                <<code, cause>> \in indexCauses(op) \cup sharedCauses(op)
                          /\ \A h \in op.responses[code].headers :
                                h \in sharedHeaders(op) \/ <<code, h>> \in addedHeaders(op)
    BY DEF NothingLeftOut
  <2> DEFINE op == OperationAt(d, here)
  <2>1. ASSUME NEW cause \in op.responses[code].causes
        PROVE  <<code, cause>> \in indexCauses(op) \cup sharedCauses(op)
    <3>1. CASE SharedMember(op.responses[code])
      BY <3>1 DEF SharedMember, sharedCauses
    <3>2. CASE ~SharedMember(op.responses[code])
      BY <3>2 DEF indexCauses
    <3> QED
      BY <3>1, <3>2
  <2>2. ASSUME NEW h \in op.responses[code].headers
        PROVE  h \in sharedHeaders(op) \/ <<code, h>> \in addedHeaders(op)
    BY DEF sharedHeaders, addedHeaders, AllHeaders, WithHeaders
  <2> QED
    BY <2>1, <2>2
<1> QED
  BY <1>1, <1>2, <1>3

-----------------------------------------------------------------------------
(* Carried ids.                                                             *)

\* A path lies under one collection at most: the segments before its first id.
LEMMA OneCollection ==
    ASSUME NEW c, NEW e, NEW p, NEW S,
           c \in Seq(S), e \in Seq(S), p \in Seq(S), Id \in S,
           ~Contains(c, Id), ~Contains(e, Id),
           IsPrefix(Append(c, Id), p), IsPrefix(Append(e, Id), p)
    PROVE  c = e
<1>1. ASSUME NEW s \in Seq(S), IsPrefix(Append(s, Id), p)
      PROVE  /\ Len(s) \in Nat /\ Len(p) \in Nat /\ Len(s) + 1 <= Len(p)
             /\ p[Len(s) + 1] = Id
             /\ \A i \in 1 .. Len(s) : p[i] = s[i]
  <2> DEFINE q == Append(s, Id)
  <2>1. /\ q \in Seq(S) /\ Len(q) = Len(s) + 1 /\ q[Len(s) + 1] = Id
        /\ \A i \in 1 .. Len(s) : q[i] = s[i]
    OBVIOUS
  <2> HIDE DEF q
  <2>2. Len(q) <= Len(p) /\ SubSeq(q, 1, Len(q)) = SubSeq(p, 1, Len(q))
    BY <1>1 DEF IsPrefix, q
  <2>3. \A i \in 1 .. Len(q) : SubSeq(q, 1, Len(q))[i] = q[i] /\ SubSeq(p, 1, Len(q))[i] = p[i]
    BY <2>1, <2>2
  <2>4. \A i \in 1 .. Len(q) : q[i] = p[i]
    BY <2>2, <2>3
  <2> QED
    BY <2>1, <2>2, <2>4
<1>2. /\ Len(c) \in Nat /\ Len(e) \in Nat
      /\ \A i \in 1 .. Len(c) : c[i] # Id
      /\ \A i \in 1 .. Len(e) : e[i] # Id
  BY DEF Contains
<1>3. /\ p[Len(c) + 1] = Id /\ \A i \in 1 .. Len(c) : p[i] = c[i]
      /\ p[Len(e) + 1] = Id /\ \A i \in 1 .. Len(e) : p[i] = e[i]
  BY <1>1
<1>4. ~(Len(c) < Len(e)) /\ ~(Len(e) < Len(c))
  <2> DEFINE m == Len(c)  n == Len(e)
  <2>1. m \in Nat /\ n \in Nat /\ p[m + 1] = Id /\ p[n + 1] = Id
        /\ (\A i \in 1 .. m : p[i] # Id) /\ (\A i \in 1 .. n : p[i] # Id)
    BY <1>2, <1>3
  <2> HIDE DEF m, n
  <2>2. ~(m < n) /\ ~(n < m)
    BY <2>1
  <2> QED
    BY <2>2 DEF m, n
<1>5. Len(c) = Len(e)
  BY <1>2, <1>4
<1> QED
  BY <1>3, <1>5

\* So a field is filled from one collection.
LEMMA SoleCollection ==
    ASSUME doc \in Documents, NEW t \in Takers,
           NEW c \in CollectionsOf(t), NEW e \in CollectionsOf(t)
    PROVE  c = e
<1> DEFINE S == Range(t[1]) \cup Range(c) \cup Range(e) \cup {Id}
<1>1. \A path \in DOMAIN doc.at : path \in Seq(Range(path))
  BY CarryAssumption DEF WellFormed
<1>2. /\ t[1] \in DOMAIN doc.at
      /\ IsPrefix(Append(c, Id), t[1]) /\ IsPrefix(Append(e, Id), t[1])
  BY DEF Takers, Named, PageOperations, CollectionsOf, carryTargets
<1>3. c \in DOMAIN doc.at /\ e \in DOMAIN doc.at /\ ~Contains(c, Id) /\ ~Contains(e, Id)
  BY DEF CollectionsOf, Collections, Creates, PageOperations
<1>4. t[1] \in Seq(Range(t[1])) /\ c \in Seq(Range(c)) /\ e \in Seq(Range(e))
  BY <1>1, <1>2, <1>3
<1>5. /\ Range(t[1]) \subseteq S /\ Range(c) \subseteq S /\ Range(e) \subseteq S
      /\ Id \in S
  OBVIOUS
<1> HIDE DEF S
<1>6. t[1] \in Seq(S) /\ c \in Seq(S) /\ e \in Seq(S)
  BY <1>4, <1>5
<1> QED
  BY <1>2, <1>3, <1>5, <1>6, OneCollection

CarryTypes ==
    /\ doc \in Documents
    /\ CarryOK
    /\ created \in [Collections -> Nat]

\* What a field holds, by who wrote it last; c is its collection.
FieldHolds(t, c) ==
    /\ typed[t] = Absent => /\ param[t] = carriedIds[t]
                            /\ param[t] = IF created[c] = 0 THEN Absent ELSE created[c]
    /\ typed[t] \in Ids => param[t] = typed[t] /\ param[t] # carriedIds[t]
    /\ typed[t] = 0 => param[t] \in {Absent, carriedIds[t]}

CarryInv == CarryTypes /\ \A t \in Takers : \A c \in CollectionsOf(t) : FieldHolds(t, c)

\* An id is a number, and no number is the absence of one.
LEMMA IdFacts == /\ \A i \in Ids : i \in Nat /\ i # 0 /\ i # Absent
                 /\ 0 \notin Ids /\ Absent \notin Ids /\ Absent # 0
<1>1. Ids \subseteq Nat \ {0} /\ Absent \notin Nat
  BY CarryAssumption
<1>2. 0 \in Nat
  OBVIOUS
<1> QED
  BY <1>1, <1>2, Zenon

LEMMA CarryInvInit ==
    ASSUME CarryInit
    PROVE  CarryInv
<1>1. CarryTypes
  BY DEF CarryInit, CarryTypes, CarryOK
<1>2. ASSUME NEW t \in Takers, NEW c \in CollectionsOf(t)
      PROVE  FieldHolds(t, c)
  BY IdFacts DEF CarryInit, FieldHolds, CollectionsOf
<1> QED
  BY <1>1, <1>2 DEF CarryInv

\* The document stays, and with it what the page reads from it.
LEMMA SameReading ==
    ASSUME UNCHANGED doc
    PROVE  /\ Takers' = Takers /\ Collections' = Collections
           /\ \A t : CollectionsOf(t)' = CollectionsOf(t)
BY DEF Takers, Collections, CollectionsOf

LEMMA CarryIdKept ==
    ASSUME CarryInv, NEW c \in Collections, carryId(c)
    PROVE  CarryInv'
<1> DEFINE id == created[c] + 1
           targets == carryTargets(doc, c)
           own == {t \in targets : ReadersOwn(t)}
<1>0. /\ UNCHANGED doc /\ UNCHANGED <<typed, chip>>
      /\ id \in Ids
      /\ created' = [created EXCEPT ![c] = id]
      /\ param' = [t \in Takers |-> IF t \in targets \ own THEN id ELSE param[t]]
      /\ carriedIds' = [t \in Takers |-> IF t \in targets \ own THEN id ELSE carriedIds[t]]
  BY DEF carryId
<1>1. /\ Takers' = Takers /\ Collections' = Collections
      /\ \A t : CollectionsOf(t)' = CollectionsOf(t)
  BY <1>0, SameReading
<1>2. created[c] \in Nat /\ id # 0 /\ id # Absent
  BY <1>0, IdFacts DEF CarryInv, CarryTypes
<1> HIDE DEF id, own
<1>3. CarryTypes'
  BY <1>0, <1>1, IdFacts DEF CarryInv, CarryTypes, CarryOK
<1>4. ASSUME NEW t \in Takers, NEW e \in CollectionsOf(t)
      PROVE  FieldHolds(t, e)'
  <2>1. FieldHolds(t, e) /\ e \in Collections /\ typed[t] \in Ids \cup {Absent, 0}
    BY DEF CarryInv, CarryTypes, CarryOK, CollectionsOf
  <2>2. CASE t \in targets
    <3>1. e = c
      <4>1. c \in CollectionsOf(t)
        BY <2>2 DEF CollectionsOf
      <4> QED
        BY <4>1, SoleCollection DEF CarryInv, CarryTypes
    <3>2. created'[e] = id
      BY <1>0, <2>1, <3>1 DEF CarryInv, CarryTypes
    <3>3. t \in own <=> param[t] # Absent /\ param[t] # carriedIds[t]
      BY <2>2 DEF own, ReadersOwn
    <3>4. /\ t \in own => param'[t] = param[t] /\ carriedIds'[t] = carriedIds[t]
          /\ t \notin own => param'[t] = id /\ carriedIds'[t] = id
      BY <1>0, <2>2
    <3>5. typed'[t] = typed[t]
      BY <1>0
    <3> QED
      BY <1>2, <2>1, <3>2, <3>3, <3>4, <3>5, IdFacts DEF FieldHolds
  <2>3. CASE t \notin targets
    <3>1. e # c
      BY <2>3 DEF CollectionsOf
    <3>2. created'[e] = created[e]
      BY <1>0, <2>1, <3>1 DEF CarryInv, CarryTypes
    <3>3. param'[t] = param[t] /\ carriedIds'[t] = carriedIds[t] /\ typed'[t] = typed[t]
      BY <1>0, <2>3
    <3> QED
      BY <2>1, <3>2, <3>3 DEF FieldHolds
  <2> QED
    BY <2>2, <2>3
<1> QED
  BY <1>1, <1>3, <1>4 DEF CarryInv

LEMMA TypeIdKept ==
    ASSUME CarryInv, NEW t \in Takers, TypeId(t)
    PROVE  CarryInv'
<1>0. PICK value \in Ids \cup {Absent} :
        /\ value # param[t]
        /\ param' = [param EXCEPT ![t] = value]
        /\ typed' = [typed EXCEPT ![t] = IF value \in {Absent, carriedIds[t]} THEN 0 ELSE value]
        /\ chip' = [chip EXCEPT ![t] = IF @ = Absent THEN @ ELSE value = carriedIds[t]]
        /\ UNCHANGED <<doc, carriedIds, created>>
  BY DEF TypeId
<1>1. /\ Takers' = Takers /\ Collections' = Collections
      /\ \A u : CollectionsOf(u)' = CollectionsOf(u)
  BY <1>0, SameReading
<1>2. /\ param \in [Takers -> Ids \cup {Absent}] /\ typed \in [Takers -> Ids \cup {Absent, 0}]
      /\ chip \in [Takers -> BOOLEAN \cup {Absent}]
  BY DEF CarryInv, CarryTypes, CarryOK
<1>3. CarryTypes'
  <2>1. param' \in [Takers -> Ids \cup {Absent}] /\ typed' \in [Takers -> Ids \cup {Absent, 0}]
    BY <1>0, <1>2
  <2>2. chip' \in [Takers -> BOOLEAN \cup {Absent}]
    <3>1. (IF chip[t] = Absent THEN chip[t] ELSE value = carriedIds[t]) \in BOOLEAN \cup {Absent}
      BY Zenon
    <3> QED
      BY <1>0, <1>2, <3>1
  <2> QED
    BY <1>0, <1>1, <2>1, <2>2 DEF CarryInv, CarryTypes, CarryOK
<1>4. ASSUME NEW u \in Takers, NEW c \in CollectionsOf(u)
      PROVE  FieldHolds(u, c)'
  <2>1. FieldHolds(u, c)
    BY DEF CarryInv
  <2>2. CASE u = t
    <3>1. /\ param'[t] = value /\ carriedIds'[t] = carriedIds[t]
          /\ typed'[t] = IF value \in {Absent, carriedIds[t]} THEN 0 ELSE value
      BY <1>0, <1>2
    <3> QED
      BY <2>2, <3>1, IdFacts DEF FieldHolds
  <2>3. CASE u # t
    <3>1. param'[u] = param[u] /\ typed'[u] = typed[u]
      BY <1>0, <1>2, <2>3
    <3> QED
      BY <1>0, <2>1, <3>1 DEF FieldHolds
  <2> QED
    BY <2>2, <2>3
<1> QED
  BY <1>1, <1>3, <1>4 DEF CarryInv

LEMMA CarryInvStep ==
    ASSUME CarryInv, [CarryNext]_carryVars
    PROVE  CarryInv'
<1>1. CASE CarryFrame
  <2>1. chip' \in [Takers -> BOOLEAN \cup {Absent}]
    <3>1. \A t \in Takers : chip[t] \in BOOLEAN \cup {Absent}
      BY DEF CarryInv, CarryTypes, CarryOK
    <3>2. \A t \in Takers :
            (IF carriedIds[t] = Absent THEN chip[t] ELSE param[t] = carriedIds[t]) \in BOOLEAN \cup {Absent}
      BY <3>1, Zenon
    <3> QED
      BY <1>1, <3>2 DEF CarryFrame
  <2> QED
    BY <1>1, <2>1, SameReading DEF CarryFrame, CarryInv, CarryTypes, CarryOK, FieldHolds
<1>2. CASE UNCHANGED carryVars
  BY <1>2, SameReading DEF carryVars, CarryInv, CarryTypes, CarryOK, FieldHolds
<1> QED
  BY <1>1, <1>2, CarryIdKept, TypeIdKept DEF CarryNext

LEMMA CarryInvariant == CarrySpec => []CarryInv
BY CarryInvInit, CarryInvStep, PTL DEF CarrySpec

\* A field of an operation holds what its reader typed there last, or else the last
\* id its collection created, whatever descriptions a page loads, creates, typing
\* and frames in any order (responses.carryId): a path lies under one collection.
THEOREM FieldsAlwaysHoldTheirIds == CarrySpec => []FieldsHoldTheirIds
<1>1. CarryInv => FieldsHoldTheirIds
  BY DEF CarryInv, FieldHolds, FieldsHoldTheirIds
<1> QED
  BY <1>1, CarryInvariant, PTL

\* Badges, calls, links and the index of answers agree about every description the
\* page may have loaded, for any security and any answers it declares.
THEOREM PageAlwaysAgrees == CarrySpec => []PageAgrees
<1>1. CarryInv => PageAgrees
  BY CarryAssumption, AgreesOf DEF CarryInv, CarryTypes, PageAgrees
<1> QED
  BY <1>1, CarryInvariant, PTL

-----------------------------------------------------------------------------
(* Where the page rests.                                                    *)

Listeners == [block : Blocks, corrections : 0 .. Corrections]
Spots == Blocks \cup {"overview", "reader"}
Views == [at : Spots, short : BOOLEAN, moved : BOOLEAN, left : Seq(Listeners)]
Untouched == [at |-> at, short |-> short, moved |-> FALSE, left |-> <<>>]

\* The listeners settle one after the other.
LEMMA SettledSteps ==
    ASSUME listening \in Seq(Listeners)
    PROVE  /\ settled[0] = Untouched
           /\ \A n \in 1 .. Len(listening) : settled[n] = Settle(settled[n - 1], listening[n])
<1> DEFINE N == Len(listening)
           Value(f, n) == IF n = 0 THEN Untouched ELSE Settle(f[n - 1], listening[n])
           Fits(f, n) == f = [m \in 0 .. n |-> Value(f, m)]
           S == {n \in 0 .. N : \E f : Fits(f, n)}
<1>0. N \in Nat
  OBVIOUS
<1>1. 0 \in S
  <2> DEFINE g == [m \in 0 .. 0 |-> Untouched]
  <2>1. Fits(g, 0)
    OBVIOUS
  <2> HIDE DEF Fits, g, N
  <2> QED
    BY <1>0, <2>1
<1>2. ASSUME NEW n \in 0 .. N, n \in S, n < N
      PROVE  n + 1 \in S
  <2>1. PICK f : Fits(f, n)
    BY <1>2
  <2> DEFINE g == [m \in 0 .. n + 1 |-> IF m = n + 1 THEN Settle(f[n], listening[n + 1]) ELSE f[m]]
  <2>2. ASSUME NEW m \in 0 .. n + 1
        PROVE  g[m] = Value(g, m)
    <3>1. CASE m = n + 1
      <4>1. m # 0 /\ m - 1 = n /\ n \in 0 .. n + 1 /\ n # n + 1
        BY <3>1
      <4>2. g[n] = f[n] /\ g[m] = Settle(f[n], listening[m])
        BY <3>1, <4>1
      <4> HIDE DEF g
      <4> QED
        BY <4>1, <4>2
    <3>2. CASE m # n + 1
      <4>1. m \in 0 .. n /\ g[m] = f[m]
        BY <3>2
      <4>2. f[m] = Value(f, m)
        BY <2>1, <4>1
      <4>3. m # 0 => g[m - 1] = f[m - 1]
        BY <3>2
      <4> HIDE DEF g
      <4> QED
        BY <4>1, <4>2, <4>3
    <3> QED
      BY <3>1, <3>2
  <2>3. g = [m \in 0 .. n + 1 |-> g[m]]
    OBVIOUS
  <2> HIDE DEF g
  <2>4. Fits(g, n + 1)
    BY <2>2, <2>3
  <2> HIDE DEF Fits
  <2> QED
    BY <1>2, <2>4, <1>0
<1>3. N \in S
  <2> HIDE DEF S, N
  <2>1. \A n \in 0 .. N : n \in S
    BY <1>0, <1>1, <1>2, ReachesAll
  <2> QED
    BY <1>0, <2>1
<1>4. Fits(settled, N)
  <2>1. \E f : f = [m \in 0 .. N |-> Value(f, m)]
    BY <1>3
  <2> QED
    BY <2>1 DEF settled, Untouched
<1>5. ASSUME NEW n \in 0 .. N
      PROVE  settled[n] = Value(settled, n)
  <2> HIDE DEF Value, N
  <2> QED
    BY <1>4
<1> QED
  BY <1>0, <1>5

\* What has settled after n listeners.
SettlesTo(n) ==
    LET v == settled[n]
    IN  /\ v \in Views
        /\ v.moved <=> v.left # <<>>
        /\ v.left = <<>> => v.at = at /\ v.short = short
        /\ v.left # <<>> => v.at = v.left[Len(v.left)].block /\ ~v.short
        /\ Len(v.left) <= n
        /\ \A i \in 1 .. Len(v.left) : \E k \in 1 .. n :
              /\ listening[k].corrections < Corrections
              /\ v.left[i].corrections = listening[k].corrections + 1
        /\ \A i, j \in 1 .. Len(v.left) : i <= j => v.left[j].corrections <= v.left[i].corrections

PaneTypes ==
    /\ listening \in Seq(Listeners)
    /\ at \in Spots /\ short \in BOOLEAN /\ scrolling \in BOOLEAN
    /\ asked \in Spots /\ fought \in BOOLEAN /\ landed \in Nat

Searches == [block : Blocks, scroll : BOOLEAN, tries : Nat]

LayoutTypes ==
    /\ tagsOpen \cup rendered \subseteq TagsOfPage /\ blocksOpen \subseteq Blocks
    /\ finding \in Seq(Searches)
    /\ camera \in {"none", "follow", "free"}

\* An older listener has corrected as often as a newer one, or oftener.
Ordered == \A i, j \in 1 .. Len(listening) : i <= j => listening[j].corrections <= listening[i].corrections

LEMMA SettlesAll ==
    ASSUME PaneTypes, Ordered
    PROVE  \A n \in 0 .. Len(listening) : SettlesTo(n)
<1> DEFINE N == Len(listening)
           S == {n \in 0 .. N : SettlesTo(n)}
<1>0. N \in Nat /\ listening \in Seq(Listeners)
  BY DEF PaneTypes
<1>1. 0 \in S
  <2>1. settled[0] = Untouched
    BY <1>0, SettledSteps
  <2>2. Untouched \in Views
    BY DEF PaneTypes, Untouched, Views
  <2> QED
    BY <1>0, <2>1, <2>2 DEF SettlesTo, Untouched
<1>2. ASSUME NEW n \in 0 .. N, n \in S, n < N
      PROVE  n + 1 \in S
  <2> DEFINE m == n + 1
             v == settled[n]
             w == settled[m]
             l == listening[m]
  <2>1. m \in 1 .. N /\ m - 1 = n
    BY <1>0, <1>2
  <2>2. w = Settle(v, l) /\ l \in Listeners
    BY <1>0, <2>1, SettledSteps
  <2>3. SettlesTo(n)
    BY <1>2
  <2>4. CASE (v.at # l.block \/ v.short) /\ l.corrections < Corrections
    <3> DEFINE e == [l EXCEPT !.corrections = @ + 1]
    <3>1. w = [at |-> l.block, short |-> FALSE, moved |-> TRUE, left |-> Append(v.left, e)]
      BY <2>2, <2>4 DEF Settle
    <3>2. e \in Listeners /\ e.block = l.block /\ e.corrections = l.corrections + 1
      BY <2>2, <2>4, PlacesAssumption DEF Listeners
    <3>3. v.left \in Seq(Listeners) /\ Len(v.left) <= n
      BY <2>3 DEF SettlesTo, Views
    <3> HIDE DEF e, v, l, w
    <3>4. /\ w.left \in Seq(Listeners) /\ Len(w.left) = Len(v.left) + 1
          /\ w.left[Len(w.left)] = e
          /\ \A i \in 1 .. Len(v.left) : w.left[i] = v.left[i]
      BY <3>1, <3>2, <3>3
    <3>5. w \in Views
      BY <2>2, <3>1, <3>4 DEF Views, Spots, Listeners
    <3>6. ASSUME NEW i \in 1 .. Len(w.left)
          PROVE  \E k \in 1 .. m : /\ listening[k].corrections < Corrections
                                   /\ w.left[i].corrections = listening[k].corrections + 1
      <4>1. CASE i = Len(w.left)
        BY <2>1, <2>4, <3>2, <3>4, <4>1 DEF l
      <4>2. CASE i # Len(w.left)
        <5>1. i \in 1 .. Len(v.left)
          BY <3>3, <3>4, <4>2
        <5>2. \A k \in 1 .. n : k \in 1 .. m
          BY <2>1
        <5> HIDE DEF m
        <5> QED
          BY <2>3, <3>4, <5>1, <5>2 DEF SettlesTo, v
      <4> QED
        BY <4>1, <4>2
    <3>7. ASSUME NEW i \in 1 .. Len(w.left), NEW j \in 1 .. Len(w.left), i <= j
          PROVE  w.left[j].corrections <= w.left[i].corrections
      <4>1. CASE j # Len(w.left)
        <5>1. i \in 1 .. Len(v.left) /\ j \in 1 .. Len(v.left) /\ w.left[i] = v.left[i] /\ w.left[j] = v.left[j]
          BY <3>3, <3>4, <3>7, <4>1
        <5>2. \A p, q \in 1 .. Len(v.left) : p <= q => v.left[q].corrections <= v.left[p].corrections
          BY <2>3 DEF SettlesTo, v
        <5> QED
          BY <3>7, <5>1, <5>2
      <4>2. CASE j = Len(w.left)
        <5>1. PICK k \in 1 .. m : w.left[i].corrections = listening[k].corrections + 1
          BY <3>6
        <5>2. l.corrections <= listening[k].corrections
          <6>1. k <= m /\ k \in 1 .. N /\ m \in 1 .. N
            BY <1>0, <2>1
          <6> HIDE DEF m, N
          <6> QED
            BY <6>1 DEF Ordered, l, N
        <5>3. listening[k] \in Listeners /\ l \in Listeners
          BY <1>0, <2>1, <2>2, <5>1 DEF l
        <5>4. l.corrections \in Int /\ listening[k].corrections \in Int
          BY <5>3, PlacesAssumption DEF Listeners
        <5>5. w.left[j].corrections = l.corrections + 1
          BY <3>2, <3>4, <4>2
        <5> QED
          BY <5>1, <5>2, <5>4, <5>5
      <4> QED
        BY <4>1, <4>2
    <3>8. w.left # <<>> /\ w.moved /\ w.at = w.left[Len(w.left)].block /\ ~w.short /\ Len(w.left) <= m
      BY <2>1, <3>1, <3>2, <3>3, <3>4
    <3>9. SettlesTo(m)
      <4> HIDE DEF m
      <4> QED
        BY <3>5, <3>6, <3>7, <3>8 DEF SettlesTo, w
    <3> QED
      BY <1>0, <2>1, <3>9
  <2>5. CASE ~((v.at # l.block \/ v.short) /\ l.corrections < Corrections)
    <3>1. w = v
      BY <2>2, <2>5 DEF Settle
    <3>2. \A k \in 1 .. n : k \in 1 .. m
      BY <2>1
    <3>3. Len(v.left) <= m
      BY <2>1, <2>3 DEF SettlesTo, Views
    <3> HIDE DEF m
    <3>4. SettlesTo(m)
      BY <2>3, <3>1, <3>2, <3>3 DEF SettlesTo
    <3> QED
      BY <1>0, <2>1, <3>4
  <2> QED
    BY <2>4, <2>5
<1>3. \A n \in 0 .. N : n \in S
  <2> HIDE DEF S, N
  <2> QED
    BY <1>0, <1>1, <1>2, ReachesAll
<1> QED
  BY <1>3

\* The page is at the block asked for last, which the newest listener waits for; or it is
\* the reader's, who is left alone.
Aims == /\ asked \in Blocks => /\ at = asked
                               /\ listening # <<>> => listening[Len(listening)].block = asked
        /\ asked = "reader" => at = "reader" /\ ~short /\ listening = <<>>

\* Unless someone fought over the page or too much landed, one listener at most waits,
\* while the page moves, with a correction left for every time content landed.
MadeUp ==
    asked \in Blocks /\ ~fought /\ landed <= Corrections =>
        /\ Len(listening) <= 1
        /\ scrolling \/ short => listening # <<>>
        /\ short => scrolling
        /\ listening # <<>> => listening[1].corrections + (IF short THEN 1 ELSE 0) <= landed

PaneInv == PaneTypes /\ Ordered /\ Aims

LEMMA PlacesAreApart == "overview" \notin Blocks /\ "reader" \notin Blocks
BY PlacesAssumption

LEMMA ListenersCount ==
    ASSUME PaneTypes, listening # <<>>
    PROVE  /\ Len(listening) \in Nat \ {0} /\ listening[1].corrections \in Nat
           /\ listening[1].corrections <= Corrections
<1>1. Len(listening) \in Nat \ {0} /\ listening[1] \in Listeners
  BY DEF PaneTypes
<1> QED
  BY <1>1, PlacesAssumption DEF Listeners

LEMMA PaneKept ==
    ASSUME PaneInv, UNCHANGED pane
    PROVE  PaneInv' /\ (MadeUp => MadeUp')
<1>1. PaneInv'
  BY DEF PaneInv, PaneTypes, Ordered, Aims, pane
<1>2. ASSUME MadeUp PROVE MadeUp'
  <2>1. listening # <<>> => listening[1].corrections \in Int
    BY ListenersCount DEF PaneInv
  <2> QED
    BY <1>2, <2>1 DEF MadeUp, pane, PaneInv, PaneTypes
<1> QED
  BY <1>1, <1>2

LEMMA BringKept ==
    ASSUME PaneInv, NEW block \in Blocks, bringIntoView(block)
    PROVE  PaneInv' /\ MadeUp'
<1> DEFINE l == [block |-> block, corrections |-> 0]
<1>1. l \in Listeners /\ l.block = block /\ l.corrections = 0
  BY PlacesAssumption DEF Listeners
<1>2. /\ listening \in Seq(Listeners) /\ listening' = Append(listening, l)
      /\ at' = block /\ asked' = block /\ short' = FALSE
      /\ scrolling' = (at # block \/ short \/ scrolling) /\ fought' = (listening # <<>>)
      /\ landed' = 0
  BY DEF bringIntoView, PaneInv, PaneTypes
<1> HIDE DEF l
<1>3. /\ listening' \in Seq(Listeners) /\ Len(listening') = Len(listening) + 1
      /\ Len(listening) \in Nat
      /\ listening'[Len(listening) + 1] = l
      /\ \A i \in 1 .. Len(listening) : listening'[i] = listening[i] /\ listening[i] \in Listeners
  BY <1>1, <1>2
<1>4. PaneTypes'
  BY <1>2, <1>3 DEF PaneInv, PaneTypes, Spots
<1>5. Ordered'
  <2> SUFFICES ASSUME NEW i \in 1 .. Len(listening'), NEW j \in 1 .. Len(listening'), i <= j
               PROVE  listening'[j].corrections <= listening'[i].corrections
    BY DEF Ordered
  <2>1. CASE j # Len(listening) + 1
    BY <1>3, <2>1 DEF Ordered, PaneInv
  <2>2. CASE j = Len(listening) + 1
    <3>1. listening'[i] \in Listeners
      BY <1>3
    <3> QED
      BY <1>1, <1>3, <2>2, <3>1, PlacesAssumption DEF Listeners
  <2> QED
    BY <2>1, <2>2
<1>6. Aims'
  BY <1>1, <1>2, <1>3, PlacesAreApart DEF Aims
<1>7. MadeUp'
  <2>1. ~fought' => listening = <<>> /\ Len(listening') = 1 /\ listening'[1] = l
    <3>1. ~fought' => listening = <<>>
      BY <1>2, Zenon
    <3> QED
      BY <1>3, <3>1
  <2> QED
    BY <1>1, <1>2, <2>1 DEF MadeUp, PaneInv, PaneTypes
<1> QED
  BY <1>4, <1>5, <1>6, <1>7 DEF PaneInv

LEMMA LandsKept ==
    ASSUME PaneInv, Lands
    PROVE  PaneInv' /\ (MadeUp => MadeUp')
<1>1. UNCHANGED <<listening, at, scrolling, asked, fought>> /\ scrolling /\ at \in Blocks
      /\ short' = TRUE /\ landed' = landed + 1 /\ landed \in Nat
  BY DEF Lands, PaneInv, PaneTypes
<1>2. PaneInv'
  BY <1>1, PlacesAreApart DEF PaneInv, PaneTypes, Ordered, Aims
<1>3. ASSUME MadeUp PROVE MadeUp'
  <2>1. listening # <<>> => listening[1].corrections \in Int
    BY ListenersCount DEF PaneInv
  <2>2. landed' <= Corrections => landed <= Corrections
    BY <1>1, PlacesAssumption
  <2> QED
    BY <1>1, <1>3, <2>1, <2>2 DEF MadeUp
<1> QED
  BY <1>2, <1>3

LEMMA ScrollEndKept ==
    ASSUME PaneInv, ScrollEnd
    PROVE  /\ PaneInv'
           /\ MadeUp => MadeUp'
<1> DEFINE N == Len(listening)
           v == settled[N]
<1>1. /\ at' = v.at /\ short' = v.short /\ scrolling' = v.moved /\ listening' = v.left
      /\ UNCHANGED <<asked, fought, landed>>
  BY DEF ScrollEnd, settle
<1>2. /\ N \in Nat /\ SettlesTo(N) /\ settled[0] = Untouched
      /\ \A n \in 1 .. N : settled[n] = Settle(settled[n - 1], listening[n])
      /\ \A n \in 0 .. N : SettlesTo(n)
  BY SettlesAll, SettledSteps DEF PaneInv, PaneTypes
<1>3. PaneTypes' /\ Ordered'
  <2> HIDE DEF v, N
  <2>1. v \in Views /\ \A i, j \in 1 .. Len(v.left) : i <= j => v.left[j].corrections <= v.left[i].corrections
    BY <1>2 DEF SettlesTo, v
  <2> QED
    BY <1>1, <2>1 DEF PaneTypes, Ordered, Views, PaneInv
<1>4. CASE N = 0
  <2>1. at' = at /\ short' = short /\ scrolling' = FALSE /\ listening' = <<>> /\ listening = <<>>
    BY <1>1, <1>2, <1>4 DEF Untouched, PaneInv, PaneTypes
  <2>2. Aims'
    BY <1>1, <2>1 DEF Aims, PaneInv
  <2>3. MadeUp => MadeUp'
    BY <1>1, <2>1 DEF MadeUp, ScrollEnd
  <2> QED
    BY <1>3, <2>2, <2>3 DEF PaneInv
<1>5. CASE N # 0
  <2> DEFINE l == listening[N]
             u == settled[N - 1]
  <2>0. N \in 1 .. N /\ N - 1 \in 0 .. N
    BY <1>2, <1>5
  <2>1. v = Settle(u, l) /\ l \in Listeners /\ SettlesTo(N - 1) /\ listening # <<>>
    BY <1>2, <2>0 DEF PaneInv, PaneTypes
  <2>2. CASE (u.at # l.block \/ u.short) /\ l.corrections < Corrections
    <3>1. v.at = l.block /\ v.short = FALSE /\ v.moved = TRUE
          /\ v.left = Append(u.left, [l EXCEPT !.corrections = @ + 1])
      BY <2>1, <2>2 DEF Settle
    <3>2. u.left \in Seq(Listeners) /\ Len(u.left) <= N - 1
      BY <2>1 DEF SettlesTo, Views
    <3>3. v.left # <<>> /\ v.left[Len(v.left)].block = l.block
      <4> HIDE DEF v, l, u, N
      <4> QED
        BY <2>1, <3>1, <3>2 DEF Listeners
    <3>4. Aims'
      <4> HIDE DEF v
      <4> QED
        BY <1>1, <2>1, <3>1, <3>3 DEF Aims, PaneInv
    <3>5. MadeUp => MadeUp'
      <4> SUFFICES ASSUME MadeUp, asked \in Blocks, ~fought, landed <= Corrections
                   PROVE  MadeUp'
        BY <1>1 DEF MadeUp
      <4>1. N = 1 /\ l.corrections + (IF short THEN 1 ELSE 0) <= landed
        <5>1. N = 1
          <6>1. N <= 1
            BY DEF MadeUp
          <6>2. N \in Nat \ {0}
            BY <2>1, ListenersCount DEF PaneInv
          <6> HIDE DEF N
          <6> QED
            BY <6>1, <6>2
        <5> QED
          BY <2>1, <5>1 DEF MadeUp
      <4>2. u.at = at /\ u.short = short /\ u.left = <<>>
        BY <1>2, <4>1 DEF Untouched
      <4>3. at = l.block
        BY <2>1 DEF Aims, PaneInv
      <4>4. short
        BY <2>2, <4>2, <4>3
      <4> HIDE DEF v, l, u, N
      <4>5. Len(v.left) = 1 /\ v.left[1].corrections = l.corrections + 1
        BY <2>1, <3>1, <4>2 DEF Listeners
      <4> QED
        <5>1. short' = FALSE /\ scrolling' = TRUE /\ landed' = landed
          BY <1>1, <3>1
        <5>2. listening' # <<>> /\ Len(listening') = 1 /\ listening'[1].corrections <= landed
          BY <1>1, <3>3, <4>1, <4>4, <4>5
        <5>3. listening'[1].corrections \in Int
          BY <2>1, <1>1, <4>5, PlacesAssumption DEF Listeners
        <5> QED
          BY <5>1, <5>2, <5>3 DEF MadeUp
    <3> QED
      BY <1>3, <3>4, <3>5 DEF PaneInv
  <2>3. CASE ~((u.at # l.block \/ u.short) /\ l.corrections < Corrections)
    <3>1. v = u
      BY <2>1, <2>3 DEF Settle
    <3>2. Aims'
      <4>1. CASE u.left = <<>>
        <5>1. at' = at /\ short' = short /\ listening' = <<>>
          BY <1>1, <2>1, <3>1, <4>1 DEF SettlesTo
        <5> QED
          BY <1>1, <2>1, <5>1 DEF Aims, PaneInv
      <4>2. CASE u.left # <<>>
        <5>1. PICK k \in 1 .. N - 1 : listening[k].corrections < Corrections
          <6>1. Len(u.left) \in Nat \ {0}
            BY <2>1, <4>2 DEF SettlesTo, Views
          <6>2. Len(u.left) \in 1 .. Len(u.left)
            BY <6>1
          <6> QED
            BY <2>1, <6>2 DEF SettlesTo
        <5>2. l.corrections <= listening[k].corrections
          BY <1>2, <2>0 DEF Ordered, PaneInv
        <5>3. l.corrections < Corrections
          <6>1. listening[k] \in Listeners
            BY <1>2 DEF PaneInv, PaneTypes
          <6>2. listening[k].corrections \in Int /\ l.corrections \in Int /\ Corrections \in Int
            BY <2>1, <6>1, PlacesAssumption DEF Listeners
          <6> QED
            BY <5>1, <5>2, <6>2
        <5>4. u.at = l.block /\ u.at = u.left[Len(u.left)].block
          BY <2>1, <2>3, <4>2, <5>3 DEF SettlesTo
        <5> HIDE DEF u, v, l
        <5> QED
          BY <1>1, <2>1, <3>1, <5>4 DEF Aims, PaneInv, l
      <4> QED
        BY <4>1, <4>2
    <3>3. MadeUp => MadeUp'
      <4> SUFFICES ASSUME MadeUp, asked \in Blocks, ~fought, landed <= Corrections
                   PROVE  MadeUp'
        BY <1>1 DEF MadeUp
      <4>1. N = 1 /\ l.corrections + (IF short THEN 1 ELSE 0) <= landed
        <5>1. N = 1
          <6>1. N <= 1
            BY DEF MadeUp
          <6>2. N \in Nat \ {0}
            BY <2>1, ListenersCount DEF PaneInv
          <6> HIDE DEF N
          <6> QED
            BY <6>1, <6>2
        <5> QED
          BY <2>1, <5>1 DEF MadeUp
      <4>2. u = Untouched
        BY <1>2, <4>1
      <4>3. at = l.block
        BY <2>1 DEF Aims, PaneInv
      <4>4. ~short
        <5>1. l.corrections \in Int /\ Corrections \in Int /\ landed \in Int
          BY <2>1, PlacesAssumption DEF Listeners, PaneInv, PaneTypes
        <5>2. short => l.corrections < Corrections
          BY <4>1, <5>1
        <5> QED
          BY <2>3, <4>2, <5>2 DEF Untouched
      <4> QED
        BY <1>1, <3>1, <4>2, <4>4 DEF MadeUp, Untouched
    <3> QED
      BY <1>3, <3>2, <3>3 DEF PaneInv
  <2> QED
    BY <2>2, <2>3
<1> QED
  BY <1>4, <1>5

LEMMA TakenKept ==
    ASSUME PaneInv, ReaderScrolls \/ AnyKey \/ Overview
    PROVE  PaneInv' /\ MadeUp'
<1>1. CASE ReaderScrolls
  <2>1. /\ listening' = <<>> /\ at' = "reader" /\ short' = FALSE /\ scrolling' = TRUE
        /\ asked' = "reader" /\ fought' = FALSE /\ landed' = landed
    BY <1>1 DEF ReaderScrolls, stop
  <2>2. PaneTypes'
    <3>1. <<>> \in Seq(Listeners) /\ "reader" \in Spots /\ landed' \in Nat
      BY <2>1 DEF PaneInv, PaneTypes, Spots
    <3> QED
      BY <2>1, <3>1 DEF PaneTypes
  <2>3. Ordered' /\ Aims' /\ MadeUp'
    BY <2>1, PlacesAreApart DEF Ordered, Aims, MadeUp
  <2> QED
    BY <2>2, <2>3 DEF PaneInv
<1>2. CASE AnyKey
  BY <1>2, PlacesAreApart DEF AnyKey, stop, PaneInv, PaneTypes, Ordered, Aims, MadeUp, Spots
<1>3. CASE Overview
  BY <1>3, PlacesAreApart DEF Overview, PaneInv, PaneTypes, Ordered, Aims, MadeUp, Spots
<1> QED
  BY <1>1, <1>2, <1>3

\* What a step asks of the page and its content, if it asks anything.
LEMMA PaneStep ==
    ASSUME LayoutTypes, [PlacesNext]_placesVars
    PROVE  \/ UNCHANGED pane
           \/ \E block \in Blocks : bringIntoView(block)
           \/ Lands \/ ScrollEnd \/ ReaderScrolls \/ AnyKey \/ Overview
<1> DEFINE Brought == UNCHANGED pane \/ \E block \in Blocks : bringIntoView(block)
<1>1. ASSUME NEW block \in Blocks, NEW scroll, openOperation(block, scroll)
      PROVE  Brought
  BY <1>1 DEF openOperation, Found, pane
<1>2. ASSUME NEW block \in Blocks, OpenOperation(block) \/ RunOpens(block)
      PROVE  Brought
  BY <1>1, <1>2 DEF OpenOperation, RunOpens
<1>3. CASE FindFrame
  <2>1. PICK i \in DOMAIN finding :
          Found(finding[i].block, finding[i].scroll) \/ UNCHANGED pane
    BY <1>3 DEF FindFrame
  <2>2. finding[i].block \in Blocks
    <3>1. finding[i] \in Searches
      BY DEF LayoutTypes
    <3> QED
      BY <3>1 DEF Searches
  <2> QED
    BY <2>1, <2>2 DEF Found
<1>4. CASE toggleCamera
  BY <1>4 DEF toggleCamera, LayoutTypes
<1>5. CASE \/ UNCHANGED placesVars \/ ReactRendersTags \/ RunStarts \/ RunEnds
           \/ \E t \in TagsOfPage : FoldTag(t) \/ showAllOf(t)
  BY <1>5 DEF placesVars, pane, ReactRendersTags, RunStarts, RunEnds, FoldTag, showAllOf
<1> QED
  BY <1>2, <1>3, <1>4, <1>5 DEF PlacesNext

LEMMA RemovedFrom ==
    ASSUME NEW S, NEW s \in Seq(S), NEW i \in DOMAIN s
    PROVE  RemoveAt(s, i) \in Seq(S)
<1>1. i \in 1 .. Len(s) /\ Len(s) \in Nat
  OBVIOUS
<1>2. SubSeq(s, 1, i - 1) \in Seq(S) /\ SubSeq(s, i + 1, Len(s)) \in Seq(S)
  BY <1>1
<1> QED
  BY <1>2 DEF RemoveAt

\* The layout in a step: what is opened, found and rendered is of the page.
LEMMA LayoutKept ==
    ASSUME LayoutTypes, [PlacesNext]_placesVars
    PROVE  LayoutTypes'
<1>0. Finds \in Nat
  BY PlacesAssumption
<1>1. ASSUME NEW block \in Blocks, NEW scroll \in BOOLEAN, openOperation(block, scroll), UNCHANGED camera
      PROVE  LayoutTypes'
  <2>1. tagsOpen' \cup rendered' \subseteq TagsOfPage /\ blocksOpen' \subseteq Blocks
    BY <1>1 DEF LayoutTypes, openOperation, Found, TagsOfPage
  <2>2. finding' = finding \/ finding' = Append(finding, [block |-> block, scroll |-> scroll, tries |-> Finds])
    BY <1>1 DEF openOperation
  <2>3. finding' \in Seq(Searches)
    <3>1. [block |-> block, scroll |-> scroll, tries |-> Finds] \in Searches
      BY <1>0 DEF Searches
    <3> QED
      BY <2>2, <3>1 DEF LayoutTypes
  <2> QED
    BY <1>1, <2>1, <2>3 DEF LayoutTypes, Searches
<1>2. ASSUME NEW block \in Blocks, OpenOperation(block) \/ RunOpens(block)
      PROVE  LayoutTypes'
  <2>1. PICK scroll \in BOOLEAN : openOperation(block, scroll) /\ UNCHANGED camera
    BY <1>2 DEF OpenOperation, RunOpens
  <2> QED
    BY <1>1, <2>1
<1>3. CASE FindFrame
  <2>1. PICK i \in DOMAIN finding :
          /\ \/ finding' = RemoveAt(finding, i)
             \/ finding[i].tries # 0 /\ finding' = [finding EXCEPT ![i].tries = @ - 1]
          /\ blocksOpen' \subseteq blocksOpen \cup {finding[i].block}
          /\ UNCHANGED <<tagsOpen, rendered, camera>>
    BY <1>3 DEF FindFrame, Found
  <2>2. finding \in Seq(Searches) /\ finding[i] \in Searches
    BY DEF LayoutTypes
  <2>3. finding' \in Seq(Searches)
    <3>1. CASE finding' = RemoveAt(finding, i)
      BY <2>2, <3>1, RemovedFrom
    <3>2. CASE finding[i].tries # 0 /\ finding' = [finding EXCEPT ![i].tries = @ - 1]
      <4> DEFINE f == [finding[i] EXCEPT !.tries = @ - 1]
      <4>1. f \in Searches
        <5>1. finding[i].tries \in Nat \ {0}
          BY <2>2, <3>2 DEF Searches
        <5>2. finding[i].tries - 1 \in Nat
          BY <5>1
        <5> QED
          BY <2>2, <5>2 DEF Searches
      <4>2. finding' = [finding EXCEPT ![i] = f]
        BY <3>2
      <4> HIDE DEF f
      <4> QED
        BY <2>2, <4>1, <4>2
    <3> QED
      BY <2>1, <3>1, <3>2
  <2> QED
    BY <2>1, <2>2, <2>3 DEF LayoutTypes, Searches
<1>4. ASSUME NEW t \in TagsOfPage, FoldTag(t) \/ showAllOf(t)
      PROVE  LayoutTypes'
  BY <1>4 DEF FoldTag, showAllOf, OperationsOf, LayoutTypes
<1>5. CASE ReactRendersTags \/ Lands \/ ScrollEnd \/ ReaderScrolls \/ AnyKey \/ Overview
           \/ RunStarts \/ RunEnds \/ toggleCamera \/ UNCHANGED placesVars
  BY <1>0, <1>5 DEF ReactRendersTags, Lands, ScrollEnd, ReaderScrolls, AnyKey, Overview, RunStarts, RunEnds,
                    toggleCamera, placesVars, layout, LayoutTypes
<1> QED
  BY <1>2, <1>3, <1>4, <1>5 DEF PlacesNext

LEMMA PlacesStepKept ==
    ASSUME LayoutTypes, PaneInv, [PlacesNext]_placesVars
    PROVE  LayoutTypes' /\ PaneInv' /\ (MadeUp => MadeUp')
<1>1. LayoutTypes'
  BY LayoutKept
<1> QED
  BY <1>1, PaneStep, PaneKept, BringKept, LandsKept, ScrollEndKept, TakenKept

LEMMA PlacesInitInv == PlacesInit => LayoutTypes /\ PaneInv /\ MadeUp
<1> SUFFICES ASSUME PlacesInit
             PROVE  LayoutTypes /\ PaneInv /\ MadeUp
  OBVIOUS
<1>1. LayoutTypes
  BY PlacesAssumption DEF PlacesInit, LayoutTypes
<1>2. PaneTypes
  <2>1. <<>> \in Seq(Listeners) /\ "overview" \in Spots
    BY DEF Spots
  <2> QED
    BY <2>1 DEF PlacesInit, PaneTypes
<1>3. Ordered /\ Aims /\ MadeUp
  BY PlacesAreApart DEF PlacesInit, Ordered, Aims, MadeUp
<1> QED
  BY <1>1, <1>2, <1>3 DEF PaneInv

\* A page that rests is where it was last asked to be, in any page, for any scrolls,
\* keys, landing content and loops that look for a block (operations.bringIntoView).
THEOREM PageRestsWhereAsked == PlacesSpec => []LandsWhereAsked
<1>1. LayoutTypes /\ PaneInv /\ MadeUp /\ [PlacesNext]_placesVars => (LayoutTypes /\ PaneInv /\ MadeUp)'
  BY PlacesStepKept
<1>2. LayoutTypes /\ PaneInv /\ MadeUp => LandsWhereAsked
  <2>1. PaneTypes => (landed <= Corrections <=> ~(landed > Corrections))
    BY PlacesAssumption DEF PaneTypes
  <2> QED
    BY <2>1 DEF PaneInv, PaneTypes, Aims, MadeUp, LandsWhereAsked, Spots
<1> QED
  BY <1>1, <1>2, PlacesInitInv, PTL DEF PlacesSpec

\* However much lands, the place at the top is the one asked for last, unless that
\* was the overview: no listener takes the page elsewhere, and none takes the reader's.
THEOREM PageGoesWhereAsked == PlacesSpec => [](asked # "overview" => at = asked)
<1>1. LayoutTypes /\ PaneInv /\ [PlacesNext]_placesVars => (LayoutTypes /\ PaneInv)'
  BY PlacesStepKept
<1>2. PaneInv => (asked # "overview" => at = asked)
  BY DEF PaneInv, PaneTypes, Aims, Spots
<1> QED
  BY <1>1, <1>2, PlacesInitInv, PTL DEF PlacesSpec

\* The types of the page's places, and no listener corrects oftener than it may.
THEOREM PlacesTypes == PlacesSpec => []PlacesOK
<1>1. LayoutTypes /\ PaneInv /\ [PlacesNext]_placesVars => (LayoutTypes /\ PaneInv)'
  BY PlacesStepKept
<1>2. LayoutTypes /\ PaneInv => PlacesOK
  <2> SUFFICES ASSUME LayoutTypes, PaneInv
               PROVE  PlacesOK
    OBVIOUS
  <2>1. ASSUME NEW i \in DOMAIN listening
        PROVE  listening[i].corrections <= Corrections
    <3>1. listening[i] \in Listeners
      BY DEF PaneInv, PaneTypes
    <3> QED
      BY <3>1, PlacesAssumption DEF Listeners
  <2> QED
    BY <2>1 DEF LayoutTypes, PaneInv, PaneTypes, PlacesOK, Spots
<1> QED
  BY <1>1, <1>2, PlacesInitInv, PTL DEF PlacesSpec

-----------------------------------------------------------------------------
(* The window.                                                              *)

WindowInv ==
    /\ WindowOK
    /\ spec => loadingStatus = "success"
    /\ checks \in [Checks -> {"none", "asked", "up", "unwell", "down"}]
    /\ server \in {"up", "unwell", "down"}

LEMMA WindowInvInit == WindowInit => WindowInv
BY DEF WindowInit, WindowInv, WindowOK

\* Asking for a check keeps the others.
LEMMA AskKept ==
    ASSUME checks \in [Checks -> {"none", "asked", "up", "unwell", "down"}], NEW has, NEW seen,
           checkHealth(has, seen) \/ UNCHANGED checks
    PROVE  checks' \in [Checks -> {"none", "asked", "up", "unwell", "down"}]
BY DEF checkHealth, Ask

LEMMA WindowFrameKept ==
    ASSUME WindowInv, WindowFrame
    PROVE  WindowInv'
<1>1. checks' \in [Checks -> {"none", "asked", "up", "unwell", "down"}]
  <2>1. checkHealth(spec', visible) \/ UNCHANGED checks
    BY DEF WindowFrame
  <2> QED
    BY <2>1, AskKept DEF WindowInv
<1>2. /\ UNCHANGED <<loadingStatus, ceilings, server, light>>
      /\ spec' = (spec \/ loadingStatus = "success")
      /\ dressed' = Dressing
      /\ window' \in {window, "revealing"}
  BY DEF WindowFrame, readSpec, settleLoading
<1>3. dressed' \subseteq Pieces
  BY <1>2 DEF Dressing, WindowInv, WindowOK, Pieces
<1>4. spec' = (loadingStatus' = "success")
  BY <1>2 DEF WindowInv
<1>5. spec' => Pieces \ {"card"} \subseteq dressed'
  BY <1>2 DEF Dressing, Pieces
<1>6. "card" \in dressed' <=> specFailed'
  BY <1>2 DEF Dressing, specFailed
<1> QED
  BY <1>1, <1>2, <1>3, <1>4, <1>5, <1>6 DEF WindowInv, WindowOK

LEMMA WindowInvStep ==
    ASSUME WindowInv, [WindowNext]_windowVars
    PROVE  WindowInv'
<1>1. CASE UNCHANGED windowVars
  BY <1>1 DEF windowVars, WindowInv, WindowOK, specFailed
<1>2. ASSUME UNCHANGED <<loading, dressed, queued, light, server>>,
             \E has, seen : checkHealth(has, seen)
      PROVE  WindowInv'
  <2>1. checks' \in [Checks -> {"none", "asked", "up", "unwell", "down"}]
    BY <1>2, AskKept DEF WindowInv
  <2> QED
    BY <1>2, <2>1 DEF loading, WindowInv, WindowOK, specFailed
<1>3. CASE HealthEvery \/ NoAnswer
  BY <1>2, <1>3 DEF HealthEvery, NoAnswer
<1>4. CASE VisibilityChange
  <2>1. checks' \in [Checks -> {"none", "asked", "up", "unwell", "down"}]
    BY <1>4, AskKept DEF VisibilityChange, WindowInv
  <2> QED
    BY <1>4, <2>1 DEF VisibilityChange, WindowInv, WindowOK, specFailed
<1>5. ASSUME NEW c \in Checks, Served(c) \/ paintHealth(c)
      PROVE  WindowInv'
  <2>1. UNCHANGED <<loading, dressed, queued, server>>
    BY <1>5 DEF Served, paintHealth
  <2>2. checks' \in [Checks -> {"none", "asked", "up", "unwell", "down"}]
    BY <1>5 DEF Served, paintHealth, WindowInv
  <2>3. light' \in {"none", "up", "unwell", "down"}
    BY <1>5 DEF Served, paintHealth, WindowInv, WindowOK
  <2> QED
    BY <2>1, <2>2, <2>3 DEF loading, WindowInv, WindowOK, specFailed
<1>6. ASSUME NEW how \in {"success", "failed"}, SwaggerSettles(how)
      PROVE  WindowInv'
  BY <1>6 DEF SwaggerSettles, health, WindowInv, WindowOK
<1>7. CASE InfoRendered \/ FacesSettle \/ (\E which \in ceilings : Ceiling(which)) \/ ReactRenders
  <2>1. queued' = TRUE /\ UNCHANGED <<loadingStatus, spec, window, health>>
    BY <1>7 DEF InfoRendered, FacesSettle, Ceiling, ReactRenders, loading
  <2>2. ceilings' \subseteq ceilings /\ dressed' \subseteq dressed
    BY <1>7 DEF InfoRendered, FacesSettle, Ceiling, ReactRenders, loading
  <2> QED
    BY <2>1, <2>2 DEF health, WindowInv, WindowOK
<1>8. CASE Revealed \/ \E s \in {"up", "unwell", "down"} : ServerBecomes(s)
  <2>1. UNCHANGED <<loadingStatus, spec, ceilings, dressed, queued, checks, light>>
    BY <1>8 DEF Revealed, ServerBecomes, loading, health
  <2>2. window' \in {window, "shown"} /\ server' \in {"up", "unwell", "down"}
    BY <1>8 DEF Revealed, ServerBecomes, loading, health, WindowInv
  <2> QED
    BY <2>1, <2>2 DEF WindowInv, WindowOK, specFailed
<1> QED
  BY <1>1, <1>3, <1>4, <1>5, <1>6, <1>7, <1>8, WindowFrameKept DEF WindowNext, LoadingGoesOn, HealthGoesOn

\* Once no frame is due the page wears every piece of its description, and the
\* failure's card only then, for any order of what arrives, renders and hides.
THEOREM WindowIsDressed == WindowSpec => []WindowOK
<1>1. WindowInv => WindowOK
  BY DEF WindowInv
<1> QED
  BY <1>1, WindowInvInit, WindowInvStep, PTL DEF WindowSpec

-----------------------------------------------------------------------------
(* What the reader works the page with.                                     *)

Offers == [does : {"credentials", "density", "rail", "legend", "operation"},
            to : {"open", "closed", "compact", "comfortable"}]

PaletteFine ==
    /\ palette \in [up : BOOLEAN, entries : Seq(Offers), matches : Seq(Offers), selected : Int]
    /\ palette.matches # <<>> => palette.selected + 1 \in 1 .. Len(palette.matches)

\* An entry says what it would do now.
Says(e) == /\ e.does = "rail" => ~screen.phone /\ e.to = Other(rail)
           /\ e.does = "density" => e.to = Other(density)

Current == palette.up /\ ~behindIt => \A i \in 1 .. Len(palette.entries) : Says(palette.entries[i])

FoldsFine ==
    /\ screen \in [phone : BOOLEAN, short : BOOLEAN, storage : BOOLEAN]
    /\ kept \in [rail : {"none", "open", "closed"}, density : {"none", "compact", "comfortable"}]
    /\ rail \in {"open", "closed"}
    /\ screen.storage => rail = RestoredRail(kept.rail)
    /\ density = DensityOf(kept.density, screen)

AtHome == /\ drawer => screen.phone
          /\ statusHome = IF screen.phone THEN "rail" ELSE "win"

ControlsInv == PaletteFine /\ Current /\ FoldsFine /\ AtHome

LEMMA DensityIsOne ==
    ASSUME FoldsFine
    PROVE  density \in {"compact", "comfortable"}
BY DEF FoldsFine, DensityOf

LEMMA ControlsInvInit == ControlsInit => ControlsInv
<1> SUFFICES ASSUME ControlsInit
             PROVE  ControlsInv
  OBVIOUS
<1>1. PaletteFine
  <2>1. <<>> \in Seq(Offers)
    OBVIOUS
  <2> QED
    BY <2>1 DEF ControlsInit, PaletteFine
<1>2. Current /\ FoldsFine /\ AtHome
  BY DEF ControlsInit, Current, FoldsFine, AtHome, RestoredRail
<1> QED
  BY <1>1, <1>2 DEF ControlsInv

LEMMA OpenedFine ==
    ASSUME FoldsFine, openPalette, UNCHANGED <<screen, rail, density>>
    PROVE  PaletteFine' /\ Current'
<1> DEFINE first == <<[does |-> "credentials", to |-> "open"], [does |-> "density", to |-> Other(density)]>>
           second == IF screen.phone THEN <<>> ELSE <<[does |-> "rail", to |-> Other(rail)]>>
           third == <<[does |-> "legend", to |-> "open"], [does |-> "operation", to |-> "open"]>>
           Fit == {e \in Offers : Says(e)}
<1>1. Other(density) \in {"compact", "comfortable"} /\ Other(rail) \in {"open", "closed"}
  BY DensityIsOne DEF FoldsFine, Other
<1>2. /\ [does |-> "credentials", to |-> "open"] \in Fit /\ [does |-> "density", to |-> Other(density)] \in Fit
      /\ [does |-> "legend", to |-> "open"] \in Fit /\ [does |-> "operation", to |-> "open"] \in Fit
      /\ ~screen.phone => [does |-> "rail", to |-> Other(rail)] \in Fit
  BY <1>1 DEF Offers, Says
<1> HIDE DEF Fit
<1>3. first \in Seq(Fit) /\ second \in Seq(Fit) /\ third \in Seq(Fit) /\ Len(first) = 2
  BY <1>2
<1>4. Entries = first \o second \o third
  BY DEF Entries
<1> HIDE DEF first, second, third
<1>5. Entries \in Seq(Fit) /\ Len(Entries) \in Nat \ {0}
  BY <1>3, <1>4
<1>6. Entries \in Seq(Offers) /\ \A i \in 1 .. Len(Entries) : Says(Entries[i])
  BY <1>5 DEF Fit
<1>7. palette' = [up |-> TRUE, entries |-> Entries, matches |-> Entries, selected |-> 0] /\ behindIt' = FALSE
  BY DEF openPalette, Opened
<1>8. PaletteFine'
  BY <1>5, <1>6, <1>7 DEF PaletteFine
<1>9. Current'
  BY <1>6, <1>7 DEF Current, Says
<1> QED
  BY <1>8, <1>9

\* Typing and the arrows keep one entry marked of those that match.
LEMMA QueryKept ==
    ASSUME ControlsInv, TypeQuery
    PROVE  PaletteFine' /\ Current'
<1>1. PICK query \in Queries :
        palette' = [palette EXCEPT !.matches = Matching(palette.entries, query), !.selected = 0]
  BY DEF TypeQuery
<1> DEFINE found == Matching(palette.entries, query)
<1>2. found \in Seq(Offers) /\ Len(found) \in Nat
  BY ThoseFacts DEF Matching, ControlsInv, PaletteFine
<1> HIDE DEF found
<1>3. PaletteFine'
  <2>1. found # <<>> => 0 + 1 \in 1 .. Len(found)
    BY <1>2
  <2>2. palette' = [palette EXCEPT !.matches = found, !.selected = 0]
    BY <1>1 DEF found
  <2>3. palette'.matches = found /\ palette'.selected = 0
        /\ palette' \in [up : BOOLEAN, entries : Seq(Offers), matches : Seq(Offers), selected : Int]
    <3> DEFINE p == [palette EXCEPT !.matches = found]
    <3>1. p.matches = found /\ p \in [up : BOOLEAN, entries : Seq(Offers), matches : Seq(Offers), selected : Int]
      BY <1>2 DEF ControlsInv, PaletteFine
    <3>2. palette' = [p EXCEPT !.selected = 0]
      BY <2>2
    <3> HIDE DEF p
    <3> QED
      BY <3>1, <3>2
  <2> QED
    BY <2>1, <2>3 DEF PaletteFine
<1>4. palette'.up = palette.up /\ palette'.entries = palette.entries /\ UNCHANGED <<behindIt, screen, rail, density>>
  BY <1>1 DEF TypeQuery, ControlsInv, PaletteFine, folds
<1> QED
  BY <1>3, <1>4 DEF ControlsInv, Current, Says

LEMMA ArrowKept ==
    ASSUME ControlsInv, NEW by \in {-1, 1}, Arrow(by)
    PROVE  PaletteFine' /\ Current'
<1> DEFINE n == palette.selected + by
           most == Len(palette.matches) - 1
           to == IF by > 0 THEN Min({n, most}) ELSE Max({n, 0})
           marked == Marked(palette.matches, to)
<1>0. 0 \in Int
  OBVIOUS
<1>1. palette' = [palette EXCEPT !.selected = marked]
  BY DEF Arrow
<1>2. n \in Int /\ most \in Int /\ Len(palette.matches) \in Nat
  BY DEF ControlsInv, PaletteFine
<1>3. palette.matches # <<>> => n >= -1 /\ most >= 0
  BY DEF ControlsInv, PaletteFine
<1>4. by > 0 => n = palette.selected + 1
  OBVIOUS
<1>5. to \in Int /\ (palette.matches # <<>> => to >= 0)
  <2> HIDE DEF most
  <2>1. palette.matches # <<>> /\ by > 0 => n >= 0
    BY <1>2, <1>4 DEF ControlsInv, PaletteFine
  <2> HIDE DEF n
  <2>2. by > 0 => Min({n, most}) \in Int /\ (palette.matches # <<>> => Min({n, most}) >= 0)
    BY <1>2, <1>3, <2>1, LeastOfTwo
  <2>3. Max({n, 0}) \in Int /\ Max({n, 0}) >= 0
    <3>1. Max({n, 0}) \in {n, 0} /\ Max({n, 0}) >= 0
      BY <1>2, <1>0, GreatestOfTwo, Zenon
    <3> QED
      BY <1>2, <3>1
  <2> QED
    BY <2>2, <2>3
<1>6. marked = Min({to, Max({0, most})})
  BY DEF Marked
<1> HIDE DEF n, most, to, marked
<1>7. Max({0, most}) \in {0, most} /\ Max({0, most}) >= 0 /\ Max({0, most}) >= most
  BY <1>0, <1>2, GreatestOfTwo, Zenon
<1>8. marked \in {to, Max({0, most})} /\ marked <= to /\ marked <= Max({0, most})
  <2>1. Max({0, most}) \in Int
    BY <1>2, <1>7
  <2> QED
    BY <1>5, <1>6, <2>1, LeastOfTwo, Zenon
<1>9. marked \in Int /\ (palette.matches # <<>> => marked + 1 \in 1 .. Len(palette.matches))
  BY <1>2, <1>3, <1>5, <1>7, <1>8 DEF most
<1>10. PaletteFine'
  BY <1>1, <1>9 DEF ControlsInv, PaletteFine
<1>11. palette'.up = palette.up /\ palette'.entries = palette.entries /\ UNCHANGED <<behindIt, screen, rail, density>>
  BY <1>1 DEF Arrow, ControlsInv, PaletteFine, folds
<1> QED
  BY <1>10, <1>11 DEF ControlsInv, Current, Says

\* A palette that closes, or stays as it is while the page does.
LEMMA PaletteKept ==
    ASSUME ControlsInv,
           \/ /\ palette' = palette
              /\ ~palette.up \/ behindIt' \/ UNCHANGED <<behindIt, screen, rail, density>>
           \/ palette' = [palette EXCEPT !.up = FALSE]
    PROVE  PaletteFine' /\ Current'
<1>1. CASE palette' = palette /\ (~palette.up \/ behindIt' \/ UNCHANGED <<behindIt, screen, rail, density>>)
  BY <1>1 DEF ControlsInv, PaletteFine, Current, Says
<1>2. CASE palette' = [palette EXCEPT !.up = FALSE]
  BY <1>2 DEF ControlsInv, PaletteFine, Current
<1> QED
  BY <1>1, <1>2

\* What is kept is what is shown.
LEMMA FoldsKept ==
    ASSUME FoldsFine, UNCHANGED screen, UNCHANGED folds \/ toggleDensity \/ toggleRail
    PROVE  FoldsFine'
<1>1. CASE UNCHANGED folds
  BY <1>1 DEF folds, FoldsFine
<1>2. CASE toggleDensity
  <2> DEFINE chosen == IF screen.storage THEN Other(density) ELSE kept.density
  <2>1. chosen \in {"none", "compact", "comfortable"}
    BY DensityIsOne DEF FoldsFine, Other
  <2>2. kept' = [kept EXCEPT !.density = chosen] /\ density' = DensityOf(chosen, screen) /\ rail' = rail
    BY <1>2 DEF toggleDensity
  <2> HIDE DEF chosen
  <2> QED
    BY <2>1, <2>2 DEF FoldsFine
<1>3. CASE toggleRail
  <2>1. rail' \in {"open", "closed"}
    BY <1>3 DEF toggleRail, FoldsFine, Other
  <2>2. kept' = (IF screen.storage THEN [kept EXCEPT !.rail = rail'] ELSE kept) /\ density' = density
    BY <1>3 DEF toggleRail
  <2>3. screen.storage => kept'.rail = rail'
    BY <2>2 DEF FoldsFine
  <2>4. kept' \in [rail : {"none", "open", "closed"}, density : {"none", "compact", "comfortable"}]
        /\ kept'.density = kept.density
    BY <2>1, <2>2 DEF FoldsFine
  <2> QED
    BY <2>1, <2>2, <2>3, <2>4 DEF FoldsFine, RestoredRail
<1> QED
  BY <1>1, <1>2, <1>3

\* An entry of the palette does what a button does, and closes the palette.
LEMMA ChooseKept ==
    ASSUME ControlsInv, NEW entry, NEW click, Choose(entry, click)
    PROVE  ControlsInv'
<1>1. /\ UNCHANGED <<screen, drawer, statusHome>>
      /\ palette' = [palette EXCEPT !.up = FALSE]
      /\ UNCHANGED folds \/ toggleDensity \/ toggleRail
  BY DEF Choose, closePalette
<1> QED
  BY <1>1, PaletteKept, FoldsKept DEF ControlsInv, AtHome

\* Where the statusbar is and whether a drawer is open is the screen's.
LEMMA ScreenKept ==
    ASSUME ControlsInv, ScreenChange
    PROVE  ControlsInv'
<1>1. PICK s \in [phone : BOOLEAN, short : BOOLEAN, storage : {screen.storage}] :
        /\ screen' = s /\ density' = DensityOf(kept.density, s)
        /\ statusHome' = IF s.phone THEN "rail" ELSE "win"
        /\ IF screen.phone /\ ~s.phone THEN setDrawer(FALSE) ELSE UNCHANGED drawer
        /\ behindIt' = (behindIt \/ palette.up)
        /\ UNCHANGED <<kept, rail, overlays, palette, focus>>
  BY DEF ScreenChange
<1>2. screen'.storage = screen.storage
      /\ screen' \in [phone : BOOLEAN, short : BOOLEAN, storage : BOOLEAN]
  BY <1>1 DEF ControlsInv, FoldsFine
<1>3. FoldsFine'
  BY <1>1, <1>2 DEF ControlsInv, FoldsFine
<1>4. AtHome'
  BY <1>1 DEF ControlsInv, AtHome, setDrawer
<1>5. palette' = palette /\ (~palette.up \/ behindIt')
  BY <1>1
<1>6. PaletteFine' /\ Current'
  BY <1>5, PaletteKept
<1> QED
  BY <1>3, <1>4, <1>6 DEF ControlsInv

LEMMA BootKept ==
    ASSUME ControlsInv, Boot
    PROVE  ControlsInv'
<1>1. /\ rail' = RestoredRail(kept.rail) /\ density' = DensityOf(kept.density, screen)
      /\ drawer' = FALSE /\ UNCHANGED <<screen, kept, statusHome>>
      /\ palette' = [up |-> FALSE, entries |-> <<>>, matches |-> <<>>, selected |-> 0]
  BY DEF Boot, setDrawer
<1>2. PaletteFine'
  <2>1. <<>> \in Seq(Offers)
    OBVIOUS
  <2> QED
    BY <1>1, <2>1 DEF PaletteFine
<1>3. Current'
  BY <1>1 DEF Current
<1>4. FoldsFine'
  BY <1>1 DEF ControlsInv, FoldsFine, RestoredRail
<1> QED
  BY <1>1, <1>2, <1>3, <1>4 DEF ControlsInv, AtHome

LEMMA ControlsInvStep ==
    ASSUME ControlsInv, [ControlsNext]_controlsVars
    PROVE  ControlsInv'
\* What leaves the folds alone.
<1>1. ASSUME UNCHANGED <<screen, folds, statusHome>>, drawer' => screen.phone, PaletteFine' /\ Current'
      PROVE  ControlsInv'
  BY <1>1, FoldsKept DEF ControlsInv, AtHome
\* What leaves the palette alone, or closes it.
<1>2. ASSUME UNCHANGED <<screen, folds, statusHome>>, drawer' => screen.phone,
             \/ UNCHANGED <<palette, behindIt>>
             \/ palette' = [palette EXCEPT !.up = FALSE]
      PROVE  ControlsInv'
  BY <1>1, <1>2, PaletteKept DEF folds
<1>3. CASE UNCHANGED controlsVars
  BY <1>2, <1>3 DEF controlsVars, folds, ControlsInv, AtHome
<1>4. CASE TypeQuery \/ \E by \in {-1, 1} : Arrow(by)
  <2>1. UNCHANGED <<screen, folds, statusHome, drawer>>
    BY <1>4 DEF TypeQuery, Arrow
  <2> QED
    BY <1>1, <1>4, <2>1, QueryKept, ArrowKept DEF ControlsInv, AtHome
<1>5. CASE EnterChooses \/ ClickChooses
  BY <1>5, ChooseKept DEF EnterChooses, ClickChooses
<1>6. CASE CtrlK
  BY <1>1, <1>6, OpenedFine DEF CtrlK, folds, ControlsInv, AtHome
<1>7. CASE CtrlB
  <2>1. FoldsFine' /\ AtHome'
    BY <1>7, FoldsKept DEF CtrlB, ControlsInv, AtHome
  <2>2. palette' = palette /\ (~palette.up \/ behindIt')
    BY <1>7 DEF CtrlB
  <2> QED
    BY <2>1, <2>2, PaletteKept DEF ControlsInv
<1>8. CASE FoldButton \/ DensityButton
  <2>1. FoldsFine' /\ AtHome'
    BY <1>8, FoldsKept DEF FoldButton, DensityButton, ControlsInv, AtHome
  <2>2. palette' = palette /\ ~palette.up
    BY <1>8 DEF FoldButton, DensityButton, modal
  <2> QED
    BY <2>1, <2>2, PaletteKept DEF ControlsInv
<1>9. CASE Escape
  <2>1. UNCHANGED <<screen, folds, statusHome, behindIt>> /\ (drawer' => drawer)
    BY <1>9 DEF Escape, setDrawer
  <2>2. palette' = palette \/ palette' = [palette EXCEPT !.up = FALSE]
    BY <1>9 DEF Escape
  <2> QED
    BY <1>2, <2>1, <2>2 DEF ControlsInv, AtHome
<1>10. CASE ClickElsewhere
  BY <1>2, <1>10 DEF ClickElsewhere, closePalette, ControlsInv, AtHome
<1>11. CASE Scrolls \/ LegendButton \/ (\E op \in 1 .. Rows : toggleHistory(op))
            \/ (\E by \in {-1, 1} : stepOperation(by))
  BY <1>2, <1>11 DEF Scrolls, LegendButton, toggleHistory, stepOperation, ControlsInv, AtHome
<1>12. CASE Menu \/ DrawerCloses
  BY <1>2, <1>12 DEF Menu, DrawerCloses, setDrawer, ControlsInv, AtHome
<1> QED
  BY <1>3, <1>4, <1>5, <1>6, <1>7, <1>8, <1>9, <1>10, <1>11, <1>12, ScreenKept, BootKept DEF ControlsNext

LEMMA ControlsSay == ControlsInv => ControlsOK
<1> SUFFICES ASSUME ControlsInv
             PROVE  ControlsOK
  OBVIOUS
<1>1. DOMAIN palette.matches = 1 .. Len(palette.matches) /\ DOMAIN palette.entries = 1 .. Len(palette.entries)
  BY DEF ControlsInv, PaletteFine
<1> QED
  BY <1>1 DEF ControlsInv, PaletteFine, Current, Says, FoldsFine, AtHome, ControlsOK

\* What is kept is what is shown, on any screen, with or without storage; one entry
\* of those that match is marked; and an entry of the palette says what it would do.
THEOREM ControlsShowWhatIsKept == ControlsSpec => []ControlsOK
BY ControlsInvInit, ControlsInvStep, ControlsSay, PTL DEF ControlsSpec

-----------------------------------------------------------------------------
(* The demo's budget and lists.                                             *)

\* A tenant's calls are in the past, and no more than its limit.
DemoInv ==
    /\ time \in Nat
    /\ tenants \in [Names -> {"none", "active", "inactive"}]
    /\ documents \in [DocumentIds -> [tenant : Names \cup {Missing}, requestedAt : Nat \cup {Missing}]]
    /\ hits \in [Names -> Seq(0 .. time)]
    /\ \A n \in Names : Len(hits[n]) <= RateLimit

LEMMA DemoConstants == /\ MaxDocuments \in Nat /\ RateLimit \in Nat \ {0} /\ WINDOW \in Nat \ {0}
                       /\ Missing \notin Names
BY DemoAssumption

\* Only a tenant's key opens the routes of documents.
LEMMA CallerIsTenant ==
    ASSUME NEW who \in Callers, caller(who, "tenant") = 200
    PROVE  who \in Names
BY DEF caller, Callers

LEMMA InWindowFacts ==
    ASSUME DemoInv, NEW n \in Names
    PROVE  /\ InWindow(n) \in Seq(0 .. time) /\ Len(InWindow(n)) \in 0 .. RateLimit
           /\ InWindow(n) # <<>> => InWindow(n)[1] \in 0 .. time /\ time - InWindow(n)[1] < WINDOW
<1> DEFINE T == {t \in Nat : time - t < WINDOW}
           w == Those(hits[n], T)
<1>1. InWindow(n) = w
  BY DEF InWindow
<1>2. hits[n] \in Seq(0 .. time) /\ Len(hits[n]) <= RateLimit /\ Len(hits[n]) \in Nat
  BY DEF DemoInv
<1> HIDE DEF T
<1>3. /\ w \in Seq(0 .. time) /\ Len(w) \in Nat /\ Len(w) <= Len(hits[n])
      /\ \A i \in 1 .. Len(w) : w[i] \in T /\ w[i] \in 0 .. time
  BY <1>2, ThoseFacts
<1> HIDE DEF w
<1>4. Len(w) \in 0 .. RateLimit
  BY <1>2, <1>3, DemoConstants
<1>5. w # <<>> => w[1] \in T /\ w[1] \in 0 .. time
  <2>1. w # <<>> => 1 \in 1 .. Len(w)
    BY <1>3
  <2> QED
    BY <1>3, <2>1
<1> QED
  BY <1>1, <1>3, <1>4, <1>5 DEF T

LEMMA DemoInvInit == DemoInit => DemoInv
<1> SUFFICES ASSUME DemoInit
             PROVE  DemoInv
  OBVIOUS
<1>1. <<>> \in Seq(0 .. time)
  OBVIOUS
<1> QED
  BY <1>1, DemoConstants DEF DemoInit, DemoInv, Nowhere, DocumentIds

LEMMA SpendsKept ==
    ASSUME DemoInv, NEW n \in Callers, Spends(n)
    PROVE  /\ n \in Names /\ UNCHANGED <<time, tenants>>
           /\ hits' \in [Names -> Seq(0 .. time)] /\ \A m \in Names : Len(hits'[m]) <= RateLimit
<1>1. n \in Names /\ UNCHANGED <<time, tenants>>
  BY CallerIsTenant DEF Spends
<1> DEFINE now1 == Append(InWindow(n), time)
<1>2. hits' = [hits EXCEPT ![n] = now1] /\ RateLimit - Len(InWindow(n)) > 0
  BY DEF Spends, budget, RemainingOf
<1>3. InWindow(n) \in Seq(0 .. time) /\ Len(InWindow(n)) \in 0 .. RateLimit
  BY <1>1, InWindowFacts
<1>4. time \in 0 .. time
  BY DEF DemoInv
<1>5. now1 \in Seq(0 .. time) /\ Len(now1) = Len(InWindow(n)) + 1
  BY <1>3, <1>4
<1>6. Len(now1) <= RateLimit
  BY <1>2, <1>3, <1>5, DemoConstants
<1> HIDE DEF now1
<1> QED
  BY <1>1, <1>2, <1>5, <1>6 DEF DemoInv

LEMMA DemoInvStep ==
    ASSUME DemoInv, [DemoNext]_demoVars
    PROVE  DemoInv'
<1>1. CASE UNCHANGED demoVars
  BY <1>1 DEF demoVars, DemoInv
<1>2. ASSUME NEW n \in Names, createTenant(n) \/ \E active \in BOOLEAN : SetActive(n, active)
      PROVE  DemoInv'
  BY <1>2 DEF createTenant, SetActive, DemoInv
<1>3. ASSUME NEW n \in Callers, TooMany(n)
      PROVE  DemoInv'
  <2>1. n \in Names /\ hits' = [hits EXCEPT ![n] = InWindow(n)] /\ UNCHANGED <<time, tenants, documents>>
    BY <1>3, CallerIsTenant DEF TooMany
  <2>2. InWindow(n) \in Seq(0 .. time) /\ Len(InWindow(n)) <= RateLimit
    BY <2>1, InWindowFacts
  <2> QED
    BY <2>1, <2>2 DEF DemoInv
<1>4. ASSUME NEW n \in Callers, Spends(n),
             documents' \in [DocumentIds -> [tenant : Names \cup {Missing}, requestedAt : Nat \cup {Missing}]]
      PROVE  DemoInv'
  BY <1>4, SpendsKept DEF DemoInv
<1>5. ASSUME NEW n \in Callers, createDocument(n)
      PROVE  DemoInv'
  <2>1. PICK d \in DocumentIds : documents' = [documents EXCEPT ![d] = [tenant |-> n, requestedAt |-> Missing]]
    BY <1>5 DEF createDocument
  <2>2. Spends(n) /\ n \in Names
    BY <1>5, SpendsKept DEF createDocument
  <2>3. documents' \in [DocumentIds -> [tenant : Names \cup {Missing}, requestedAt : Nat \cup {Missing}]]
    BY <2>1, <2>2 DEF DemoInv
  <2> QED
    BY <1>4, <2>2, <2>3
<1>6. ASSUME NEW n \in Callers, NEW d \in DocumentIds, generate(n, d)
      PROVE  DemoInv'
  <2>1. documents' = [documents EXCEPT ![d].requestedAt = IF @ = Missing THEN time ELSE @] /\ Spends(n)
    BY <1>6 DEF generate
  <2>2. (IF documents[d].requestedAt = Missing THEN time ELSE documents[d].requestedAt) \in Nat \cup {Missing}
    BY DEF DemoInv
  <2>3. documents' \in [DocumentIds -> [tenant : Names \cup {Missing}, requestedAt : Nat \cup {Missing}]]
    BY <2>1, <2>2 DEF DemoInv
  <2> QED
    BY <1>4, <2>1, <2>3
<1>7. ASSUME NEW n \in Callers,
             \/ listDocuments(n) \/ RefusedCall(n)
             \/ \E d \in DocumentIds : ReadDocument(n, d) \/ Pdf(n, d)
      PROVE  DemoInv'
  <2>1. Spends(n) /\ documents' = documents
    BY <1>7 DEF listDocuments, RefusedCall, ReadDocument, Pdf
  <2> QED
    BY <1>4, <2>1 DEF DemoInv
<1>8. CASE Reload
  <2>1. hits' \in [Names -> Seq(0 .. time)] /\ \A n \in Names : Len(hits'[n]) <= RateLimit
    <3>1. <<>> \in Seq(0 .. time)
      OBVIOUS
    <3> QED
      BY <1>8, <3>1, DemoConstants DEF Reload
  <2>2. time' = time
    BY <1>8 DEF Reload
  <2>3. tenants' \in [Names -> {"none", "active", "inactive"}]
    BY <1>8 DEF Reload, DemoInv
  <2>4. documents' \in [DocumentIds -> [tenant : Names \cup {Missing}, requestedAt : Nat \cup {Missing}]]
    BY <1>8 DEF Reload, DemoInv, Nowhere
  <2> QED
    BY <2>1, <2>2, <2>3, <2>4 DEF DemoInv
<1>9. CASE TimePasses
  <2>1. time' = time + 1 /\ UNCHANGED <<tenants, documents, hits>> /\ time \in Nat
    BY <1>9 DEF TimePasses, DemoInv
  <2>2. \A s : s \in Seq(0 .. time) => s \in Seq(0 .. time')
    <3>1. 0 .. time \subseteq 0 .. time'
      BY <2>1
    <3> QED
      BY <3>1, SeqOfMore
  <2>3. \A n \in Names : hits[n] \in Seq(0 .. time')
    BY <2>2 DEF DemoInv
  <2> QED
    BY <2>1, <2>3 DEF DemoInv
<1> QED
  BY <1>1, <1>2, <1>3, <1>5, <1>6, <1>7, <1>8, <1>9 DEF DemoNext

\* The place of a document among its tenant's is a number of a document.
LEMMA PlaceFacts ==
    ASSUME NEW n \in Names, NEW d \in Own(n)
    PROVE  Place(n, d) \in 1 .. MaxDocuments
<1> DEFINE newer == {e \in Own(n) : e >= d}
<1>1. d \in DocumentIds /\ newer \subseteq 1 .. MaxDocuments /\ d \in newer
  BY DemoConstants DEF Own, DocumentIds
<1>2. IsFiniteSet(1 .. MaxDocuments) /\ Cardinality(1 .. MaxDocuments) = MaxDocuments
  BY DemoConstants, FS_Interval
<1> HIDE DEF newer
<1>3. IsFiniteSet(newer) /\ Cardinality(newer) <= MaxDocuments
  BY <1>1, <1>2, FS_Subset
<1>4. Cardinality(newer) \in Nat /\ Cardinality(newer) # 0
  BY <1>1, <1>3, FS_CardinalityType, FS_EmptySet
<1> QED
  BY <1>3, <1>4, DemoConstants DEF Place, newer

LEMMA OnePage ==
    ASSUME NEW n \in Names, NEW size \in 1 .. 2, NEW d \in Own(n)
    PROVE  Cardinality({number \in 0 .. MaxDocuments : d \in OnPage(n, number, size)}) = 1
<1> DEFINE p == Place(n, d)
           pages == {number \in 0 .. MaxDocuments : d \in OnPage(n, number, size)}
           page0 == IF size = 1 THEN p - 1 ELSE (p - 1) \div 2
<1>1. p \in 1 .. MaxDocuments /\ MaxDocuments \in Nat
  BY PlaceFacts, DemoConstants
<1>2. pages = {number \in 0 .. MaxDocuments : number * size < p /\ p <= number * size + size}
  BY DEF OnPage
<1> HIDE DEF p, pages
<1>3. pages = {page0}
  <2>1. CASE size = 1
    BY <1>1, <1>2, <2>1
  <2>2. CASE size = 2
    <3>1. pages = {number \in 0 .. MaxDocuments : 2 * number < p /\ p <= 2 * number + 2}
      BY <1>2, <2>2
    <3> DEFINE half == (p - 1) \div 2
    <3>2. half \in Int /\ 2 * half <= p - 1 /\ p - 1 < 2 * half + 2
      BY <1>1
    <3> HIDE DEF half
    <3>3. half \in 0 .. MaxDocuments /\ half \in pages
      BY <1>1, <3>1, <3>2
    <3>4. ASSUME NEW number \in pages
          PROVE  number = half
      <4>1. number \in Int /\ 2 * number < p /\ p <= 2 * number + 2 /\ p \in Int
        BY <1>1, <3>1
      <4> HIDE DEF p
      <4> QED
        BY <3>2, <4>1
    <3> QED
      BY <2>2, <3>3, <3>4 DEF half
  <2> QED
    BY <2>1, <2>2
<1> HIDE DEF page0
<1> QED
  BY <1>3, FS_Singleton DEF pages

LEMMA DemoSays == DemoInv => DemoOK
<1> SUFFICES ASSUME DemoInv
             PROVE  DemoOK
  OBVIOUS
<1>1. ASSUME NEW n \in Names
      PROVE  hits[n] \in Seq(Nat) /\ RemainingOf(n) \in 0 .. RateLimit /\ ResetOf(n) \in 0 .. WINDOW
  <2>1. hits[n] \in Seq(Nat)
    <3>1. hits[n] \in Seq(0 .. time) /\ 0 .. time \subseteq Nat
      BY DEF DemoInv
    <3> QED
      BY <3>1, SeqOfMore
  <2>2. RemainingOf(n) \in 0 .. RateLimit
    BY InWindowFacts, DemoConstants DEF RemainingOf
  <2>3. ResetOf(n) \in 0 .. WINDOW
    <3>1. InWindow(n) # <<>> => InWindow(n)[1] \in 0 .. time /\ time - InWindow(n)[1] < WINDOW
      BY InWindowFacts
    <3>2. time \in Nat
      BY DEF DemoInv
    <3> QED
      BY <3>1, <3>2, DemoConstants DEF ResetOf
  <2> QED
    BY <2>1, <2>2, <2>3
<1> QED
  BY <1>1, OnePage DEF DemoInv, DemoOK

\* No tenant overspends its budget, the wait a refusal names is within a window, and
\* the pages of a list hold every document of a tenant once (api.js budget,
\* listDocuments), for any calls, timings and limits.
THEOREM BudgetsAndPagesHold == DemoSpec => []DemoOK
BY DemoInvInit, DemoInvStep, DemoSays, PTL DEF DemoSpec

-----------------------------------------------------------------------------
(* The demo keeps the API's promise about documents, for any tenants,       *)
(* documents, timings and limits.                                           *)

\* What the simulation needs: a document that is asked for exists, and was asked
\* for in the past.
DocumentsKept ==
    /\ time \in Nat
    /\ documents \in [DocumentIds -> [tenant : Names \cup {Missing}, requestedAt : Nat \cup {Missing}]]
    /\ \A d \in DocumentIds : ~Exists(d) => documents[d].requestedAt = Missing

States == {"none", "PENDING", "PROCESSING", "DONE"}

LEMMA MissingIsNone == Missing \notin Names /\ Missing \notin Nat /\ QueuedFor \in Nat \ {0} /\ RenderingFor \in Nat
BY DemoAssumption

LEMMA DocumentsKeptInit == DemoInit => DocumentsKept
BY DEF DemoInit, DocumentsKept, Nowhere, Exists, DocumentIds

\* Every step that changes the documents.
LEMMA DocumentsKeptStep ==
    ASSUME DocumentsKept, [DemoNext]_demoVars
    PROVE  DocumentsKept'
<1> USE MissingIsNone
<1>1. ASSUME UNCHANGED <<time, documents>>
      PROVE  DocumentsKept'
  BY <1>1 DEF DocumentsKept, Exists
<1>2. ASSUME NEW n \in Callers, createDocument(n)
      PROVE  DocumentsKept'
  <2>1. n \in Names /\ time' = time
    BY <1>2, CallerIsTenant DEF createDocument, Spends
  <2>2. PICK d \in DocumentIds : documents' = [documents EXCEPT ![d] = [tenant |-> n, requestedAt |-> Missing]]
    BY <1>2 DEF createDocument
  <2> QED
    BY <2>1, <2>2 DEF DocumentsKept, Exists
<1>3. ASSUME NEW n \in Callers, NEW d \in DocumentIds, generate(n, d)
      PROVE  DocumentsKept'
  <2>1. n \in Names /\ time' = time /\ documents[d].tenant = n
    BY <1>3, CallerIsTenant DEF generate, Spends, FindsOwn
  <2>2. documents' = [documents EXCEPT ![d].requestedAt = IF @ = Missing THEN time ELSE @]
    BY <1>3 DEF generate
  <2> QED
    BY <2>1, <2>2 DEF DocumentsKept, Exists
<1>4. CASE Reload
  <2>1. time' = time /\ (documents' = documents \/ documents' = [d \in DocumentIds |-> Nowhere])
    BY <1>4 DEF Reload
  <2>2. CASE documents' = documents
    BY <1>1, <2>1, <2>2
  <2>3. CASE documents' = [d \in DocumentIds |-> Nowhere]
    BY <2>1, <2>3 DEF DocumentsKept, Nowhere
  <2> QED
    BY <2>1, <2>2, <2>3
<1>5. CASE TimePasses
  BY <1>5 DEF DocumentsKept, Exists, TimePasses
<1> QED
  BY <1>1, <1>2, <1>3, <1>4, <1>5
  DEF DemoNext, demoVars, createTenant, SetActive, TooMany, listDocuments, ReadDocument, Pdf,
      RefusedCall, Spends

-----------------------------------------------------------------------------
(* The mapping.                                                             *)

owner == [d \in DocumentIds |-> documents[d].tenant]
state == [d \in DocumentIds |-> documentView(d)]
requested == {d \in DocumentIds : documents[d].requestedAt # Missing}

\* What a document is, as documentView answers it.
LEMMA ViewIsState ==
    ASSUME DocumentsKept, NEW d \in DocumentIds
    PROVE  /\ documentView(d) \in States
           /\ documentView(d) # "none" <=> Exists(d)
           /\ documents[d].requestedAt = Missing /\ Exists(d) => documentView(d) = "PENDING"
BY DEF documentView, States

\* Where neither the documents nor the time changed, nothing did.
LEMMA SameView ==
    ASSUME UNCHANGED <<time, documents>>
    PROVE  owner' = owner /\ state' = state /\ requested' = requested
BY DEF owner, state, requested, documentView, Exists

\* Whoever has a document finds what is theirs in an answer.
LEMMA DemoHands ==
    ASSUME DocumentsKept, UNCHANGED <<time, documents>>, NEW n \in Names,
           NEW docs \in SUBSET DocumentIds, NEW file \in BOOLEAN, Deliver(n, docs, file),
           \A d \in docs : documents[d].tenant = n /\ (file => documentView(d) = "DONE")
    PROVE  Promise!Next
<1>1. owner' = owner /\ state' = state /\ requested' = requested
  BY SameView
<1>2. \A d \in docs : owner[d] = n /\ state[d] # "none" /\ (file => state[d] = "DONE")
  BY ViewIsState, MissingIsNone DEF owner, state, Exists
<1>3. Promise!Hand(n, docs, file)
  BY <1>1, <1>2 DEF Promise!Hand, Deliver, owner, state
<1>4. Promise!Read(n, docs, file)
  BY <1>1, <1>3 DEF Promise!Read, owner, state, requested
<1> QED
  BY <1>4 DEF Promise!Next

LEMMA CreateStep ==
    ASSUME DocumentsKept, NEW n \in Callers, createDocument(n)
    PROVE  Promise!Next
<1>1. n \in Names /\ time' = time
  BY CallerIsTenant DEF createDocument, Spends
<1>2. PICK d \in DocumentIds :
        /\ ~Exists(d)
        /\ documents' = [documents EXCEPT ![d] = [tenant |-> n, requestedAt |-> Missing]]
        /\ Deliver(n, {d}, FALSE)
  <2>1. PICK d \in DocumentIds :
          /\ Exists(d) <=> d < d
          /\ documents' = [documents EXCEPT ![d] = [tenant |-> n, requestedAt |-> Missing]]
          /\ Deliver(n, {d}, FALSE)
    BY DEF createDocument
  <2>2. ~(d < d)
    BY DemoAssumption DEF DocumentIds
  <2> QED
    BY <2>1, <2>2
<1>3. documents' \in [DocumentIds -> [tenant : Names \cup {Missing}, requestedAt : Nat \cup {Missing}]]
      /\ documents'[d] = [tenant |-> n, requestedAt |-> Missing]
      /\ \A e \in DocumentIds \ {d} : documents'[e] = documents[e]
  BY <1>1, <1>2 DEF DocumentsKept
<1>4. owner' = [owner EXCEPT ![d] = n]
  <2>1. \A e \in DocumentIds : documents'[e].tenant = IF e = d THEN n ELSE documents[e].tenant
    BY <1>3
  <2> QED
    BY <2>1 DEF owner
<1>5. /\ documentView(d)' = "PENDING"
      /\ \A e \in DocumentIds \ {d} : documentView(e)' = documentView(e)
  BY <1>1, <1>3, MissingIsNone DEF documentView, Exists
<1>6. state' = [state EXCEPT ![d] = "PENDING"] /\ state[d] = "none"
  BY <1>2, <1>5, ViewIsState DEF state
<1>7. requested' = requested
  BY <1>2, <1>3 DEF requested, DocumentsKept
<1>8. Promise!Hand(n, {d}, FALSE)
  BY <1>1, <1>2, <1>4, <1>6 DEF Promise!Hand, Deliver, owner, state
<1>9. Promise!Create(d, n)
  BY <1>4, <1>6, <1>7, <1>8 DEF Promise!Create, owner, state, requested
<1> QED
  BY <1>1, <1>9 DEF Promise!Next

LEMMA RequestStep ==
    ASSUME DocumentsKept, NEW n \in Callers, NEW d \in DocumentIds, generate(n, d)
    PROVE  Promise!Next
<1>1. /\ n \in Names /\ time' = time /\ documents[d].tenant = n
      /\ documentView(d) = "PENDING" /\ delivered' = delivered
      /\ documents' = [documents EXCEPT ![d].requestedAt = IF @ = Missing THEN time ELSE @]
  BY CallerIsTenant DEF generate, Spends, FindsOwn
<1>2. /\ documents'[d].tenant = n
      /\ documents'[d].requestedAt = IF documents[d].requestedAt = Missing THEN time ELSE documents[d].requestedAt
      /\ \A e \in DocumentIds \ {d} : documents'[e] = documents[e]
      /\ DOMAIN documents' = DocumentIds
  BY <1>1 DEF DocumentsKept
<1>3. owner' = owner
  BY <1>1, <1>2 DEF owner
<1>4. documentView(d)' = "PENDING"
  BY <1>1, <1>2, MissingIsNone DEF documentView, Exists, DocumentsKept
<1>5. \A e \in DocumentIds \ {d} : documentView(e)' = documentView(e)
  BY <1>1, <1>2 DEF documentView, Exists
<1>6. state' = state
  BY <1>1, <1>4, <1>5 DEF state
<1>7. requested' = requested \cup {d}
  BY <1>2, MissingIsNone DEF requested, DocumentsKept
<1>8. Promise!Request(d, n)
  BY <1>1, <1>3, <1>6, <1>7 DEF Promise!Request, owner, state, requested
<1> QED
  BY <1>1, <1>8 DEF Promise!Next

\* A document that was asked for only moves forward as time passes.
LEMMA TimeStep ==
    ASSUME DocumentsKept, TimePasses
    PROVE  Promise!Next
<1>1. time' = time + 1 /\ documents' = documents /\ delivered' = delivered
  BY DEF TimePasses
<1>2. owner' = owner /\ requested' = requested
  BY <1>1 DEF owner, requested
<1>3. ASSUME NEW d \in DocumentIds, state'[d] # state[d]
      PROVE  d \in requested /\ Promise!Rank[state[d]] < Promise!Rank[state'[d]]
  <2>1. state[d] = documentView(d) /\ state'[d] = documentView(d)'
    BY DEF state
  <2>2. documents[d].requestedAt \in Nat
    BY <1>1, <1>3, <2>1 DEF documentView, Exists, DocumentsKept
  <2>3. \/ documentView(d) = "PENDING" /\ documentView(d)' \in {"PROCESSING", "DONE"}
        \/ documentView(d) = "PROCESSING" /\ documentView(d)' = "DONE"
    BY <1>1, <1>3, <2>1, <2>2, MissingIsNone DEF documentView, Exists, DocumentsKept
  <2> QED
    BY <2>1, <2>2, <2>3, MissingIsNone DEF requested, Promise!Rank
<1>4. state' \in [DocumentIds -> DOMAIN Promise!Rank]
  <2>1. DocumentsKept'
    BY DocumentsKeptStep DEF DemoNext
  <2>2. \A d \in DocumentIds : documentView(d)' \in {"none", "PENDING", "PROCESSING", "DONE"}
    BY DEF documentView
  <2> QED
    BY <2>2 DEF state, Promise!Rank
<1>5. Promise!Advance
  BY <1>1, <1>2, <1>3, <1>4 DEF Promise!Advance, owner, state, requested
<1> QED
  BY <1>5 DEF Promise!Next

LEMMA ReloadStep ==
    ASSUME DocumentsKept, Reload
    PROVE  [Promise!Next]_(Promise!lifecycleVars)
<1>1. CASE storage
  BY <1>1, SameView DEF Reload, Promise!lifecycleVars, owner, state, requested
<1>2. CASE ~storage
  <2>1. \A d \in DocumentIds : documents'[d] = Nowhere
    BY <1>2 DEF Reload
  <2>2. /\ owner' = [d \in DocumentIds |-> Missing]
        /\ state' = [d \in DocumentIds |-> "none"] /\ requested' = {}
    BY <2>1 DEF owner, state, requested, documentView, Exists, Nowhere
  <2>3. Promise!Forget
    BY <2>2, <1>2 DEF Promise!Forget, Reload, owner, state, requested
  <2> QED
    BY <2>3 DEF Promise!Next
<1> QED
  BY <1>1, <1>2

-----------------------------------------------------------------------------
LEMMA ImplementsInit == DemoInit => Promise!Init
<1> SUFFICES ASSUME DemoInit PROVE Promise!Init
  OBVIOUS
<1>1. \A d \in DocumentIds : documents[d] = Nowhere
  BY DEF DemoInit
<1> QED
  BY <1>1 DEF DemoInit, Promise!Init, documentView, Exists, Nowhere

\* Every step of the demo is one the API may take, or changes nothing it promises.
LEMMA ImplementsStep ==
    ASSUME DocumentsKept, [DemoNext]_demoVars
    PROVE  [Promise!Next]_(Promise!lifecycleVars)
<1>1. ASSUME UNCHANGED <<time, documents, delivered>>
      PROVE  [Promise!Next]_(Promise!lifecycleVars)
  BY <1>1, SameView DEF Promise!lifecycleVars, owner, state, requested
<1>2. ASSUME NEW n \in Callers, listDocuments(n)
      PROVE  Promise!Next
  <2>1. n \in Names /\ UNCHANGED <<time, documents>>
    BY <1>2, CallerIsTenant DEF listDocuments, Spends
  <2>2. PICK number \in 0 .. 1, size \in 1 .. 2 : Deliver(n, OnPage(n, number, size), FALSE)
    BY <1>2 DEF listDocuments
  <2>3. OnPage(n, number, size) \in SUBSET DocumentIds
        /\ \A d \in OnPage(n, number, size) : documents[d].tenant = n
    BY DEF OnPage, Own
  <2> QED
    BY <2>1, <2>2, <2>3, DemoHands
<1>3. ASSUME NEW n \in Callers, NEW d \in DocumentIds, NEW file \in BOOLEAN,
             Spends(n), FindsOwn(n, d), file => documentView(d) = "DONE",
             Deliver(n, {d}, file), UNCHANGED documents
      PROVE  Promise!Next
  <2>1. n \in Names
    BY <1>3, CallerIsTenant DEF Spends
  <2>2. UNCHANGED <<time, documents>> /\ documents[d].tenant = n
    BY <1>3 DEF Spends, FindsOwn
  <2>3. {d} \in SUBSET DocumentIds
    BY <1>3
  <2> QED
    BY <1>3, <2>1, <2>2, <2>3, DemoHands
<1>4. ASSUME NEW n \in Callers, NEW d \in DocumentIds, ReadDocument(n, d) \/ Pdf(n, d)
      PROVE  Promise!Next
  BY <1>3, <1>4 DEF ReadDocument, Pdf
<1> QED
  BY <1>1, <1>2, <1>4, CreateStep, RequestStep, TimeStep, ReloadStep
  DEF DemoNext, demoVars, createTenant, SetActive, TooMany, RefusedCall, Spends

\* What the page answers of documents, with no server, no timers and across
\* reloads, is what the API promises of them.
THEOREM Implements == DemoSpec => DemoFollowsLifecycle
<1>1. DemoSpec => []DocumentsKept
  BY DocumentsKeptInit, DocumentsKeptStep, PTL DEF DemoSpec
<1> QED
  BY <1>1, ImplementsInit, ImplementsStep, PTL DEF DemoSpec, DemoFollowsLifecycle, Promise!Spec

-----------------------------------------------------------------------------
(* The parts of the page together.                                          *)

LEMMA PartsBegin ==
    Init => /\ AnswersInit /\ CarryInit /\ OperationInit /\ JourneyInit
            /\ WindowInit /\ PlacesInit /\ ControlsInit /\ DemoInit
BY DEF Init

\* A step of the page is a step of one part, and the others rest.
LEMMA PartsStep ==
    [Next]_consoleVars =>
        /\ [AnswersNext]_vars /\ [CarryNext]_carryVars /\ [OperationNext]_opVars /\ [JourneyNext]_journeyVars
        /\ [WindowNext]_windowVars /\ [PlacesNext]_placesVars /\ [ControlsNext]_controlsVars /\ [DemoNext]_demoVars
<1> SUFFICES ASSUME [Next]_consoleVars
             PROVE  /\ [AnswersNext]_vars /\ [CarryNext]_carryVars /\ [OperationNext]_opVars
                    /\ [JourneyNext]_journeyVars /\ [WindowNext]_windowVars /\ [PlacesNext]_placesVars
                    /\ [ControlsNext]_controlsVars /\ [DemoNext]_demoVars
  OBVIOUS
<1>1. CASE UNCHANGED consoleVars
  BY <1>1 DEF consoleVars
<1>2. CASE AnswersStep
  BY <1>2 DEF AnswersStep
<1>3. CASE CarryStep
  BY <1>3 DEF CarryStep
<1>4. CASE OperationStep
  BY <1>4 DEF OperationStep
<1>5. CASE JourneyStep
  BY <1>5 DEF JourneyStep
<1>6. CASE WindowStep
  BY <1>6 DEF WindowStep
<1>7. CASE PlacesStep
  BY <1>7 DEF PlacesStep
<1>8. CASE ControlsStep
  BY <1>8 DEF ControlsStep
<1>9. CASE DemoStep
  BY <1>9 DEF DemoStep
<1> QED
  BY <1>1, <1>2, <1>3, <1>4, <1>5, <1>6, <1>7, <1>8, <1>9 DEF Next

\* The page implements each of its parts; the journey and the window up to fairness,
\* which a page owes only to the part that moves.
LEMMA PageImplementsItsParts ==
    Spec => /\ AnswersSpec /\ CarrySpec /\ OperationSpec /\ PlacesSpec /\ ControlsSpec /\ DemoSpec
            /\ JourneyInit /\ [][JourneyNext]_journeyVars
            /\ WindowInit /\ [][WindowNext]_windowVars
BY PartsBegin, PartsStep, PTL
DEF Spec, AnswersSpec, CarrySpec, OperationSpec, PlacesSpec, ControlsSpec, DemoSpec

\* Every part's types and invariants of its own hold of the whole page: the tag,
\* fields, history, walk, window, scrolls, palette, folds, budgets and lists.  None
\* rests on fairness.
THEOREM WholePageHolds == Spec => []ConsoleOK
<1>1. CarrySpec => []CarryOK
  <2>1. CarryInv => CarryOK
    BY DEF CarryInv, CarryTypes
  <2> QED
    BY <2>1, CarryInvariant, PTL
<1>2. JourneyInit /\ [][JourneyNext]_journeyVars => []JourneyOK
  <2>1. WalkInv => JourneyOK
    BY DEF WalkInv
  <2> QED
    BY <2>1, WalkInvInit, WalkInvStep, PTL
<1>3. WindowInit /\ [][WindowNext]_windowVars => []WindowOK
  <2>1. WindowInv => WindowOK
    BY DEF WindowInv
  <2> QED
    BY <2>1, WindowInvInit, WindowInvStep, PTL
<1>4. AnswersOK /\ CarryOK /\ OperationOK /\ JourneyOK /\ WindowOK /\ PlacesOK /\ ControlsOK /\ DemoOK => ConsoleOK
  BY DEF ConsoleOK
<1> QED
  BY <1>1, <1>2, <1>3, <1>4, PageImplementsItsParts, AnswersTypes, HistoryIsBounded, PlacesTypes,
     ControlsShowWhatIsKept, BudgetsAndPagesHold, PTL

\* The promises of the parts, to the reader of a page that has them all: fields keep
\* their ids, badges and calls agree, the last answer is the one told, the demo keeps
\* the API's promise, and runs act in turn.
THEOREM WholePageKeepsPromises ==
    Spec => /\ []FieldsHoldTheirIds /\ []PageAgrees /\ []SheetIsTheAnswer /\ []HistoryHasTheAnswer
            /\ DemoFollowsLifecycle /\ JourneyActsForItself
BY PageImplementsItsParts, FieldsAlwaysHoldTheirIds, PageAlwaysAgrees, SheetIsAlwaysTheAnswer,
   HistoryAlwaysHasTheAnswer, RunsAct, Implements, PTL

\* And what it shows is so: what has expired is shown expired, but for a token whose
\* timer was cut short; the notes tell the state of Authorize and what their answers
\* handed on; and the page rests where it was asked to be.
THEOREM WholePageTellsTheState ==
    Spec => []ExpiryIsShown /\ []NotesTellTheState /\ []LandsWhereAsked
BY PageImplementsItsParts, ExpiryAlwaysShown, NotesAlwaysTell, PageRestsWhereAsked, PTL
=============================================================================
