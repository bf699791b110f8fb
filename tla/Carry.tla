-------------------------------- MODULE Carry --------------------------------
(***************************************************************************)
(* Ids carried from an answer into the operations that take them           *)
(* (responses.carryId, editor.paintCarriedFields).                         *)
(*                                                                         *)
(* A create writes its id into Swagger's parameter state of each operation *)
(* under its collection, through a dispatch that the subscriber of the     *)
(* store sees again; a value the reader typed is kept, and is told from a  *)
(* carried one by comparing it with the last id carried there.             *)
(***************************************************************************)
EXTENDS Description

CONSTANTS
    Documents,      \* the documents a page may have loaded
    Ids,            \* ids, 1 .. n, created in this order
    MaxTyped        \* bound on what the reader types

ASSUME CarryAssumption == /\ \A d \in Documents : WellFormed(d)
                          /\ Ids \subseteq Nat \ {0} /\ Absent \notin Nat
                          /\ MaxTyped \in Nat

VARIABLES
    doc,            \* the document of this page
    param,          \* Swagger's value of each operation's path parameter id
    carriedIds,     \* the id last carried there
    chip,           \* whether the field names where its id came from, once it was built
    carryNote,      \* the note of the last create: filled and kept operations
    dirty,          \* a frame is queued
    typed,          \* history: what the reader last typed, 0 when it was the carried id
    created,        \* history: the last id a collection created
    typings         \* bound

carryVars == <<doc, param, carriedIds, chip, carryNote, dirty, typed, created, typings>>

-----------------------------------------------------------------------------
Takers == {at \in Named(doc) : OperationAt(doc, at).takesId}
Collections == {at[1] : at \in {a \in PageOperations(doc) : Creates(doc, a)}}
CollectionsOf(t) == {c \in Collections : t \in carryTargets(doc, c)}

CarryInit ==
    /\ doc \in Documents
    /\ param = [t \in Takers |-> Absent] /\ carriedIds = param /\ typed = param
    /\ chip = [t \in Takers |-> Absent]
    /\ carryNote = Absent /\ dirty = FALSE
    /\ created = [c \in Collections |-> 0] /\ typings = 0

\* A value that is there and is not the one last carried is the reader's.
ReadersOwnOnce(t) == param[t] # Absent /\ carriedIds[t] = Absent

ReadersOwn(t) == param[t] # Absent /\ param[t] # carriedIds[t]

\* carryId, when a create of the collection answers with an id.
carryId(c) ==
    LET id == created[c] + 1
        targets == carryTargets(doc, c)
        kept == {t \in targets : ReadersOwn(t)}
    IN  /\ id \in Ids
        /\ created' = [created EXCEPT ![c] = id]
        /\ param' = [t \in Takers |-> IF t \in targets \ kept THEN id ELSE param[t]]
        /\ carriedIds' = [t \in Takers |-> IF t \in targets \ kept THEN id ELSE carriedIds[t]]
        /\ carryNote' = [id |-> id, filled |-> targets \ kept, kept |-> kept]
        /\ dirty' = TRUE
        /\ UNCHANGED <<doc, chip, typed, typings>>

\* The reader types or clears; the chip's own listener hides or shows it.
TypeId(t) == \E value \in Ids \cup {Absent} :
    /\ typings < MaxTyped /\ value # param[t]
    /\ typings' = typings + 1
    /\ param' = [param EXCEPT ![t] = value]
    /\ typed' = [typed EXCEPT ![t] = IF value \in {Absent, carriedIds[t]} THEN 0 ELSE value]
    /\ chip' = [chip EXCEPT ![t] = IF @ = Absent THEN @ ELSE value = carriedIds[t]]
    /\ UNCHANGED <<doc, carriedIds, carryNote, dirty, created>>

\* paintCarriedFields, in a frame.
CarryFrame ==
    /\ dirty /\ dirty' = FALSE
    /\ chip' = [t \in Takers |-> IF carriedIds[t] = Absent THEN chip[t] ELSE param[t] = carriedIds[t]]
    /\ UNCHANGED <<doc, param, carriedIds, carryNote, typed, created, typings>>

CarryNext == (\E c \in Collections : carryId(c)) \/ (\E t \in Takers : TypeId(t)) \/ CarryFrame

CarrySpec == CarryInit /\ [][CarryNext]_carryVars

-----------------------------------------------------------------------------
CarryOK == /\ param \in [Takers -> Ids \cup {Absent}]
           /\ carriedIds \in [Takers -> Ids \cup {Absent}]
           /\ typed \in [Takers -> Ids \cup {Absent, 0}]
           /\ chip \in [Takers -> BOOLEAN \cup {Absent}]

\* A path parameter holds what its reader last typed there, or else the last id
\* created: an answer fills what an answer filled and nothing else.  Typing the
\* carried id, or clearing the field, gives it back to the page.
FieldsHoldTheirIds ==
    \A t \in Takers : \A c \in CollectionsOf(t) :
        /\ typed[t] = Absent => param[t] = IF created[c] = 0 THEN Absent ELSE created[c]
        /\ typed[t] \in Ids => param[t] = typed[t]

\* The page agrees with itself about the document: badges, calls and notes about
\* credentials, links and the index, the response index and what it folds away.
PageAgrees == typings = 0 /\ carryNote = Absent =>     \* the document stays what it is
                  WhatIsMarkedIsSent(doc) /\ LinksLead(doc) /\ NothingLeftOut(doc)
=============================================================================
