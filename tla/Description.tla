----------------------------- MODULE Description -----------------------------
(***************************************************************************)
(* What the page reads out of an OpenAPI document (console/spec.js, and    *)
(* what the map, the schemas, the badges and the notes draw from it).      *)
(*                                                                         *)
(* A path is a sequence of segments and has operations under HTTP methods; *)
(* doc.at[path][method] is one.  Names, wording and the order things are   *)
(* drawn in are left out, and what is left is what one part of the page    *)
(* must agree on with another.                                             *)
(***************************************************************************)
EXTENDS Naturals, Sequences, FiniteSets, SequencesExt

CONSTANTS
    Absent,         \* a key the document does not have
    Id,             \* the path segment {id}
    Sources,        \* config.credentialSources: <<path, method>> pairs
    FollowStart,    \* config.lifecycle.follow.start, or Absent
    SharedRefusals  \* config.sharedRefusals: causes every route shares

HTTP_METHODS == {"get", "put", "post", "delete", "options", "head", "patch", "trace"}

\* A path item also holds keys that are no methods.
PageOperations(doc) ==
    {at \in (DOMAIN doc.at) \X HTTP_METHODS : at[2] \in DOMAIN doc.at[at[1]]}

OperationAt(doc, at) == doc.at[at[1]][at[2]]

\* The operations that have an operationId: the others get no row in the map.
Named(doc) == {at \in PageOperations(doc) : OperationAt(doc, at).id # Absent}

TagOf(op) == IF op.tags = <<>> THEN "default" ELSE op.tags[1]

operationIndex(doc) ==
    [at \in Named(doc) |-> [tag |-> TagOf(OperationAt(doc, at)), id |-> OperationAt(doc, at).id]]

operationsOfTag(doc, tag) ==
    {operationIndex(doc)[at].id : at \in {a \in DOMAIN operationIndex(doc) : operationIndex(doc)[a].tag = tag}}

\* An operation counts once for each of its tags, with an operationId or not.
operationCountByTag(doc, tag) ==
    Cardinality(UNION {{<<at, i>> : i \in {j \in DOMAIN OperationAt(doc, at).tags : OperationAt(doc, at).tags[j] = tag}} :
                          at \in PageOperations(doc)})

\* Security of the operation wins, an empty list included; else the default of
\* the document.
Requirements(doc, op) == IF op.security # Absent THEN op.security
                         ELSE doc.security

\* What Execute sends: the schemes of the first requirement.
requiredSchemesOfDefault(doc, op) ==
    LET own == op.security # Absent /\ op.security # <<>>
        reqs == IF own THEN op.security ELSE doc.security
    IN  IF reqs \in {Absent, <<>>} THEN {} ELSE reqs[1]

requiredSchemes(doc, op) ==
    LET reqs == Requirements(doc, op) IN IF reqs \in {Absent, <<>>} THEN {} ELSE reqs[1]

\* What the badges say: all requirements, and PUBLIC for an empty list.
scopesFor(doc, at) ==
    LET reqs == Requirements(doc, OperationAt(doc, at))
    IN  IF reqs = Absent THEN {} ELSE IF reqs = <<>> THEN {"PUBLIC"} ELSE UNION Range(reqs)

\* Operations under <collection>/{id} that take the id.
carryTargets(doc, collection) ==
    {at \in Named(doc) : IsPrefix(Append(collection, Id), at[1]) /\ OperationAt(doc, at).takesId}

\* A create: a POST of a path without parameters that something takes the id of.
Creates(doc, at) == at[2] = "post" /\ ~Contains(at[1], Id) /\ carryTargets(doc, at[1]) # {}

\* The operations whose answers captureResponses looks at.
responseSources(doc) ==
    Sources \cup ({FollowStart} \ {Absent})
    \cup {at \in PageOperations(doc) : \/ Creates(doc, at)
                                       \/ requiredSchemes(doc, OperationAt(doc, at)) # {}}

\* The map: a group of links per tag, and one to the schemas when there are any.
mapEntries(doc) ==
    [tag \in {TagOf(OperationAt(doc, at)) : at \in Named(doc)} |->
        {at \in Named(doc) : TagOf(OperationAt(doc, at)) = tag}]

MapLinks(doc) == UNION {mapEntries(doc)[tag] : tag \in DOMAIN mapEntries(doc)}

\* The operations a model's row links to: they send it or answer with it.
usersOf(doc, model) == {at \in Named(doc) : model \in OperationAt(doc, at).models}

ModelLinks(doc) == UNION {usersOf(doc, m) : m \in doc.models}

\* The figure is drawn while the document still declares every state it names.
lifecycleStatesMatchSpec(doc, named) == doc.states # Absent /\ named \subseteq doc.states

\* The response index.  A row whose causes are all shared refusals leaves the
\* index for the group of refusals every route shares; headers that all responses
\* with headers carry are said once, the others beside the code that adds them.
SharedMember(response) == response.causes # {} /\ response.causes \subseteq SharedRefusals

sharedCauses(op) == UNION {{<<code, cause>> : cause \in op.responses[code].causes \cap SharedRefusals} :
                              code \in DOMAIN op.responses}

indexCauses(op) == UNION {{<<code, cause>> : cause \in op.responses[code].causes} :
                             code \in {c \in DOMAIN op.responses : ~SharedMember(op.responses[c])}}

WithHeaders(op) == {c \in DOMAIN op.responses : op.responses[c].headers # {}}
AllHeaders(op) == UNION {op.responses[c].headers : c \in DOMAIN op.responses}
sharedHeaders(op) == {h \in AllHeaders(op) : \A c \in WithHeaders(op) : h \in op.responses[c].headers}
addedHeaders(op) == UNION {{<<c, h>> : h \in op.responses[c].headers \ sharedHeaders(op)} :
                              c \in WithHeaders(op)}

-----------------------------------------------------------------------------
(* What the parts of the page must agree on, for a document.                *)

\* What the page takes for granted of a description: a path is a sequence of
\* segments and security a sequence of requirements; PUBLIC names no scheme, as
\* its badge has a key of its own.
WellFormed(doc) ==
    /\ \A path \in DOMAIN doc.at : path \in Seq(Range(path))
    /\ \A reqs \in {doc.security} \cup {OperationAt(doc, at).security : at \in PageOperations(doc)} :
          reqs # Absent => reqs \in Seq(Range(reqs)) /\ "PUBLIC" \notin UNION Range(reqs)

\* A badge and the call agree: what is marked PUBLIC sends no credential, what
\* a call sends is on its badge, and a refusal of what sends one is explained
\* (auth.scopesFor, spec.requiredSchemes, responses.responseSources).
WhatIsMarkedIsSent(doc) ==
    \A at \in PageOperations(doc) :
        LET sent == requiredSchemes(doc, OperationAt(doc, at))
        IN  /\ "PUBLIC" \in scopesFor(doc, at) => sent = {}
            /\ sent \subseteq scopesFor(doc, at)
            /\ sent # {} => at \in responseSources(doc)

\* Every link leads to an operation of the index, and the map leads to all.
LinksLead(doc) == /\ MapLinks(doc) = DOMAIN operationIndex(doc)
                  /\ ModelLinks(doc) \subseteq DOMAIN operationIndex(doc)
                  /\ \A at \in PageOperations(doc) :
                        carryTargets(doc, at[1]) \subseteq DOMAIN operationIndex(doc)

\* Nothing the document says of an operation's answers is left out of its index.
NothingLeftOut(doc) ==
    \A at \in PageOperations(doc) :
        LET op == OperationAt(doc, at)
        IN  \A code \in DOMAIN op.responses :
              /\ \A cause \in op.responses[code].causes :
                    <<code, cause>> \in indexCauses(op) \cup sharedCauses(op)
              /\ \A h \in op.responses[code].headers :
                    h \in sharedHeaders(op) \/ <<code, h>> \in addedHeaders(op)
=============================================================================
