------------------------------ MODULE Registry ------------------------------
(***************************************************************************)
(* The Hub's tool registry (pkg/hub/registry.go) behind its publisher API  *)
(* (publisher_api.go).  Publishers register and withdraw tools, readers    *)
(* list them.  Every call holds the registry's lock while it touches the   *)
(* two indices, so a call is one step.                                     *)
(*                                                                         *)
(* A registration holds its input schema by reference, as a Go map does:   *)
(* schema is a cell and content says what the cell holds.  Callers may     *)
(* write to the maps they passed in or were given at any time.             *)
(***************************************************************************)
EXTENDS Sequences, SequencesExt

CONSTANTS
    Publishers, \* publisher ids
    Names,      \* tool names, as sequences of segments: <<"orders", "create">>
    Readers,    \* callers that keep a list they were given
    Schemas,    \* what an input schema may say
    Requests    \* the registrations publishers ask for, valid or not

NoId == "no id"     \* the empty publisher_id

Namespaces == {r.namespace : r \in Requests}

ASSUME RequestsAssumption ==
    /\ NoId \notin Publishers
    /\ <<>> \notin Names
    /\ \A r \in Requests :
        /\ r.publisher \in Publishers \cup {NoId}
        /\ r.name \in Names \cup {<<>>}
        /\ r.primitive \in BOOLEAN

VARIABLES
    byPublisher,    \* publisher -> name -> registration
    byName,         \* name -> registration
    content,        \* what each schema cell holds
    views,          \* the list each reader was last given
    reply           \* how the last call of the publisher API ended

vars == <<byPublisher, byName, content, views, reply>>

\* The cells: a caller's own map, the one the registry keeps, a reader's copy.
Own(p) == <<"own", p>>
Stored(n) == <<"stored", n>>
Copy(r, n) == <<"copy", r, n>>

Cells ==
    {Own(p) : p \in Publishers \cup {NoId}} \cup {Stored(n) : n \in Names}
        \cup {Copy(r, n) : r \in Readers, n \in Names}

Registrations ==
    [publisher : Publishers, name : Names, namespace : Namespaces,
     primitive : BOOLEAN, schema : {Stored(n) : n \in Names}]

Empty == [n \in {} |-> {}]

Reply(caller, code) == [caller |-> caller, code |-> code]

(***************************************************************************)
(* validate: a primitive has a bare name and no namespace, a domain        *)
(* function is called namespace.function.                                  *)
(***************************************************************************)
Qualifies(name, namespace) ==
    /\ IsStrictPrefix(namespace, name)
    /\ SubSeq(name, Len(namespace) + 1, Len(name)) # <<"">>

Valid(r) ==
    /\ r.publisher # NoId
    /\ r.name # <<>>
    /\ IF r.primitive
       THEN r.namespace = <<>> /\ Len(r.name) = 1
       ELSE r.namespace # <<>> /\ Qualifies(r.name, r.namespace)

ToolsOf(p) == IF p \in DOMAIN byPublisher THEN byPublisher[p] ELSE Empty

Put(f, x, y) == [z \in DOMAIN f \cup {x} |-> IF z = x THEN y ELSE f[z]]
Drop(f, x) == [z \in DOMAIN f \ {x} |-> f[z]]

OwnedByOther(p, n) == n \in DOMAIN byName /\ byName[n].publisher # p

(***************************************************************************)
(* Register.  The caller's map holds s when the call is made; the registry *)
(* keeps a deep copy of it.                                                *)
(***************************************************************************)
\* Faulty variants: keeping the caller's own map instead of a copy of it.
KeepCaller(p, n) == Own(p)

Keep(p, n) == Stored(n)

Refuse(caller, code) ==
    /\ reply' = Reply(caller, code)
    /\ UNCHANGED <<byPublisher, byName, views>>

Insert(r, s) ==
    LET reg == [publisher |-> r.publisher, name |-> r.name, namespace |-> r.namespace,
                primitive |-> r.primitive, schema |-> Keep(r.publisher, r.name)]
    IN  /\ byPublisher' = Put(byPublisher, r.publisher, Put(ToolsOf(r.publisher), r.name, reg))
        /\ byName' = Put(byName, r.name, reg)
        /\ content' = [content EXCEPT ![Own(r.publisher)] = s, ![Stored(r.name)] = s]
        /\ reply' = Reply(r.publisher, "ok")
        /\ UNCHANGED views

\* Faulty variant: the publisher's map is created before the owner is checked.
RegisterAllocatesFirst(r, s) ==
    IF ~Valid(r) \/ OwnedByOther(r.publisher, r.name)
    THEN /\ reply' = Reply(r.publisher, "CONTRACT_VIOLATION")
         /\ byPublisher' = IF Valid(r) THEN Put(byPublisher, r.publisher, ToolsOf(r.publisher))
                           ELSE byPublisher
         /\ content' = [content EXCEPT ![Own(r.publisher)] = s]
         /\ UNCHANGED <<byName, views>>
    ELSE Insert(r, s)

\* Faulty variant: the owner of the name is not checked.
RegisterTakesOver(r, s) ==
    IF ~Valid(r)
    THEN /\ Refuse(r.publisher, "CONTRACT_VIOLATION")
         /\ content' = [content EXCEPT ![Own(r.publisher)] = s]
    ELSE Insert(r, s)

Register(r, s) ==
    IF ~Valid(r) \/ OwnedByOther(r.publisher, r.name)
    THEN /\ Refuse(r.publisher, "CONTRACT_VIOLATION")
         /\ content' = [content EXCEPT ![Own(r.publisher)] = s]
    ELSE Insert(r, s)

(***************************************************************************)
(* Unregister.  Ownership is read from the publisher's own index, and the  *)
(* name is dropped from both.                                              *)
(***************************************************************************)
Withdraw(p, n) ==
    /\ byPublisher' = IF DOMAIN ToolsOf(p) = {n} THEN Drop(byPublisher, p)
                      ELSE Put(byPublisher, p, Drop(ToolsOf(p), n))
    /\ byName' = Drop(byName, n)
    /\ reply' = Reply(p, "ok")
    /\ UNCHANGED <<content, views>>

\* Faulty variant: any publisher may withdraw a published name.
UnregisterAnyOwner(p, n) ==
    \/ /\ n \notin DOMAIN byName
       /\ Refuse(p, "NOT_FOUND")
       /\ UNCHANGED content
    \/ /\ n \in DOMAIN byName
       /\ LET owner == byName[n].publisher
          IN  byPublisher' = IF DOMAIN ToolsOf(owner) = {n} THEN Drop(byPublisher, owner)
                             ELSE Put(byPublisher, owner, Drop(ToolsOf(owner), n))
       /\ byName' = Drop(byName, n)
       /\ reply' = Reply(p, "ok")
       /\ UNCHANGED <<content, views>>

Unregister(p, n) ==
    \/ /\ n \notin DOMAIN ToolsOf(p)
       /\ Refuse(p, IF p = NoId \/ n = <<>> THEN "CONTRACT_VIOLATION" ELSE "NOT_FOUND")
       /\ UNCHANGED content
    \/ /\ n \in DOMAIN ToolsOf(p)
       /\ Withdraw(p, n)

(***************************************************************************)
(* List: copies of the tools of one publisher, or of all of them.          *)
(***************************************************************************)
\* Faulty variant: the list shares the schemas the registry keeps.
CopyOfShared(reg, r) == reg

CopyOf(reg, r) == [reg EXCEPT !.schema = Copy(r, reg.name)]

List(p) == IF p = NoId THEN byName ELSE ToolsOf(p)

GiveList(r, p) ==
    /\ views' = [views EXCEPT ![r] = [n \in DOMAIN List(p) |-> CopyOf(List(p)[n], r)]]
    /\ content' = [c \in Cells |-> IF \E n \in DOMAIN List(p) : c = Copy(r, n)
                                   THEN content[List(p)[c[3]].schema]
                                   ELSE content[c]]
    /\ reply' = Reply(p, "ok")
    /\ UNCHANGED <<byPublisher, byName>>

\* decodeParams refuses the parameters, or the method is not one of the three.
RefuseParams ==
    /\ Refuse(NoId, "CONTRACT_VIOLATION")
    /\ UNCHANGED content

RefuseMethod ==
    /\ Refuse(NoId, "NOT_OFFERED")
    /\ UNCHANGED content

\* A caller writes to a map of its own: one it passed in, or one it was given.
Write(cell, s) ==
    /\ content' = [content EXCEPT ![cell] = s]
    /\ UNCHANGED <<byPublisher, byName, views, reply>>

WriteOwn(p, s) == Write(Own(p), s)

WriteView(r, n, s) ==
    /\ n \in DOMAIN views[r]
    /\ Write(views[r][n].schema, s)

Init ==
    /\ byPublisher = Empty
    /\ byName = Empty
    /\ content \in [Cells -> Schemas]
    /\ \A c, d \in Cells : content[c] = content[d]
    /\ views = [r \in Readers |-> Empty]
    /\ reply = Reply(NoId, "ok")

Handle ==
    \/ \E r \in Requests, s \in Schemas : Register(r, s)
    \/ \E p \in Publishers \cup {NoId}, n \in Names \cup {<<>>} : Unregister(p, n)
    \/ \E r \in Readers, p \in Publishers \cup {NoId} : GiveList(r, p)
    \/ RefuseParams
    \/ RefuseMethod

Next ==
    \/ Handle
    \/ \E p \in Publishers, s \in Schemas : WriteOwn(p, s)
    \/ \E r \in Readers, n \in Names, s \in Schemas : WriteView(r, n, s)

Spec == Init /\ [][Next]_vars

(***************************************************************************)
(* Properties                                                              *)
(***************************************************************************)
TypeOK ==
    /\ DOMAIN byPublisher \subseteq Publishers
    /\ DOMAIN byName \subseteq Names
    /\ \A p \in DOMAIN byPublisher : DOMAIN byPublisher[p] \subseteq Names
    /\ \A n \in DOMAIN byName : byName[n] \in Registrations
    /\ content \in [Cells -> Schemas]
    /\ \A r \in Readers : DOMAIN views[r] \subseteq Names

(***************************************************************************)
(* The two indices tell the same story, although Unregister reads one to   *)
(* decide about both and Register checks one before it writes both; no     *)
(* publisher without tools keeps a map (registry.go, Register, Unregister).*)
(***************************************************************************)
IndicesAgree ==
    /\ \A p \in DOMAIN byPublisher : DOMAIN byPublisher[p] # {}
    /\ \A p \in DOMAIN byPublisher : \A n \in DOMAIN byPublisher[p] :
        n \in DOMAIN byName /\ byName[n].publisher = p /\ byName[n] = byPublisher[p][n]
    /\ \A n \in DOMAIN byName :
        /\ byName[n].publisher \in DOMAIN byPublisher
        /\ n \in DOMAIN byPublisher[byName[n].publisher]

(***************************************************************************)
(* A refused call of the publisher API leaves both indices as they were.   *)
(***************************************************************************)
RefusalsChangeNothing ==
    [][reply'.code # "ok" => UNCHANGED <<byPublisher, byName>>]_vars

(***************************************************************************)
(* A published tool disappears only in a call made in its owner's name,    *)
(* although Unregister never looks at the owner byName records.            *)
(***************************************************************************)
OnlyOwnerWithdraws ==
    [][\A n \in DOMAIN byName \ DOMAIN byName' : reply'.caller = byName[n].publisher]_vars

(***************************************************************************)
(* A list once given belongs to its reader: what the publishers, the       *)
(* registry and the other readers do never changes what it says.           *)
(***************************************************************************)
ViewsAreIsolated ==
    [][\A r \in Readers : views'[r] = views[r] =>
        \/ \E n \in DOMAIN views[r], s \in Schemas : WriteView(r, n, s)
        \/ \E p \in Publishers \cup {NoId} : GiveList(r, p)
        \/ \A n \in DOMAIN views[r] :
            content'[views[r][n].schema] = content[views[r][n].schema]]_vars

\* What the registry promises, read off its name index.
Published ==
    [n \in DOMAIN byName |->
        [owner |-> byName[n].publisher, namespace |-> byName[n].namespace,
         primitive |-> byName[n].primitive, schema |-> content[byName[n].schema]]]

Promise == INSTANCE Catalogue WITH
    catalogue <- Published,
    Tools <- Names,
    Entries <- [owner : Publishers, namespace : Namespaces,
                primitive : BOOLEAN, schema : Schemas]

(***************************************************************************)
(* The registry is a catalogue of owned names: no step takes a name over,  *)
(* and no write to a caller's map reaches a published tool.                *)
(***************************************************************************)
IsCatalogue == Promise!CatalogueSpec
=============================================================================
