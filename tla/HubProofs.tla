----------------------------- MODULE HubProofs ------------------------------
(*****************************************************************************)
(* Registry and discovery, for every set of publishers, names, readers,      *)
(* schemas and requests, and for every provider and set of agents.           *)
(*                                                                           *)
(* The registry's inductive invariant IInv says how its indices, the cells   *)
(* of its maps and the views of its readers hang together; DiscoveryInv      *)
(* says that a call carries one catalogue of its time from the snapshot to   *)
(* the answer.                                                               *)
(*****************************************************************************)
EXTENDS Registry, Discovery, TLAPS

\* Every index entry is filed under its own name and holds the registry's own
\* copy of its schema; every view entry holds its reader's copy.
Keyed ==
    /\ \A n \in DOMAIN byName : byName[n].name = n /\ byName[n].schema = Stored(n)
    /\ DOMAIN views = Readers
    /\ \A r \in Readers : \A n \in DOMAIN views[r] : views[r][n].schema = Copy(r, n)

\* IndicesAgree alone is not inductive: List copies the entry filed under n into
\* the cell of the name the entry records, so the two must be the same name.
IInv == TypeOK /\ IndicesAgree /\ Keyed

(***************************************************************************)
(* The cells of different roles and of different owners are different.     *)
(***************************************************************************)
LEMMA CellsDistinct ==
    ASSUME NEW p, NEW n, NEW m, NEW r, NEW q
    PROVE  /\ Own(p) # Stored(n)
           /\ Own(p) # Copy(r, n)
           /\ Stored(n) # Copy(r, m)
           /\ Stored(n) = Stored(m) => n = m
           /\ Copy(r, n) = Copy(q, m) => r = q /\ n = m
           /\ Copy(r, n)[3] = n
BY DEF Own, Stored, Copy

LEMMA InitInv == Init => IInv
BY DEF Init, IInv, TypeOK, IndicesAgree, Keyed, Empty

(***************************************************************************)
(* What List returns is filed under its names and taken from the registry. *)
(***************************************************************************)
LEMMA ListFromIndex ==
    ASSUME IInv, NEW p, NEW n \in DOMAIN List(p)
    PROVE  /\ n \in DOMAIN byName
           /\ List(p)[n] = byName[n]
           /\ n \in Names
           /\ List(p)[n] \in Registrations
BY DEF IInv, TypeOK, IndicesAgree, List, ToolsOf, Empty

LEMMA RefuseInv == ASSUME IInv, NEW caller, NEW code, Refuse(caller, code),
                          content' \in [Cells -> Schemas]
                   PROVE  IInv'
BY DEF IInv, TypeOK, IndicesAgree, Keyed, Refuse

LEMMA InsertInv ==
    ASSUME IInv, NEW r \in Requests, NEW s \in Schemas, Valid(r),
           ~OwnedByOther(r.publisher, r.name), Insert(r, s)
    PROVE  IInv'
<1> USE RequestsAssumption DEF IInv, Insert, Put, Keep
<1>1. r.publisher \in Publishers /\ r.name \in Names /\ r.namespace \in Namespaces /\ r.primitive \in BOOLEAN
  BY DEF Valid, Namespaces
<1>2. TypeOK'
  BY <1>1 DEF TypeOK, ToolsOf, Empty, Registrations
<1>3. IndicesAgree'
  <2> DEFINE p == r.publisher
             n == r.name
  <2>1. /\ DOMAIN byPublisher' = DOMAIN byPublisher \cup {p}
        /\ \A q \in DOMAIN byPublisher : q # p => byPublisher'[q] = byPublisher[q]
        /\ DOMAIN byPublisher'[p] = DOMAIN ToolsOf(p) \cup {n}
        /\ \A m \in DOMAIN ToolsOf(p) : m # n => byPublisher'[p][m] = ToolsOf(p)[m]
    OBVIOUS
  <2>2. /\ DOMAIN byName' = DOMAIN byName \cup {n}
        /\ \A m \in DOMAIN byName : m # n => byName'[m] = byName[m]
        /\ byName'[n] = byPublisher'[p][n]
        /\ byName'[n].publisher = p
    OBVIOUS
  <2>3. \A m \in DOMAIN ToolsOf(p) : m \in DOMAIN byName /\ byName[m].publisher = p /\ byName[m] = ToolsOf(p)[m]
    BY DEF IndicesAgree, ToolsOf, Empty
  <2>4. p \in DOMAIN byPublisher => ToolsOf(p) = byPublisher[p]
    BY DEF ToolsOf
  <2>5. \A q \in DOMAIN byPublisher : q # p => n \notin DOMAIN byPublisher[q]
    BY DEF IndicesAgree, OwnedByOther
  <2> HIDE DEF p, n, Insert
  <2> QED
    BY <2>1, <2>2, <2>3, <2>4, <2>5 DEF IndicesAgree
<1>4. Keyed'
  BY <1>1 DEF Keyed
<1> QED
  BY <1>2, <1>3, <1>4

LEMMA RegisterInv ==
    ASSUME IInv, NEW r \in Requests, NEW s \in Schemas, Register(r, s)
    PROVE  IInv'
<1>1. CASE ~Valid(r) \/ OwnedByOther(r.publisher, r.name)
  <2>1. content' \in [Cells -> Schemas]
    BY <1>1 DEF Register, IInv, TypeOK
  <2> QED
    BY <1>1, <2>1, RefuseInv DEF Register
<1>2. CASE Valid(r) /\ ~OwnedByOther(r.publisher, r.name)
  BY <1>2, InsertInv DEF Register
<1> QED
  BY <1>1, <1>2

LEMMA UnregisterInv ==
    ASSUME IInv, NEW p, NEW n, Unregister(p, n)
    PROVE  IInv'
<1>1. CASE n \notin DOMAIN ToolsOf(p)
  <2>1. content' \in [Cells -> Schemas]
    BY <1>1 DEF Unregister, Withdraw, IInv, TypeOK
  <2> QED
    BY <1>1, <2>1, RefuseInv DEF Unregister
<1>2. CASE n \in DOMAIN ToolsOf(p)
  <2> USE <1>2 DEF IInv, Unregister, Withdraw, Put, Drop, ToolsOf, Empty
  <2>1. TypeOK'
    BY DEF TypeOK
  <2>2. IndicesAgree'
    <3> DEFINE last == DOMAIN byPublisher[p] = {n}
    <3>1. /\ p \in DOMAIN byPublisher /\ n \in DOMAIN byPublisher[p]
          /\ n \in DOMAIN byName /\ byName[n].publisher = p
      BY DEF IndicesAgree
    <3>2. /\ \A q \in DOMAIN byPublisher' : q # p => q \in DOMAIN byPublisher
          /\ \A q \in DOMAIN byPublisher : q # p =>
                q \in DOMAIN byPublisher' /\ byPublisher'[q] = byPublisher[q]
      BY <3>1
    <3>3. p \in DOMAIN byPublisher' <=> ~last
      BY <3>1
    <3>4. ~last =>
            /\ DOMAIN byPublisher'[p] = DOMAIN byPublisher[p] \ {n}
            /\ \A m \in DOMAIN byPublisher[p] \ {n} : byPublisher'[p][m] = byPublisher[p][m]
      BY <3>1
    <3>5. /\ DOMAIN byName' = DOMAIN byName \ {n}
          /\ \A m \in DOMAIN byName \ {n} : byName'[m] = byName[m]
      OBVIOUS
        <3>6. ~last => DOMAIN byPublisher'[p] # {}
      BY <3>1, <3>4
    <3> HIDE DEF last, Unregister, Withdraw
    <3>7. \A q \in DOMAIN byPublisher' : DOMAIN byPublisher'[q] # {}
      BY <3>2, <3>3, <3>6 DEF IndicesAgree
    <3>8. \A q \in DOMAIN byPublisher' : \A m \in DOMAIN byPublisher'[q] :
            /\ m \in DOMAIN byName'
            /\ byName'[m].publisher = q
            /\ byName'[m] = byPublisher'[q][m]
      <4> TAKE q \in DOMAIN byPublisher'
      <4>1. CASE q = p
        BY <4>1, <3>1, <3>3, <3>4, <3>5 DEF IndicesAgree
      <4>2. CASE q # p
        BY <4>2, <3>1, <3>2, <3>5 DEF IndicesAgree
      <4> QED
        BY <4>1, <4>2
    <3>9. \A m \in DOMAIN byName' :
            /\ byName'[m].publisher \in DOMAIN byPublisher'
            /\ m \in DOMAIN byPublisher'[byName'[m].publisher]
      <4> TAKE m \in DOMAIN byName'
      <4>1. CASE byName[m].publisher = p
        <5>1. m # n /\ byName'[m] = byName[m] /\ m \in DOMAIN byPublisher[p]
          BY <4>1, <3>5 DEF IndicesAgree
        <5>2. ~last
          BY <5>1 DEF last
        <5> QED
          BY <4>1, <5>1, <5>2, <3>3, <3>4
      <4>2. CASE byName[m].publisher # p
        BY <4>2, <3>1, <3>2, <3>5 DEF IndicesAgree
      <4> QED
        BY <4>1, <4>2
    <3> QED
      BY <3>7, <3>8, <3>9 DEF IndicesAgree
  <2>3. Keyed'
    BY DEF Keyed
  <2> QED
    BY <2>1, <2>2, <2>3
<1> QED
  BY <1>1, <1>2

LEMMA GiveListInv ==
    ASSUME IInv, NEW r \in Readers, NEW p, GiveList(r, p)
    PROVE  IInv'
<1> USE DEF GiveList
<1>1. \A n \in DOMAIN List(p) : List(p)[n].schema \in Cells /\ List(p)[n].name = n /\ n \in Names
  BY ListFromIndex DEF IInv, Keyed, Registrations, Cells, TypeOK
<1>2. content' \in [Cells -> Schemas]
  <2> SUFFICES ASSUME NEW c \in Cells PROVE content'[c] \in Schemas
    BY DEF IInv, TypeOK
  <2>1. CASE \E n \in DOMAIN List(p) : c = Copy(r, n)
    BY <2>1, <1>1, CellsDistinct DEF IInv, TypeOK
  <2>2. CASE ~\E n \in DOMAIN List(p) : c = Copy(r, n)
    BY <2>2 DEF IInv, TypeOK
  <2> QED
    BY <2>1, <2>2
<1>3. TypeOK'
  BY <1>1, <1>2 DEF IInv, TypeOK, Keyed
<1>4. IndicesAgree'
  BY DEF IInv, IndicesAgree
<1>5. \A n \in DOMAIN List(p) : CopyOf(List(p)[n], r).schema = Copy(r, n)
  BY <1>1, ListFromIndex DEF CopyOf, Registrations
<1>6. Keyed'
  BY <1>5 DEF IInv, Keyed
<1> QED
  BY <1>3, <1>4, <1>6 DEF IInv

LEMMA WriteInv ==
    ASSUME IInv, NEW c, NEW s \in Schemas, Write(c, s)
    PROVE  IInv'
BY DEF IInv, TypeOK, IndicesAgree, Keyed, Write

LEMMA NextInv == IInv /\ [Next]_vars => IInv'
<1> SUFFICES ASSUME IInv, [Next]_vars PROVE IInv'
  OBVIOUS
<1>1. CASE \E r \in Requests, s \in Schemas : Register(r, s)
  BY <1>1, RegisterInv
<1>2. CASE \E p \in Publishers \cup {NoId}, n \in Names \cup {<<>>} : Unregister(p, n)
  BY <1>2, UnregisterInv
<1>3. CASE \E r \in Readers, p \in Publishers \cup {NoId} : GiveList(r, p)
  BY <1>3, GiveListInv
<1>4. CASE RefuseParams \/ RefuseMethod
  BY <1>4, RefuseInv DEF RefuseParams, RefuseMethod, IInv, TypeOK
<1>5. CASE \E p \in Publishers, s \in Schemas : WriteOwn(p, s)
  BY <1>5, WriteInv DEF WriteOwn
<1>6. CASE \E r \in Readers, n \in Names, s \in Schemas : WriteView(r, n, s)
  BY <1>6, WriteInv DEF WriteView
<1>7. CASE UNCHANGED vars
  BY <1>7 DEF vars, IInv, TypeOK, IndicesAgree, Keyed
<1> QED
  BY <1>1, <1>2, <1>3, <1>4, <1>5, <1>6, <1>7 DEF Next, Handle

LEMMA Invariance == Spec => []IInv
BY InitInv, NextInv, PTL DEF Spec

(***************************************************************************)
(* The registry keeps its types: every entry is a registration of a known  *)
(* publisher and every schema cell holds a schema.                         *)
(***************************************************************************)
THEOREM TypeCorrect == Spec => []TypeOK
BY Invariance, PTL DEF IInv

(***************************************************************************)
(* byPublisher and byName describe the same registrations.                 *)
(***************************************************************************)
THEOREM IndicesAlwaysAgree == Spec => []IndicesAgree
BY Invariance, PTL DEF IInv

(***************************************************************************)
(* A call refused by the publisher API changes neither index.              *)
(***************************************************************************)
THEOREM RefusalsAreHarmless == Spec => RefusalsChangeNothing
<1>1. ASSUME Next, reply'.code # "ok"
      PROVE  UNCHANGED <<byPublisher, byName>>
  <2>1. ASSUME NEW r, NEW s, Register(r, s)
        PROVE  UNCHANGED <<byPublisher, byName>>
    BY <1>1, <2>1 DEF Register, Insert, Refuse, Reply
  <2>2. ASSUME NEW p, NEW n, Unregister(p, n)
        PROVE  UNCHANGED <<byPublisher, byName>>
    BY <1>1, <2>2 DEF Unregister, Withdraw, Refuse, Reply
  <2> QED
    BY <1>1, <2>1, <2>2 DEF Next, Handle, Refuse, GiveList, RefuseParams, RefuseMethod,
       WriteOwn, WriteView, Write
<1>2. [Next]_vars => [reply'.code # "ok" => UNCHANGED <<byPublisher, byName>>]_vars
  BY <1>1
<1> QED
  BY <1>2, PTL DEF Spec, RefusalsChangeNothing

(***************************************************************************)
(* Only a call in its owner's name withdraws a tool.                       *)
(***************************************************************************)
THEOREM WithdrawalsAreOwned == Spec => OnlyOwnerWithdraws
<1>1. ASSUME IInv, Next, NEW n \in DOMAIN byName \ DOMAIN byName'
      PROVE  reply'.caller = byName[n].publisher
  <2>1. ASSUME NEW p, NEW m, Unregister(p, m)
        PROVE  reply'.caller = byName[n].publisher
    <3>1. m \in DOMAIN ToolsOf(p) /\ Withdraw(p, m) /\ n = m
      BY <1>1, <2>1 DEF Unregister, Withdraw, Refuse, Drop
    <3> QED
      BY <1>1, <3>1 DEF Withdraw, Reply, IInv, IndicesAgree, ToolsOf, Empty
  <2>2. ~\E r \in Requests, s \in Schemas : Register(r, s)
    BY <1>1 DEF Register, Insert, Refuse, Put
  <2>3. \E p, m : Unregister(p, m)
    BY <1>1, <2>2 DEF Next, Handle, GiveList, RefuseParams, RefuseMethod, Refuse, WriteOwn, WriteView, Write
  <2> QED
    BY <2>1, <2>3
<1>2. IInv /\ [Next]_vars =>
        [\A n \in DOMAIN byName \ DOMAIN byName' : reply'.caller = byName[n].publisher]_vars
  BY <1>1
<1> QED
  BY <1>2, Invariance, PTL DEF Spec, OnlyOwnerWithdraws

(***************************************************************************)
(* No write reaches a schema the registry keeps, except to replace it when *)
(* its name is registered again.                                           *)
(***************************************************************************)
LEMMA StoredIsPrivate ==
    ASSUME IInv, NEW n \in Names, Next,
           ~\E r \in Requests, s \in Schemas : Register(r, s) /\ Valid(r) /\ r.name = n
    PROVE  content'[Stored(n)] = content[Stored(n)]
<1>1. Stored(n) \in Cells
  BY DEF Cells
<1>2. ASSUME NEW r \in Requests, NEW s \in Schemas, Register(r, s)
      PROVE  content'[Stored(n)] = content[Stored(n)]
  BY <1>1, <1>2, CellsDistinct DEF Register, Insert, IInv, TypeOK
<1>3. ASSUME NEW r \in Readers, NEW p, GiveList(r, p)
      PROVE  content'[Stored(n)] = content[Stored(n)]
  <2>1. \A m : Stored(n) # Copy(r, m)
    BY DEF Stored, Copy
  <2> QED
    BY <1>1, <1>3, <2>1 DEF GiveList
<1>4. ASSUME NEW p, NEW s, WriteOwn(p, s)
      PROVE  content'[Stored(n)] = content[Stored(n)]
  BY <1>1, <1>4, CellsDistinct DEF WriteOwn, Write, IInv, TypeOK
<1>5. ASSUME NEW r \in Readers, NEW m, NEW s, WriteView(r, m, s)
      PROVE  content'[Stored(n)] = content[Stored(n)]
  <2>1. views[r][m].schema # Stored(n)
    BY <1>5 DEF WriteView, IInv, Keyed, Stored, Copy
  <2> QED
    BY <1>1, <1>5, <2>1 DEF WriteView, Write, IInv, TypeOK
<1>6. ASSUME NEW p, NEW m, Unregister(p, m)
      PROVE  content'[Stored(n)] = content[Stored(n)]
  BY <1>6 DEF Unregister, Withdraw
<1> QED
  BY <1>2, <1>3, <1>4, <1>5, <1>6 DEF Next, Handle, RefuseParams, RefuseMethod

(***************************************************************************)
(* A reader's list says what it said until the reader itself writes to it  *)
(* or asks again.                                                          *)
(***************************************************************************)
THEOREM ViewsStayIsolated == Spec => ViewsAreIsolated
<1> DEFINE Isolated(r) ==
        \/ \E n \in DOMAIN views[r], s \in Schemas : WriteView(r, n, s)
        \/ \E p \in Publishers \cup {NoId} : GiveList(r, p)
        \/ \A n \in DOMAIN views[r] : content'[views[r][n].schema] = content[views[r][n].schema]
<1>1. ASSUME IInv, Next, NEW r \in Readers
      PROVE  Isolated(r)
  <2>1. \A n \in DOMAIN views[r] : views[r][n].schema = Copy(r, n) /\ Copy(r, n) \in Cells
    BY <1>1 DEF IInv, Keyed, TypeOK, Cells
  <2>2. ASSUME NEW q, NEW s, Register(q, s)
        PROVE  Isolated(r)
    <3>1. \A n : Copy(r, n) # Own(q.publisher) /\ Copy(r, n) # Stored(q.name)
      BY DEF Copy, Own, Stored
    <3> QED
      BY <2>1, <2>2, <3>1, <1>1 DEF Register, Insert, IInv, TypeOK
  <2>3. ASSUME NEW q \in Readers, NEW p \in Publishers \cup {NoId}, GiveList(q, p)
        PROVE  Isolated(r)
    <3>1. CASE q = r
      BY <2>3, <3>1
    <3>2. CASE q # r
      <4>1. \A n, m : Copy(r, n) # Copy(q, m)
        BY <3>2 DEF Copy
      <4> QED
        BY <2>1, <2>3, <4>1 DEF GiveList
    <3> QED
      BY <3>1, <3>2
  <2>4. ASSUME NEW p, NEW s, WriteOwn(p, s)
        PROVE  Isolated(r)
    <3>1. \A n : Copy(r, n) # Own(p)
      BY DEF Copy, Own
    <3> QED
      BY <2>1, <2>4, <3>1, <1>1 DEF WriteOwn, Write, IInv, TypeOK
  <2>5. ASSUME NEW q \in Readers, NEW m \in Names, NEW s \in Schemas, WriteView(q, m, s)
        PROVE  Isolated(r)
    <3>1. CASE q = r
      BY <2>5, <3>1 DEF WriteView
    <3>2. CASE q # r
      <4>1. \A n : Copy(r, n) # views[q][m].schema
        BY <1>1, <2>5, <3>2 DEF WriteView, Copy, Keyed, IInv
      <4> QED
        BY <2>1, <2>5, <4>1, <1>1 DEF WriteView, Write, IInv, TypeOK
    <3> QED
      BY <3>1, <3>2
  <2>6. ASSUME content' = content
        PROVE  Isolated(r)
    BY <2>6
  <2> QED
    BY <1>1, <2>2, <2>3, <2>4, <2>5, <2>6
       DEF Next, Handle, Unregister, Withdraw, RefuseParams, RefuseMethod
<1>2. IInv /\ [Next]_vars => [\A r \in Readers : views'[r] = views[r] => Isolated(r)]_vars
  BY <1>1
<1> QED
  BY <1>2, Invariance, PTL DEF Spec, ViewsAreIsolated

(***************************************************************************)
(* The registry implements the catalogue of owned names: each call of the  *)
(* publisher API is a claim, a release or a stutter of the catalogue.      *)
(***************************************************************************)
THEOREM RegistryIsCatalogue == Spec => IsCatalogue
<1>1. Init => Promise!CatalogueInit
  BY DEF Init, Promise!CatalogueInit, Published, Empty
<1>2. ASSUME IInv, NEW r \in Requests, NEW s \in Schemas, Valid(r),
             ~OwnedByOther(r.publisher, r.name), Insert(r, s)
      PROVE  Promise!CatalogueNext
  <2> DEFINE e == [owner |-> r.publisher, namespace |-> r.namespace,
                   primitive |-> r.primitive, schema |-> s]
  <2>1. /\ r.name \in Names
        /\ e \in [owner : Publishers, namespace : Namespaces, primitive : BOOLEAN, schema : Schemas]
    BY <1>2, RequestsAssumption DEF Valid, Namespaces
  <2>2. r.name \in DOMAIN Published => Published[r.name].owner = e.owner
    BY <1>2 DEF Published, OwnedByOther
  <2>3. DOMAIN byName' = DOMAIN byName \cup {r.name}
    BY <1>2 DEF Insert, Put
  <2>4. ASSUME NEW n \in DOMAIN byName, n # r.name
        PROVE  byName'[n] = byName[n] /\ content'[byName[n].schema] = content[byName[n].schema]
    <3>1. byName[n].schema = Stored(n) /\ Stored(n) # Own(r.publisher) /\ Stored(n) # Stored(r.name)
      BY <1>2, <2>4 DEF IInv, Keyed, Stored, Own
    <3>2. Stored(n) \in Cells
      BY <1>2 DEF IInv, TypeOK, Cells
    <3> QED
      BY <1>2, <2>4, <3>1, <3>2 DEF Insert, Put, IInv, TypeOK
  <2>5. /\ byName'[r.name].publisher = r.publisher
        /\ byName'[r.name].namespace = r.namespace
        /\ byName'[r.name].primitive = r.primitive
        /\ content'[byName'[r.name].schema] = s
    <3>1. Stored(r.name) \in Cells /\ Stored(r.name) # Own(r.publisher)
      BY <2>1 DEF Cells, Stored, Own
    <3> QED
      BY <1>2, <3>1 DEF Insert, Put, Keep, IInv, TypeOK
  <2>6. Published' = [m \in DOMAIN Published \cup {r.name} |-> IF m = r.name THEN e ELSE Published[m]]
    BY <2>3, <2>4, <2>5 DEF Published
  <2>7. Promise!Claim(r.name, e)
    BY <2>2, <2>6 DEF Promise!Claim
  <2> QED
    BY <2>1, <2>7 DEF Promise!CatalogueNext
<1>3. ASSUME IInv, NEW p, NEW n, n \in DOMAIN ToolsOf(p), Withdraw(p, n)
      PROVE  Promise!CatalogueNext
  <2>1. n \in DOMAIN byName /\ n \in Names
    BY <1>3 DEF IInv, IndicesAgree, TypeOK, ToolsOf, Empty
  <2>2. Published' = [m \in DOMAIN Published \ {n} |-> Published[m]]
    BY <1>3 DEF Withdraw, Drop, Published
  <2> QED
    BY <2>1, <2>2 DEF Promise!CatalogueNext, Promise!Release, Published
<1>4. ASSUME IInv, UNCHANGED byName,
             \A n \in DOMAIN byName : content'[Stored(n)] = content[Stored(n)]
      PROVE  UNCHANGED Published
  BY <1>4 DEF Published, IInv, Keyed
<1>5. ASSUME IInv, Next
      PROVE  Promise!CatalogueNext \/ UNCHANGED Published
  <2>1. CASE \E r \in Requests, s \in Schemas :
                Register(r, s) /\ Valid(r) /\ ~OwnedByOther(r.publisher, r.name)
    BY <1>2, <1>5, <2>1 DEF Register
  <2>2. CASE \E p, n : n \in DOMAIN ToolsOf(p) /\ Withdraw(p, n)
    BY <1>3, <1>5, <2>2
  <2>3. ASSUME NEW r \in Requests, NEW s \in Schemas, Register(r, s),
               ~Valid(r) \/ OwnedByOther(r.publisher, r.name)
        PROVE  UNCHANGED Published
    <3>1. \A n : Stored(n) # Own(r.publisher)
      BY DEF Stored, Own
    <3>2. \A n \in DOMAIN byName : Stored(n) \in Cells
      BY <1>5 DEF IInv, TypeOK, Cells
    <3> QED
      BY <1>4, <1>5, <2>3, <3>1, <3>2 DEF Register, Refuse, IInv, TypeOK
  <2>4. CASE ~\E r \in Requests, s \in Schemas : Register(r, s)
    <3>1. \A n \in DOMAIN byName : content'[Stored(n)] = content[Stored(n)]
      BY <1>5, <2>4, StoredIsPrivate DEF IInv, TypeOK
    <3>2. UNCHANGED byName \/ \E p, n : n \in DOMAIN ToolsOf(p) /\ Withdraw(p, n)
      BY <1>5, <2>4 DEF Next, Handle, Unregister, Refuse, GiveList, RefuseParams, RefuseMethod,
         WriteOwn, WriteView, Write
    <3> QED
      BY <1>4, <1>5, <2>2, <3>1, <3>2
  <2> QED
    BY <2>1, <2>3, <2>4
<1>6. IInv /\ [Next]_vars => [Promise!CatalogueNext]_Published
  <2>1. UNCHANGED vars => UNCHANGED Published
    BY DEF vars, Published
  <2> QED
    BY <1>5, <2>1
<1> QED
  BY <1>1, <1>6, Invariance, PTL DEF Spec, IsCatalogue, Promise!CatalogueSpec

-----------------------------------------------------------------------------

\* Between the snapshot and the answer a call carries a catalogue of its time.
CarriesCatalogue ==
    \A a \in Agents :
        /\ phase[a] \in {"listed", "admitted"} => snapshot[a] \in since[a]
        /\ phase[a] = "called" => catalogue \in since[a]
        /\ phase[a] = "admitted" =>
            admitted[a] = Admit(asked[a], snapshot[a]) /\ DOMAIN admitted[a] # {}

Domains ==
    /\ DOMAIN phase = Agents
    /\ DOMAIN asked = Agents
    /\ DOMAIN snapshot = Agents
    /\ DOMAIN admitted = Agents
    /\ DOMAIN answer = Agents
    /\ DOMAIN since = Agents

DiscoveryInv == Domains /\ CarriesCatalogue /\ ListedAtOneInstant

LEMMA DiscoveryInitInv == DiscoveryInit => DiscoveryInv
BY DEF DiscoveryInit, DiscoveryInv, Domains, CarriesCatalogue, ListedAtOneInstant

LEMMA EndInv ==
    ASSUME DiscoveryInv, NEW a \in Agents, NEW code, NEW tools, End(a, code, tools),
           UNCHANGED <<catalogue, asked, since>>,
           code = "ok" => DOMAIN tools # {} /\ \E c \in since[a] : tools = Admit(asked[a], c),
           code = "EMPTY" => \E c \in since[a] : DOMAIN Admit(asked[a], c) = {}
    PROVE  DiscoveryInv'
<1> USE DEF DiscoveryInv, End
<1>1. Domains'
  BY DEF Domains
<1>2. CarriesCatalogue'
  BY DEF Domains, CarriesCatalogue
<1>3. ListedAtOneInstant'
  BY DEF Domains, ListedAtOneInstant, Answer
<1> QED
  BY <1>1, <1>2, <1>3

LEMMA DiscoveryNextInv == DiscoveryInv /\ [DiscoveryNext]_discoveryVars => DiscoveryInv'
<1> SUFFICES ASSUME DiscoveryInv, [DiscoveryNext]_discoveryVars PROVE DiscoveryInv'
  OBVIOUS
<1>1. ASSUME NEW a \in Agents, NEW ctx \in Contexts, StartList(a, ctx)
      PROVE  DiscoveryInv'
  BY <1>1 DEF StartList, End, DiscoveryInv, Domains, CarriesCatalogue, ListedAtOneInstant, Answer, UnderWay
<1>2. ASSUME NEW a \in Agents, TakeSnapshot(a)
      PROVE  DiscoveryInv'
  BY <1>2 DEF TakeSnapshot, DiscoveryInv, Domains, CarriesCatalogue, ListedAtOneInstant
<1>3. ASSUME NEW a \in Agents, AskAdmit(a)
      PROVE  DiscoveryInv'
  <2> DEFINE tools == Admit(asked[a], snapshot[a])
  <2>1. snapshot[a] \in since[a]
    BY <1>3 DEF AskAdmit, DiscoveryInv, CarriesCatalogue
  <2>2. CASE DOMAIN tools = {}
    BY <1>3, <2>1, <2>2, EndInv DEF AskAdmit
  <2>3. CASE DOMAIN tools # {}
    BY <1>3, <2>1, <2>3 DEF AskAdmit, DiscoveryInv, Domains, CarriesCatalogue, ListedAtOneInstant
  <2> QED
    BY <2>2, <2>3
<1>4. ASSUME NEW a \in Agents, AskScore(a)
      PROVE  DiscoveryInv'
  <2>1. snapshot[a] \in since[a] /\ admitted[a] = Admit(asked[a], snapshot[a]) /\ DOMAIN admitted[a] # {}
    BY <1>4 DEF AskScore, DiscoveryInv, CarriesCatalogue
  <2> QED
    BY <1>4, <2>1, EndInv DEF AskScore, Scored
<1>5. ASSUME NEW a \in Agents, ProviderErrs(a)
      PROVE  DiscoveryInv'
  BY <1>5, EndInv DEF ProviderErrs
<1>6. CASE Publish
  BY <1>6 DEF Publish, call, UnderWay, DiscoveryInv, Domains, CarriesCatalogue, ListedAtOneInstant
<1>7. CASE UNCHANGED discoveryVars
  BY <1>7 DEF discoveryVars, call, DiscoveryInv, Domains, CarriesCatalogue, ListedAtOneInstant
<1> QED
  BY <1>1, <1>2, <1>3, <1>4, <1>5, <1>6, <1>7 DEF DiscoveryNext, ListTools

(***************************************************************************)
(* What tools/list answers is the admission of one catalogue that existed  *)
(* while the call was under way.                                           *)
(***************************************************************************)
THEOREM ListIsOneCatalogue == DiscoverySpec => []ListedAtOneInstant
<1>1. DiscoverySpec => []DiscoveryInv
  BY DiscoveryInitInv, DiscoveryNextInv, PTL DEF DiscoverySpec
<1> QED
  BY <1>1, PTL DEF DiscoveryInv
=============================================================================
