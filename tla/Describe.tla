------------------------------ MODULE Describe ------------------------------
(***************************************************************************)
(* executeDescribe of pkg/xolu/describe.go: a describe call lists up to    *)
(* four groups of xolu and asks for the detail of items one by one, while  *)
(* others create and delete items and register schemas.                    *)
(***************************************************************************)
EXTENDS Integers, Sequences

CONSTANTS
    Name,               \* what items are called; one item of a name in a group
    Every,              \* the call gives no name
    MaxDescribeChanges  \* bound: changes others make during the call

Order == <<"entities", "machines", "generators", "events">>
Groups == {Order[i] : i \in DOMAIN Order}

ASSUME DescribeAssumption ==
    /\ Every \notin Name
    /\ MaxDescribeChanges \in Nat

VARIABLES
    items,        \* xolu: the items of each group
    registered,   \* xolu: the entities with a schema
    v2,           \* xolu serves /api/v2
    scope, name,  \* the arguments
    at,           \* index in Order of the group the loop is at
    todo,         \* its items still to be asked for; NotListed before its listing
    found,        \* result: the items of each group
    unavailable,  \* result: the groups reported so
    detail,       \* result: what was attached to each item
    outcome,      \* of the call
    stayed,       \* history: the items that have been there all along
    kept,         \* history: the schemas that have been there all along
    deleted,      \* history: the items that were deleted
    disturbed     \* history: the changes of others so far

xoluGroups == <<items, registered, v2, stayed, kept, deleted, disturbed>>
args == <<scope, name>>
result == <<found, unavailable, detail>>
describeVars == <<xoluGroups, args, at, todo, result, outcome>>

NotListed == [listed |-> FALSE, schema |-> {}, suggestion |-> {}, spec |-> {}]
Nothing == [NotListed EXCEPT !.listed = TRUE]

group == Order[at]
Asked == IF scope = "all" THEN Groups ELSE {scope}
Offered(g) == g = "entities" \/ v2
Matching(g) == {n \in items[g] : name \in {n, Every}}
Running == outcome = "none" /\ at <= Len(Order)

Fail(how) ==
    /\ outcome' = how
    /\ UNCHANGED <<xoluGroups, args, at, todo, result>>

\* Faulty variant: the entities too may be missing.
NotThereOfAny ==
    IF scope = "all"
    THEN /\ unavailable' = unavailable \cup {group}
         /\ at' = at + 1 /\ todo' = NotListed
         /\ found' = [found EXCEPT ![group] = {}]
         /\ UNCHANGED <<xoluGroups, args, detail, outcome>>
    ELSE Fail("404")

\* A 404 from the listing of the group or from one of its items.
NotThere ==
    IF scope = "all" /\ group # "entities"
    THEN /\ unavailable' = unavailable \cup {group}
         /\ at' = at + 1 /\ todo' = NotListed
         /\ found' = [found EXCEPT ![group] = {}]
         /\ UNCHANGED <<xoluGroups, args, detail, outcome>>
    ELSE Fail("404")

\* A 5xx, no answer, or another refusal than 404, from any request.
SubstrateFails == Running /\ group \in Asked /\ todo # Nothing /\ Fail("unavailable")

Skip ==
    /\ Running /\ group \notin Asked
    /\ at' = at + 1
    /\ UNCHANGED <<xoluGroups, args, todo, result, outcome>>

\* Faulty variant: schemas are asked for only where a name narrows the answer down.
DetailsOfNamed(g) ==
    [listed     |-> TRUE,
     schema     |-> IF g = "entities" /\ name # Every THEN Matching(g) \cap registered ELSE {},
     suggestion |-> IF g = "entities" /\ name # Every THEN Matching(g) \ registered ELSE {},
     spec       |-> IF g = "machines" THEN Matching(g) ELSE {}]

\* The requests per item that the listing of g calls for.
Details(g) ==
    [listed     |-> TRUE,
     schema     |-> IF g = "entities" THEN Matching(g) \cap registered ELSE {},
     suggestion |-> IF g = "entities" /\ name # Every THEN Matching(g) \ registered ELSE {},
     spec       |-> IF g = "machines" THEN Matching(g) ELSE {}]

ListGroup ==
    /\ Running /\ group \in Asked /\ ~todo.listed
    /\ IF Offered(group)
       THEN /\ found' = [found EXCEPT ![group] = Matching(group)]
            /\ todo' = Details(group)
            /\ UNCHANGED <<xoluGroups, args, at, unavailable, detail, outcome>>
       ELSE NotThere

Attach(kind, n, what) ==
    /\ todo' = [todo EXCEPT ![kind] = @ \ {n}]
    /\ detail' = [detail EXCEPT ![<<group, n>>] = what]
    /\ UNCHANGED <<xoluGroups, args, at, found, unavailable, outcome>>

Schema ==
    /\ Running
    /\ \E n \in todo.schema : IF n \in registered THEN Attach("schema", n, "schema") ELSE NotThere

\* Faulty variant: a suggestion that xolu cannot make fails the call.
SuggestionOrFail ==
    /\ Running /\ todo.schema = {}
    /\ \E n \in todo.suggestion :
        \/ n \in items["entities"] /\ Attach("suggestion", n, "suggestion")
        \/ NotThere

\* xolu may have no rows to infer from; an entity that is gone is refused like that.
Suggestion ==
    /\ Running /\ todo.schema = {}
    /\ \E n \in todo.suggestion :
        \/ n \in items["entities"] /\ Attach("suggestion", n, "suggestion")
        \/ Attach("suggestion", n, "refused")

Definition ==
    /\ Running
    /\ \E n \in todo.spec : IF n \in items["machines"] THEN Attach("spec", n, "spec") ELSE NotThere

GroupDone ==
    /\ Running /\ todo = Nothing
    /\ at' = at + 1 /\ todo' = NotListed
    /\ UNCHANGED <<xoluGroups, args, result, outcome>>

Return ==
    /\ outcome = "none" /\ at > Len(Order)
    /\ outcome' = IF name # Every /\ \A g \in Groups : found[g] = {} THEN "not found" ELSE "ok"
    /\ UNCHANGED <<xoluGroups, args, at, todo, result>>

(***************************************************************************)
(* Other clients of xolu.                                                  *)
(***************************************************************************)
Disturb ==
    /\ outcome = "none" /\ disturbed < MaxDescribeChanges
    /\ disturbed' = disturbed + 1
    /\ UNCHANGED <<v2, args, at, todo, result, outcome>>

Create ==
    /\ \E g \in Groups : \E n \in Name \ items[g] : items' = [items EXCEPT ![g] = @ \cup {n}]
    /\ Disturb
    /\ UNCHANGED <<registered, stayed, kept, deleted>>

DeleteItem ==
    /\ \E g \in Groups : \E n \in items[g] :
        /\ items' = [items EXCEPT ![g] = @ \ {n}]
        /\ stayed' = [stayed EXCEPT ![g] = @ \ {n}]
        /\ deleted' = [deleted EXCEPT ![g] = @ \cup {n}]
        /\ registered' = IF g = "entities" THEN registered \ {n} ELSE registered
        /\ kept' = IF g = "entities" THEN kept \ {n} ELSE kept
    /\ Disturb

Register ==
    /\ \E n \in items["entities"] \ registered : registered' = registered \cup {n}
    /\ Disturb
    /\ UNCHANGED <<items, stayed, kept, deleted>>

DescribeInit ==
    /\ items \in [Groups -> SUBSET Name]
    /\ registered \in SUBSET items["entities"]
    /\ v2 \in BOOLEAN
    /\ scope \in Groups \cup {"all"}
    /\ name \in Name \cup {Every}
    /\ at = 1
    /\ todo = NotListed
    /\ found = [g \in Groups |-> {}]
    /\ unavailable = {}
    /\ detail = [gn \in Groups \X Name |-> "none"]
    /\ outcome = "none"
    /\ stayed = items
    /\ kept = registered
    /\ deleted = [g \in Groups |-> {}]
    /\ disturbed = 0

Describing == ListGroup \/ Schema \/ Suggestion \/ Definition \/ GroupDone \/ Skip \/ Return \/ SubstrateFails
Others == Create \/ DeleteItem \/ Register

DescribeNext == Describing \/ Others

DescribeSpec == DescribeInit /\ [][DescribeNext]_describeVars

-----------------------------------------------------------------------------

DescribeTypeOK ==
    /\ items \in [Groups -> SUBSET Name] /\ stayed \in [Groups -> SUBSET Name]
    /\ deleted \in [Groups -> SUBSET Name]
    /\ kept \subseteq registered /\ registered \subseteq items["entities"]
    /\ v2 \in BOOLEAN
    /\ scope \in Groups \cup {"all"} /\ name \in Name \cup {Every}
    /\ at \in 1..Len(Order) + 1
    /\ todo \in [listed : BOOLEAN, schema : SUBSET Name, suggestion : SUBSET Name, spec : SUBSET Name]
    /\ found \in [Groups -> SUBSET Name]
    /\ unavailable \subseteq Groups \ {"entities"}
    /\ detail \in [Groups \X Name -> {"none", "schema", "suggestion", "refused", "spec"}]
    /\ outcome \in {"none", "ok", "not found", "404", "unavailable"}
    /\ disturbed \in 0..MaxDescribeChanges

\* An item the call looked for was deleted while it ran.
Gone(g) == \E n \in deleted[g] : name \in {n, Every}

(***************************************************************************)
(* A 404 from one item is told from a group that is not offered only by    *)
(* where it came from: the agent is told that a group is unavailable, or   *)
(* that the call failed with 404, only if the group is not offered or an   *)
(* item of it was deleted under the call.                                  *)
(***************************************************************************)
A404HasACause ==
    /\ \A g \in unavailable : ~Offered(g) \/ (g = "machines" /\ Gone(g))
    /\ outcome = "404" => (\E g \in Asked : ~Offered(g)) \/ Gone("entities") \/ Gone("machines")

(***************************************************************************)
(* A describe that succeeds is whole, although it took many requests: all  *)
(* that was there all along is listed, machines with their definition,     *)
(* entities with the schema they kept, and a guess only where there was no *)
(* schema to be had.  One that finds nothing is honest: an item that was   *)
(* there all along is found by its name, whatever the other groups said.   *)
(***************************************************************************)
DescribeIsWhole ==
    /\ outcome = "ok" =>
        \A g \in Asked \ unavailable : \A n \in Name :
            /\ name \in {n, Every} /\ n \in stayed[g] => n \in found[g]
            /\ g = "machines" /\ n \in found[g] => detail[<<g, n>>] = "spec"
            /\ g = "entities" /\ n \in found[g] /\ n \in kept => detail[<<g, n>>] = "schema"
            /\ g = "entities" /\ n \in found[g] /\ name = n => detail[<<g, n>>] # "none"
    /\ outcome = "not found" => \A g \in Asked : Offered(g) => name \notin stayed[g]
=============================================================================
