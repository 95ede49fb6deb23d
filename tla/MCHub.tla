------------------------------- MODULE MCHub -------------------------------
(***************************************************************************)
(* pkg/hub for TLC: the registry under its publishers, or the calls that   *)
(* list what it promises to hold, while publishers register, rewrite and   *)
(* withdraw; the other module rests.                                       *)
(***************************************************************************)
EXTENDS MCRegistry, Discovery

VARIABLE hub    \* "registry" or "discovery"

HubEntries == [owner : Publishers, schema : Schemas]

\* The last key is that of the clerk of acme:eu, and of acme's own eu:clerk.
HubRules ==
    (<<"acme", "clerk">> :> {Create}) @@ (<<"acme", "operator">> :> {Walk})
    @@ (<<"acme", "eu", "clerk">> :> {Walk})

Clerk == <<"clerk">>
Operator == <<"operator">>

HubContexts ==
    {[tenant |-> <<"acme">>, roles |-> roles] :
        roles \in {{Clerk}, {Clerk, Operator}, {<<"guest">>}, {<<"eu", "clerk">>}}}
    \cup {[tenant |-> tenant, roles |-> {Clerk}] : tenant \in {<<"acme", "eu">>, NoTenant}}

DiscoveryRests == DiscoveryInit /\ \A a \in Agents : asked[a].tenant = NoTenant

HubInit ==
    \/ hub = "registry" /\ Init /\ DiscoveryRests
    \/ hub = "discovery" /\ Init /\ DiscoveryInit

HubNext ==
    /\ UNCHANGED hub
    /\ \/ hub = "registry" /\ Next /\ UNCHANGED discoveryVars
       \/ hub = "discovery" /\ DiscoveryNext /\ UNCHANGED vars

HubSpec == HubInit /\ [][HubNext]_<<hub, vars, discoveryVars>>
=============================================================================
