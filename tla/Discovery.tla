----------------------------- MODULE Discovery -----------------------------
(***************************************************************************)
(* tools/list filtered by the relevance provider: Discovery.ListTools of   *)
(* pkg/hub/discovery.go, as handleDiscoveryList of pkg/mcp/server.go calls *)
(* it, while publishers change the registry.  The registry is taken by     *)
(* what it promises, Catalogue, which Registry is shown to implement.      *)
(*                                                                         *)
(* A call takes its snapshot of the catalogue under the registry's lock    *)
(* and then asks the provider twice, Admit and Score, with no lock held.   *)
(* The order and the scores of the answer are left out.                    *)
(***************************************************************************)
EXTENDS Catalogue, Naturals, Sequences, FiniteSets, Functions

CONSTANTS
    Agents,     \* the callers of tools/list
    Contexts,   \* AdmitContexts: records of a tenant and a set of roles
    Rules,      \* static-context-rules: the key of a tenant and a role -> allowed names
    AdmitsAll,  \* the provider is admit-all
    MayErr,     \* the provider may return errors (neither built-in one does)
    MaxSeen     \* bound: how many catalogues there may be during one call

\* A tenant, a role or a key is the sequence of what lies between its colons.
NoTenant == <<"">>     \* the empty AdmitContext.Tenant

ASSUME DiscoveryAssumption ==
    /\ AdmitsAll \in BOOLEAN
    /\ MayErr \in BOOLEAN
    /\ MaxSeen \in Nat

VARIABLES
    phase,      \* where each agent's call is
    asked,      \* the context each call was made with
    snapshot,   \* the catalogue each call took
    admitted,   \* the tools the provider admitted to it
    answer,     \* how it ended
    since       \* history: every catalogue there was during the call

call == <<phase, asked, snapshot, admitted, answer>>
discoveryVars == <<catalogue, call, since>>

Nothing == [n \in {} |-> {}]

Answer(code, tools) == [code |-> code, tools |-> tools]

(***************************************************************************)
(* The provider: isAllowed, Admit.  Tenant and role are joined by a colon, *)
(* which either may hold as well: two pairs may have one key.              *)
(***************************************************************************)
Key(tenant, role) == tenant \o role

RulesFor(tenant, role) ==
    IF Key(tenant, role) \in DOMAIN Rules THEN Rules[Key(tenant, role)] ELSE {}

IsAllowed(ctx, n) == AdmitsAll \/ \E role \in ctx.roles : n \in RulesFor(ctx.tenant, role)

Admit(ctx, tools) == Restrict(tools, {n \in DOMAIN tools : IsAllowed(ctx, n)})

(***************************************************************************)
(* ListTools, one action per point at which the shared state can change.   *)
(***************************************************************************)
UnderWay(a) == phase[a] \in {"called", "listed", "admitted"}

End(a, code, tools) ==
    /\ phase' = [phase EXCEPT ![a] = "done"]
    /\ answer' = [answer EXCEPT ![a] = Answer(code, tools)]
    /\ snapshot' = [snapshot EXCEPT ![a] = Nothing]
    /\ admitted' = [admitted EXCEPT ![a] = Nothing]

StartList(a, ctx) ==
    /\ ~UnderWay(a)
    /\ asked' = [asked EXCEPT ![a] = ctx]
    /\ since' = [since EXCEPT ![a] = {catalogue}]
    /\ IF ctx.tenant = NoTenant
       THEN End(a, "CONTRACT_VIOLATION", Nothing)
       ELSE /\ phase' = [phase EXCEPT ![a] = "called"]
            /\ answer' = [answer EXCEPT ![a] = Answer("none", Nothing)]
            /\ UNCHANGED <<snapshot, admitted>>
    /\ UNCHANGED catalogue

TakeSnapshot(a) ==
    /\ phase[a] = "called"
    /\ snapshot' = [snapshot EXCEPT ![a] = catalogue]
    /\ phase' = [phase EXCEPT ![a] = "listed"]
    /\ UNCHANGED <<catalogue, asked, admitted, answer, since>>

AskAdmit(a) ==
    /\ phase[a] = "listed"
    /\ LET tools == Admit(asked[a], snapshot[a])
       IN  IF DOMAIN tools = {}
           THEN End(a, "EMPTY", Nothing)
           ELSE /\ admitted' = [admitted EXCEPT ![a] = tools]
                /\ phase' = [phase EXCEPT ![a] = "admitted"]
                /\ UNCHANGED <<snapshot, answer>>
    /\ UNCHANGED <<catalogue, asked, since>>

\* Faulty variant: the answer is filled in from the catalogue of the moment.
ScoredNow(a) ==
    [n \in DOMAIN admitted[a] |-> IF n \in DOMAIN catalogue THEN catalogue[n] ELSE admitted[a][n]]

Scored(a) == admitted[a]

AskScore(a) ==
    /\ phase[a] = "admitted"
    /\ End(a, "ok", Scored(a))
    /\ UNCHANGED <<catalogue, asked, since>>

ProviderErrs(a) ==
    /\ MayErr
    /\ phase[a] \in {"listed", "admitted"}
    /\ End(a, "provider error", Nothing)
    /\ UNCHANGED <<catalogue, asked, since>>

\* The catalogue goes on while calls are under way.
Publish ==
    /\ CatalogueNext
    /\ \A a \in Agents : UnderWay(a) => Cardinality(since[a]) < MaxSeen
    /\ since' = [a \in Agents |-> IF UnderWay(a) THEN since[a] \cup {catalogue'} ELSE since[a]]
    /\ UNCHANGED call

DiscoveryInit ==
    /\ CatalogueInit
    /\ phase = [a \in Agents |-> "idle"]
    /\ asked \in [Agents -> Contexts]
    /\ snapshot = [a \in Agents |-> Nothing]
    /\ admitted = [a \in Agents |-> Nothing]
    /\ answer = [a \in Agents |-> Answer("none", Nothing)]
    /\ since = [a \in Agents |-> {}]

ListTools(a) ==
    \/ \E ctx \in Contexts : StartList(a, ctx)
    \/ TakeSnapshot(a)
    \/ AskAdmit(a)
    \/ AskScore(a)
    \/ ProviderErrs(a)

DiscoveryNext == Publish \/ \E a \in Agents : ListTools(a)

DiscoverySpec == DiscoveryInit /\ [][DiscoveryNext]_discoveryVars

(***************************************************************************)
(* Properties                                                              *)
(***************************************************************************)

(***************************************************************************)
(* A list shows one catalogue: what the agent is given, and equally that   *)
(* it is given nothing, is exactly what the provider allows of a catalogue *)
(* that existed at one instant of its call, however publishers move        *)
(* (ListTools works on one List and never reads the registry again).       *)
(***************************************************************************)
ListedAtOneInstant ==
    \A a \in Agents :
        /\ phase[a] = "done" /\ answer[a].code = "ok" =>
            /\ DOMAIN answer[a].tools # {}
            /\ \E c \in since[a] : answer[a].tools = Admit(asked[a], c)
        /\ phase[a] = "done" /\ answer[a].code = "EMPTY" =>
            \E c \in since[a] : DOMAIN Admit(asked[a], c) = {}
=============================================================================
