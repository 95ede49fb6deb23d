----------------------------- MODULE AtMostOnce -----------------------------
(***************************************************************************)
(* What molu promises an agent whose calls write to xolu: each call takes  *)
(* effect at most once, and what the agent is told of it stays true, so    *)
(* that it knows which calls it may put right and repeat.                  *)
(***************************************************************************)
CONSTANT Try    \* the calls

VARIABLES
    effect,     \* of each call on xolu: none, pending or applied
    told        \* what the agent knows of it: nothing, applied, unchanged or unknown

vars == <<effect, told>>

Send(t) ==
    /\ told[t] = "nothing" /\ effect[t] = "none"
    /\ effect' = [effect EXCEPT ![t] = "pending"]
    /\ UNCHANGED told

\* xolu applies the write or drops it, at any time.
Settle(t) ==
    /\ effect[t] = "pending"
    /\ \E e \in {"applied", "none"} : effect' = [effect EXCEPT ![t] = e]
    /\ UNCHANGED told

Tell(t) ==
    /\ told[t] = "nothing"
    /\ \/ effect[t] = "applied" /\ told' = [told EXCEPT ![t] = "applied"]
       \/ effect[t] = "none" /\ told' = [told EXCEPT ![t] = "unchanged"]
       \/ told' = [told EXCEPT ![t] = "unknown"]
    /\ UNCHANGED effect

Init == effect = [t \in Try |-> "none"] /\ told = [t \in Try |-> "nothing"]

Next == \E t \in Try : Send(t) \/ Settle(t) \/ Tell(t)

Spec == Init /\ [][Next]_vars
=============================================================================
