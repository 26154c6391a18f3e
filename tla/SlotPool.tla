------------------------------ MODULE SlotPool ------------------------------
(***************************************************************************)
(* What the Tinker gateway promises about the adapter slots of the shared  *)
(* trainer, without saying how: a model gets a slot once, from the pool;   *)
(* nobody else has that slot until it is given back; and a slot may be     *)
(* lost for good, but never comes back by itself.                          *)
(***************************************************************************)
CONSTANTS Model, Slots

VARIABLES pool,    \* the slots that can be leased
          tenant,  \* tenant[k]: the model that has slot k, if any
          served   \* the models that have ever had a slot

slotVars == <<pool, tenant, served>>

Init ==
    /\ pool = Slots
    /\ tenant = [k \in Slots |-> {}]
    /\ served = {}

Lease(m, k) ==
    /\ k \in pool
    /\ tenant[k] = {}
    /\ m \notin served
    /\ pool' = pool \ {k}
    /\ tenant' = [tenant EXCEPT ![k] = {m}]
    /\ served' = served \cup {m}

GiveBack(m, k) ==
    /\ tenant[k] = {m}
    /\ pool' = pool \cup {k}
    /\ tenant' = [tenant EXCEPT ![k] = {}]
    /\ UNCHANGED served

Lose(m, k) ==
    /\ tenant[k] = {m}
    /\ tenant' = [tenant EXCEPT ![k] = {}]
    /\ UNCHANGED <<pool, served>>

Next == \E m \in Model, k \in Slots : Lease(m, k) \/ GiveBack(m, k) \/ Lose(m, k)

Spec == Init /\ [][Next]_slotVars
=============================================================================
