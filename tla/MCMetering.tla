----------------------------- MODULE MCMetering -----------------------------
(***************************************************************************)
(* What runs and is stored, and what it costs: small instances of the      *)
(* credit ledger, the node agent, compute billing, the object store and    *)
(* its meter, and a project's registry, checked in one run.  The           *)
(* components take no step together here; a behaviour is one of `part`'s,  *)
(* and the others' variables keep their initial values.                    *)
(***************************************************************************)
EXTENDS CreditLedger, NodeAgent, ComputeBilling, ObjectStorage, StorageMeter, ProjectRegistry

VARIABLE part   \* whose behaviour this is

\* The ledger: two purchases, the first used up by the first of two usage
\* records, and two settlements of each.
Purchases      == <<2, 3>>
NeverExpiring  == <<1, 1>>
Prices         == [r \in {"r1", "r2"} |-> IF r = "r1" THEN 2 ELSE 3]
TwoForEach     == [t \in {"t1", "t2", "t3", "t4"} |-> IF t \in {"t1", "t2"} THEN "r1" ELSE "r2"]

\* The object store: two uploads, a download, a delete, a bucket created
\* and a purge, which ends by deleting the bucket.
OneOfEach == [r \in StoreRequests |->
                CASE r \in {"p1", "p2"} -> "put" [] r = "d" -> "delete" [] r = "c" -> "create"
                  [] r = "u" -> "purge" [] r = "g" -> "get"]
SmallAndLarge == [r \in StoreRequests |-> IF r = "p1" THEN 1 ELSE 2]

MCInit ==
    /\ part \in {"ledger", "node", "compute", "objects", "meter", "registry"}
    /\ Init /\ NodeInit /\ BillingInit /\ StorageInit /\ MeterInit /\ RegistryInit

MCNext ==
    \/ /\ part = "ledger" /\ Next
       /\ UNCHANGED <<part, nodeVars, billingVars, storageVars, meterVars, registryVars>>
    \/ /\ part = "node" /\ NodeNext
       /\ UNCHANGED <<part, vars, billingVars, storageVars, meterVars, registryVars>>
    \/ /\ part = "compute" /\ BillingNext
       /\ UNCHANGED <<part, vars, nodeVars, storageVars, meterVars, registryVars>>
    \/ /\ part = "objects" /\ StorageNext
       /\ UNCHANGED <<part, vars, nodeVars, billingVars, meterVars, registryVars>>
    \/ /\ part = "meter" /\ MeterNext
       /\ UNCHANGED <<part, vars, nodeVars, billingVars, storageVars, registryVars>>
    \/ /\ part = "registry" /\ RegistryNext
       /\ UNCHANGED <<part, vars, nodeVars, billingVars, storageVars, meterVars>>

MCSpec == MCInit /\ [][MCNext]_<<part, vars, nodeVars, billingVars, storageVars, meterVars,
                               registryVars>>
=============================================================================
