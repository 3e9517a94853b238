----------------------------- MODULE MCAccounts -----------------------------
(***************************************************************************)
(* Accounts and capacity: small instances of an account's logins, of a     *)
(* project, of home nodes and what is placed on them, of automatic         *)
(* recharge, of top-ups paid in USDC, of the charging of invoices and of a *)
(* model of the catalog, checked in one run.  A behaviour is one of        *)
(* `part`'s; the others' variables keep their initial values.              *)
(***************************************************************************)
EXTENDS Logins, Projects, Placement, TopUps, CryptoTopUps, InvoiceCharging,
        Redeploys, ModelCatalog

VARIABLE part   \* whose behaviour this is

\* One instance fills the machine, the other takes half of it.
PlaceSizes == [p \in Placings |-> IF p = "p1" THEN 2 ELSE 1]

\* A new model with its price and key, an edit that moves it to another
\* backend, and one that takes its price away and still offers it.
Wish(b, o, p, f, k) == [backend |-> b, on |-> o, price |-> p, offer |-> f, key |-> k]
SomeWishes == { Wish("b1", FALSE, "full", "keep", TRUE),
                Wish("b2", TRUE,  "keep", "keep", FALSE),
                Wish("b2", FALSE, "none", "yes",  FALSE) }

\* Processes of a kind are alike, and so are the payment links that bear the
\* names of two of them.
Alike == Permutations(Replicas)

MCInit ==
    /\ part \in {"logins", "project", "nodes", "card", "crypto", "invoices",
                "redeploy", "model"}
    /\ LoginInit /\ ProjectInit /\ PlacementInit /\ Init /\ CryptoInit /\ InvoiceInit
    /\ RedeployInit /\ CatalogInit
    /\ part # "card" => rule.enabled
    /\ part # "redeploy" => app.provider

MCNext ==
    /\ UNCHANGED part
    /\ \/ /\ part = "logins" /\ LoginNext
          /\ UNCHANGED <<projectVars, placementVars, vars, cryptoVars, invoiceVars, redeployVars, catalogVars>>
       \/ /\ part = "project" /\ ProjectNext
          /\ UNCHANGED <<loginVars, placementVars, vars, cryptoVars, invoiceVars, redeployVars, catalogVars>>
       \/ /\ part = "nodes" /\ PlacementNext
          /\ UNCHANGED <<loginVars, projectVars, vars, cryptoVars, invoiceVars, redeployVars, catalogVars>>
       \/ /\ part = "card" /\ Next
          /\ UNCHANGED <<loginVars, projectVars, placementVars, cryptoVars, invoiceVars, redeployVars, catalogVars>>
       \/ /\ part = "crypto" /\ CryptoNext
          /\ UNCHANGED <<loginVars, projectVars, placementVars, vars, invoiceVars, redeployVars, catalogVars>>
       \/ /\ part = "invoices" /\ InvoiceNext
          /\ UNCHANGED <<loginVars, projectVars, placementVars, vars, cryptoVars, redeployVars, catalogVars>>
       \/ /\ part = "redeploy" /\ RedeployNext
          /\ UNCHANGED <<loginVars, projectVars, placementVars, vars, cryptoVars, invoiceVars, catalogVars>>
       \/ /\ part = "model" /\ CatalogNext
          /\ UNCHANGED <<loginVars, projectVars, placementVars, vars, cryptoVars, invoiceVars, redeployVars>>

MCVars == <<part, loginVars, projectVars, placementVars, vars, cryptoVars, invoiceVars, redeployVars, catalogVars>>

MCSpec == MCInit /\ [][MCNext]_MCVars
=============================================================================
