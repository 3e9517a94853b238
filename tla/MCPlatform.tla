----------------------------- MODULE MCPlatform -----------------------------
(***************************************************************************)
(* Parts of the platform that share no state, checked in one run: the      *)
(* ledger under expiry, the start of the control plane, the way of a       *)
(* request to its handler, the objects of an instance in Kubernetes, the   *)
(* allocation of GPUs, the documents of an account and its statements.  A  *)
(* behaviour is one of `part`'s; the others' variables keep their initial  *)
(* values.                                                                 *)
(***************************************************************************)
EXTENDS MCCreditLedger, StartUp, RequestPath, PodObjects, GpuLaunches,
        BillingDocuments, TLC

CONSTANTS k1, k2   \* clerks

VARIABLE part   \* whose behaviour this is

\* What a control plane with a database cannot start without.
BaseSettings == {"database", "schema", "jwt", "taxes", "enforcement", "hold_mode"}

AllSettings == BaseSettings \union
    {"bucket", "stripe", "solana", "wallet", "home", "kubernetes", "harbor", "sealing",
     "endpoints", "limits", "agent_mode", "agent_token", "status_page", "objects",
     "signing", "public_url", "build", "agent_image", "callback", "ecr", "github",
     "admin_token"}

\* All but two settings, the least ones and one more, or one alone.
SomeSettings ==
    {AllSettings \ {x, y} : x, y \in AllSettings}
    \union {BaseSettings \union {x} : x \in AllSettings}
    \union {{x} : x \in AllSettings}

\* A partitioned GPU next to an undivided one of less memory.
TwoGpus ==
    [a |-> [memory |-> 4, gpus |-> 1, slices |-> (1 :> 2 @@ 2 :> 1), shared |-> 0,
            simulated |-> FALSE],
     b |-> [memory |-> 3, gpus |-> 1, slices |-> [s \in {} |-> 0], shared |-> 2,
            simulated |-> FALSE]]

\* Clerks only differ in name, and appear in no other part.
AlikeClerks == Permutations(Clerks)

\* Two months of papers, where a customer who used anything keeps its name
\* and nothing goes wrong;
\* three months of statements, with one document and nothing rolled back.
FewPapers ==
    /\ month' <= 2 /\ \A c \in Clerks : clerk'[c] # Idle => clerk'[c].month <= 2
    /\ usage' = << >> \/ (name' = 1 /\ misses' = 0)
FewStatements ==
    /\ misses' = 0
    /\ Len(docs') + Cardinality({c \in Clerks : clerk'[c] # Idle /\ clerk'[c].task # "draw"}) <= 1

MCInit ==
    /\ part \in {"ledger", "start", "requests", "objects", "gpus", "papers", "statements"}
    /\ Init /\ RequestInit /\ MarketInit /\ DocumentsInit
    /\ IF part = "start" THEN StartInit ELSE plane = Starting({})
    /\ IF part = "objects" THEN SiteInit ELSE site = NoSite

MCNext ==
    /\ UNCHANGED part
    /\ \/ /\ part = "ledger" /\ Next
          /\ UNCHANGED <<plane, traffic, site, market, documentVars>>
       \/ /\ part = "start" /\ StartNext
          /\ UNCHANGED <<vars, traffic, site, market, documentVars>>
       \/ /\ part = "requests" /\ RequestNext
          /\ UNCHANGED <<vars, plane, site, market, documentVars>>
       \/ /\ part = "objects" /\ SiteNext
          /\ UNCHANGED <<vars, plane, traffic, market, documentVars>>
       \/ /\ part = "gpus" /\ MarketNext
          /\ UNCHANGED <<vars, plane, traffic, site, documentVars>>
       \/ /\ part = "papers" /\ Papers /\ FewPapers
          /\ UNCHANGED <<vars, plane, traffic, site, market>>
       \/ /\ part = "statements" /\ (Accounting \/ Reading) /\ FewStatements
          /\ UNCHANGED <<vars, plane, traffic, site, market>>

MCSpec == MCInit /\ [][MCNext]_<<part, vars, plane, traffic, site, market, documentVars>>
=============================================================================
