----------------------------- MODULE MCLifecycle -----------------------------
(***************************************************************************)
(* What must happen in the end, of an instance and of lapsed credit,       *)
(* checked in one run: an instance on a node that keeps its connection, an *)
(* instance on one that loses it once, and a ledger with one draw.  A      *)
(* behaviour is one of `part`'s; the others' variables keep their initial  *)
(* values.                                                                 *)
(***************************************************************************)
EXTENDS InstanceLifecycle

VARIABLE part   \* whose behaviour this is

\* The ledger's variables; `draws` is its `drawn`.
VARIABLES now, lots, born, spent, forfeited, rows, draws, late,
          lock, pc, began, budget, view, draw, scan

ledgerVars == <<now, lots, born, spent, forfeited, rows, draws, late,
                lock, pc, began, budget, view, draw, scan>>

\* The same instance on a node that loses its connection once, under a control
\* plane that keeps running, stopped instead of deleted.
Dropping == INSTANCE InstanceLifecycle WITH
    MaxDrops <- 1, MaxRestarts <- 0, Requests <- {"create", "stop"},
    PodFates <- {"failed", "gone", "recovers"}, PromptReconnect <- FALSE

\* A grant of 3 that lapses, and one record of 2 drawn from it.
Lapsing == INSTANCE CreditLedger WITH
    NumLots <- 1, MaxTime <- 1, Amount <- <<3>>, Expiry <- <<1>>,
    Records <- {"r"}, Cost <- [r \in {"r"} |-> 2],
    Txs <- {"t"}, RecordOf <- [t \in {"t"} |-> "r"],
    Expirers <- {"e"}, SlowCommit <- FALSE, NoTx <- "none", drawn <- draws

MCInit == part \in {"instance", "dropping", "ledger"} /\ Init /\ Lapsing!Init

MCNext ==
    /\ UNCHANGED part
    /\ \/ part = "instance" /\ Next /\ UNCHANGED ledgerVars
       \/ part = "dropping" /\ Dropping!Next /\ UNCHANGED ledgerVars
       \/ part = "ledger" /\ Lapsing!Next /\ UNCHANGED vars

MCSpec == MCInit /\ [][MCNext]_<<part, vars, ledgerVars>> /\ Fairness /\ Lapsing!Fairness

\* Of the instance on a node that keeps its connection, the row is not billed
\* for ever without a pod (runner.go, reportStatuses); LifecycleMissed.cfg is
\* about the other.
NoPodIsNoticed == part = "instance" => NothingBilledWithoutPod

\* Of the ledger: the expiry job forfeits whatever is left of every lapsed
\* lot in the end (credits.go:204-209).
LapsedCreditForfeited == Lapsing!LapsedCreditForfeited
=============================================================================
