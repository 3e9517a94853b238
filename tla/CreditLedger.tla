---------------------------- MODULE CreditLedger ----------------------------
(***************************************************************************)
(* The prepaid credit ledger of one account (pkg/billing/credits.go and    *)
(* the billing.credit_balance function of migration 060).                  *)
(*                                                                         *)
(* Every grant and every purchase is a LOT with its own remaining amount.  *)
(* Metered usage draws from lots in a transaction (ConsumeCredit); the     *)
(* expiry job forfeits what is left of lapsed grants in one statement      *)
(* (ExpireCredits).  Several control-plane replicas run both at once.      *)
(*                                                                         *)
(* The database is PostgreSQL at READ COMMITTED: each statement sees what  *)
(* was committed when it started, NOW() is the time the transaction began, *)
(* and a transaction's own rows are seen by others only after it commits.  *)
(* An INSERT into credit_transactions references the account row, so it    *)
(* takes that row's key-share lock and waits for a FOR UPDATE holder.      *)
(***************************************************************************)
EXTENDS Integers, Sums

CONSTANTS
  NumLots,     \* lots are numbered 1 .. NumLots, in id order
  Amount,      \* Amount[l]: what lot l was granted or bought for
  Expiry,      \* Expiry[l]: when lot l lapses, Never for a purchase
  MaxTime,     \* the clock stops here (a bound on the runs)
  Records,     \* usage records to be paid for
  Cost,        \* Cost[r]: the price of usage record r
  Txs,         \* attempts at ConsumeCredit, one database transaction each
  RecordOf,    \* RecordOf[t]: the usage record attempt t draws for
  Expirers,    \* replicas running the expiry job
  SlowCommit,  \* TRUE: a COMMIT may still be running when its caller retries
  NoTx         \* "nobody holds the account lock"

Lots  == 1 .. NumLots
Never == MaxTime + 1

ASSUME CountAssumption  == NumLots \in Nat /\ MaxTime \in Nat
ASSUME LotAssumption    == /\ Amount \in [Lots -> Nat \ {0}]
                           /\ Expiry \in [Lots -> 1 .. Never]
ASSUME RecordAssumption == /\ Cost \in [Records -> Nat \ {0}]
                           /\ RecordOf \in [Txs -> Records]
ASSUME LockAssumption   == NoTx \notin Txs /\ SlowCommit \in BOOLEAN

VARIABLES
  now,        \* the database clock
  lots,       \* lots that exist (kind 'grant' or 'purchase')
  born,       \* born[l]: created_at of lot l
  spent,      \* spent[l]: total of the committed consumption rows of lot l
  forfeited,  \* forfeited[l]: amount of the expiry row of lot l, 0 if none
  rows,       \* <<r, l>>: a committed consumption row of record r names lot l
  drawn,      \* drawn[r]: total of the committed consumption rows of record r
  late,       \* history: the part of spent[l] committed after lot l lapsed
  lock,       \* which transaction holds the account row FOR UPDATE
  pc,         \* where each ConsumeCredit attempt is
  began,      \* NOW() of each attempt's transaction
  budget,     \* what the attempt may still draw
  view,       \* view[t][l]: what attempt t read as left of lot l
  draw,       \* draw[t][l]: uncommitted consumption row of attempt t on lot l
  scan        \* scan[e][l]: what expiry statement e is about to forfeit of l

ledger == <<lots, born, spent, forfeited, rows, drawn, late>>
txn    == <<began, budget, view, draw>>
vars   == <<now, ledger, lock, pc, txn, scan>>

-----------------------------------------------------------------------------
(* Reading the ledger. *)

LesserOf(a, b) == IF a <= b THEN a ELSE b
PositivePart(a) == IF a > 0 THEN a ELSE 0

\* A lot's amount plus every row that names it (consumption, expiry).
Remaining(l) == Amount[l] - spent[l] - forfeited[l]

\* What lot l adds to billing.credit_balance at time t.
Spendable(l, t) ==
  IF l \notin lots THEN 0
  ELSE Remaining(l) - (IF Expiry[l] <= t THEN PositivePart(Remaining(l)) ELSE 0)

BalanceAt(t) == SumTo([l \in Lots |-> Spendable(l, t)], NumLots)

Balance == BalanceAt(now)

\* ORDER BY (expires_at IS NULL), expires_at, created_at, id.
DrawnBefore(k, l) ==
  \/ Expiry[k] < Expiry[l]
  \/ /\ Expiry[k] = Expiry[l]
     /\ \/ born[k] < born[l]
        \/ born[k] = born[l] /\ k < l

-----------------------------------------------------------------------------
NoLots == [l \in Lots |-> 0]

Init ==
  /\ now = 0
  /\ lots = {}
  /\ born = NoLots
  /\ spent = NoLots
  /\ forfeited = NoLots
  /\ rows = {}
  /\ drawn = [r \in Records |-> 0]
  /\ late = NoLots
  /\ lock = NoTx
  /\ pc = [t \in Txs |-> "idle"]
  /\ began = [t \in Txs |-> 0]
  /\ budget = [t \in Txs |-> 0]
  /\ view = [t \in Txs |-> NoLots]
  /\ draw = [t \in Txs |-> NoLots]
  /\ scan = [e \in Expirers |-> NoLots]

Tick ==
  /\ now < MaxTime
  /\ now' = now + 1
  /\ UNCHANGED <<ledger, lock, pc, txn, scan>>

\* GrantCredit, and recordPurchase for a lot that never lapses.
Grant(l) ==
  /\ l \notin lots
  /\ Expiry[l] > now
  /\ lock = NoTx
  /\ lots' = lots \cup {l}
  /\ born' = [born EXCEPT ![l] = now]
  /\ UNCHANGED <<now, spent, forfeited, rows, drawn, late, lock, pc, txn, scan>>

-----------------------------------------------------------------------------
(* ConsumeCredit, one action per statement.                                *)

Goto(t, label) == pc' = [pc EXCEPT ![t] = label]

\* The caller tries again only when its earlier attempts failed.  An attempt
\* whose COMMIT was cut off has failed as far as the caller can tell.
CallerGaveUpOn(t) == pc[t] \in {"idle", "aborted", "lost", "inflight"}

Begin(t) ==
  /\ pc[t] = "idle"
  /\ \A u \in Txs : RecordOf[u] = RecordOf[t] => CallerGaveUpOn(u)
  /\ began' = [began EXCEPT ![t] = now]
  /\ Goto(t, "check")
  /\ UNCHANGED <<now, ledger, lock, budget, view, draw, scan>>

AlreadyDrawn(r) == \E l \in Lots : <<r, l>> \in rows

\* Mutant of CheckPrior: the idempotency check is missing.
CheckPriorNever(t) ==
  /\ pc[t] = "check"
  /\ Goto(t, "lock")
  /\ UNCHANGED <<now, ledger, lock, txn, scan>>

CheckPrior(t) ==
  /\ pc[t] = "check"
  /\ Goto(t, IF AlreadyDrawn(RecordOf[t]) THEN "done" ELSE "lock")
  /\ UNCHANGED <<now, ledger, lock, txn, scan>>

LockAccount(t) ==
  /\ pc[t] = "lock"
  /\ lock = NoTx
  /\ lock' = t
  /\ Goto(t, "balance")
  /\ UNCHANGED <<now, ledger, txn, scan>>

ReadBalance(t) ==
  /\ pc[t] = "balance"
  /\ budget' = [budget EXCEPT ![t] = LesserOf(Cost[RecordOf[t]], BalanceAt(began[t]))]
  /\ Goto(t, "lots")
  /\ UNCHANGED <<now, ledger, lock, began, view, draw, scan>>

\* Mutant of ReadLots: overdrawn lots are not skipped.
ReadLotsOverdrawn(t) ==
  /\ pc[t] = "lots"
  /\ view' = [view EXCEPT ![t] =
       [l \in Lots |-> IF l \in lots /\ Expiry[l] > began[t] THEN Remaining(l) ELSE 0]]
  /\ Goto(t, "draw")
  /\ UNCHANGED <<now, ledger, lock, began, budget, draw, scan>>

ReadLots(t) ==
  /\ pc[t] = "lots"
  /\ view' = [view EXCEPT ![t] =
       [l \in Lots |-> IF l \in lots /\ Expiry[l] > began[t]
                         THEN PositivePart(Remaining(l)) ELSE 0]]
  /\ Goto(t, "draw")
  /\ UNCHANGED <<now, ledger, lock, began, budget, draw, scan>>

\* Mutant of NextLot: the query has no ORDER BY.
NextLotUnordered(t, l) == view[t][l] > 0

NextLot(t, l) ==
  /\ view[t][l] > 0
  /\ \A k \in Lots : view[t][k] > 0 => k = l \/ DrawnBefore(l, k)

\* One turn of the loop: a consumption row for the next lot in order.
DrawLot(t, l) ==
  /\ pc[t] = "draw"
  /\ budget[t] > 0
  /\ NextLot(t, l)
  /\ <<RecordOf[t], l>> \notin rows
  /\ LET take == LesserOf(budget[t], view[t][l])
     IN  /\ draw' = [draw EXCEPT ![t][l] = take]
         /\ budget' = [budget EXCEPT ![t] = @ - take]
  /\ view' = [view EXCEPT ![t][l] = 0]
  /\ UNCHANGED <<now, ledger, lock, pc, began, scan>>

\* The unique index on (usage record, lot) refuses a second row: rolled back.
DrawConflict(t, l) ==
  /\ pc[t] = "draw"
  /\ budget[t] > 0
  /\ NextLot(t, l)
  /\ <<RecordOf[t], l>> \in rows
  /\ Goto(t, "aborted")
  /\ lock' = NoTx
  /\ UNCHANGED <<now, ledger, txn, scan>>

\* Mutant of LoopDone: the loop stops after one lot.
LoopDoneAfterOne(t) ==
  budget[t] <= 0 \/ \E l \in Lots : draw[t][l] > 0 \/ \A k \in Lots : view[t][k] = 0

LoopDone(t) == budget[t] <= 0 \/ \A l \in Lots : view[t][l] = 0

\* What becomes visible when the transaction of attempt t commits.
Land(t) ==
  /\ spent' = [l \in Lots |-> spent[l] + draw[t][l]]
  /\ late' = [l \in Lots |-> late[l] + (IF Expiry[l] <= now THEN draw[t][l] ELSE 0)]
  /\ rows' = rows \cup {<<RecordOf[t], l>> : l \in {k \in Lots : draw[t][k] > 0}}
  /\ drawn' = [drawn EXCEPT ![RecordOf[t]] = @ + SumTo(draw[t], NumLots)]
  /\ lock' = NoTx
  /\ UNCHANGED <<lots, born, forfeited>>

Commit(t) ==
  /\ pc[t] = "draw"
  /\ LoopDone(t)
  /\ Land(t)
  /\ \/ Goto(t, "done")
     \/ Goto(t, "lost")    \* committed, but the reply never arrived
  /\ UNCHANGED <<now, txn, scan>>

\* The connection drops while the server is still executing the COMMIT.
CommitCutOff(t) ==
  /\ SlowCommit
  /\ pc[t] = "draw"
  /\ LoopDone(t)
  /\ Goto(t, "inflight")
  /\ UNCHANGED <<now, ledger, lock, txn, scan>>

CommitLands(t) ==
  /\ pc[t] = "inflight"
  /\ Land(t)
  /\ Goto(t, "lost")
  /\ UNCHANGED <<now, txn, scan>>

\* Any statement may fail: a lost connection, a cancelled context, a crash.  The deferred Rollback undoes the attempt.
Abort(t) ==
  /\ pc[t] \in {"check", "lock", "balance", "lots", "draw"}
  /\ Goto(t, "aborted")
  /\ lock' = IF lock = t THEN NoTx ELSE lock
  /\ UNCHANGED <<now, ledger, txn, scan>>

-----------------------------------------------------------------------------
(* ExpireCredits: one INSERT ... SELECT.  The SELECT reads a snapshot; the *)
(* rows become visible once the foreign key's lock on the account row has  *)
(* been granted.                                                           *)

Lapsed(l) == l \in lots /\ Expiry[l] <= now

\* Mutant of ExpireScan: a lot that lapses right now is missed.
ExpireScanStrict(e) ==
  /\ scan[e] = NoLots
  /\ \E l \in Lots : Lapsed(l) /\ Expiry[l] < now /\ Remaining(l) > 0
  /\ scan' = [scan EXCEPT ![e] =
       [l \in Lots |-> IF Lapsed(l) /\ Expiry[l] < now
                         THEN PositivePart(Remaining(l)) ELSE 0]]
  /\ UNCHANGED <<now, ledger, lock, pc, txn>>

\* Mutant of ExpireScan: a partly spent lot is forfeited whole.
ExpireScanWhole(e) ==
  /\ scan[e] = NoLots
  /\ \E l \in Lots : Lapsed(l) /\ Remaining(l) > 0
  /\ scan' = [scan EXCEPT ![e] = [l \in Lots |-> IF Lapsed(l) THEN Amount[l] ELSE 0]]
  /\ UNCHANGED <<now, ledger, lock, pc, txn>>

\* What is left of every lapsed lot, as the statement's snapshot shows it.
ExpireScan(e) ==
  /\ scan[e] = NoLots
  /\ \E l \in Lots : Lapsed(l) /\ Remaining(l) > 0
  /\ scan' = [scan EXCEPT ![e] =
       [l \in Lots |-> IF Lapsed(l) THEN PositivePart(Remaining(l)) ELSE 0]]
  /\ UNCHANGED <<now, ledger, lock, pc, txn>>

\* ON CONFLICT (lot_id) WHERE kind = 'expiry' DO NOTHING.
ExpireInsert(e) ==
  /\ scan[e] # NoLots
  /\ lock = NoTx
  /\ forfeited' = [l \in Lots |-> IF forfeited[l] = 0 THEN scan[e][l] ELSE forfeited[l]]
  /\ scan' = [scan EXCEPT ![e] = NoLots]
  /\ UNCHANGED <<now, lots, born, spent, rows, drawn, late, lock, pc, txn>>

ExpireFails(e) ==
  /\ scan[e] # NoLots
  /\ scan' = [scan EXCEPT ![e] = NoLots]
  /\ UNCHANGED <<now, ledger, lock, pc, txn>>

-----------------------------------------------------------------------------
TxStep(t) ==
  \/ CheckPrior(t) \/ LockAccount(t) \/ ReadBalance(t) \/ ReadLots(t)
  \/ \E l \in Lots : DrawLot(t, l) \/ DrawConflict(t, l)
  \/ Commit(t) \/ CommitLands(t)

ExpireStep(e) == ExpireScan(e) \/ ExpireInsert(e)

Next ==
  \/ Tick
  \/ \E l \in Lots : Grant(l)
  \/ \E t \in Txs : Begin(t) \/ TxStep(t) \/ CommitCutOff(t) \/ Abort(t)
  \/ \E e \in Expirers : ExpireStep(e) \/ ExpireFails(e)

Spec == Init /\ [][Next]_vars

\* Every open transaction is driven on by its request, the expiry job's
\* ticker keeps firing, and a statement does not fail for ever.
Fairness ==
  /\ \A t \in Txs : WF_vars(TxStep(t))
  /\ \A e \in Expirers : SF_vars(ExpireScan(e)) /\ SF_vars(ExpireInsert(e))

FairSpec == Spec /\ Fairness

-----------------------------------------------------------------------------
(* What should hold.                                                       *)

Labels == {"idle", "check", "lock", "balance", "lots", "draw", "inflight",
           "done", "lost", "aborted"}

\* The type invariant: every amount is a whole number of ledger units, only
\* budgets (which follow the balance) may be negative.
TypeOK ==
  /\ now \in 0 .. MaxTime
  /\ lots \subseteq Lots
  /\ born \in [Lots -> Nat]
  /\ spent \in [Lots -> Nat]
  /\ forfeited \in [Lots -> Nat]
  /\ rows \subseteq Records \X Lots
  /\ drawn \in [Records -> Nat]
  /\ late \in [Lots -> Nat]
  /\ lock \in Txs \cup {NoTx}
  /\ pc \in [Txs -> Labels]
  /\ began \in [Txs -> Nat]
  /\ budget \in [Txs -> Int]
  /\ view \in [Txs -> [Lots -> Nat]]
  /\ draw \in [Txs -> [Lots -> Nat]]
  /\ scan \in [Expirers -> [Lots -> Nat]]

\* Concurrent collectors never draw more from a lot than it was granted or
\* bought for: the account row's lock covers the read and the inserts
\* (credits.go:128-133).
LotNeverOverspent == \A l \in Lots : spent[l] <= Amount[l]

\* Expiring a partly spent grant removes only its unspent part
\* (credits.go:34-36): a lot is overdrawn by at most the draws whose
\* transaction was still open when the lot lapsed.
OverdrawnOnlyByLateDraws == \A l \in Lots : Remaining(l) >= -late[l]

\* The balance never goes negative (credits.go:36, 87).
BalanceNeverNegative == Balance >= 0

\* A usage record is never charged more than it cost, however often its
\* settlement is retried (credits.go:103-104, gateway.go:861-864).
DrawnAtMostCost == \A r \in Records : drawn[r] <= Cost[r]

\* Spending takes the soonest-lapsing lot first (credits.go:93-95): when a
\* draw becomes visible, every lot ahead of the drawn one that was live when
\* the transaction began is used up.
DrawsInOrder ==
  [][\A t \in Txs :
       (pc[t] \in {"draw", "inflight"} /\ pc'[t] \in {"done", "lost"}) =>
         \A l, k \in Lots :
           (/\ draw[t][l] > 0
            /\ k \in lots
            /\ DrawnBefore(k, l)
            /\ Expiry[k] > began[t]) => Remaining(k)' <= 0]_vars

\* The expiry job forfeits whatever is left of every lapsed lot
\* (credits.go:204-209).
LapsedCreditForfeited ==
  \A l \in Lots : (Lapsed(l) /\ Remaining(l) > 0) ~> Remaining(l) <= 0

\* For an account whose credit never lapses, the transactions implement the
\* one-step account of PrepaidAccount.
Account == INSTANCE PrepaidAccount WITH
             balance  <- Balance,
             Deposits <- {Amount[l] : l \in Lots}

ImplementsPrepaidAccount == Account!Spec
=============================================================================
