------------------------- MODULE CreditLedgerProofs -------------------------
(***************************************************************************)
(* Proofs about the credit ledger, for every number of lots, attempts,     *)
(* replicas and every clock bound; then the refinement of the account a    *)
(* customer sees, and the order of the draws.                              *)
(***************************************************************************)
EXTENDS CreditLedger, SumTheorems

-----------------------------------------------------------------------------
(* Lemmas about the operators.                                             *)

LEMMA SumOfDraws ==
  ASSUME NEW f \in [Lots -> Nat]
  PROVE  /\ SumTo(f, NumLots) \in Nat
         /\ \A l \in Lots : f[l] <= SumTo(f, NumLots)
<1>1. f \in [1 .. NumLots -> Int] /\ \A i \in 1 .. NumLots : f[i] >= 0
  BY DEF Lots
<1>2. SumTo(f, NumLots) \in Int
  BY <1>1, SumType, CountAssumption
<1>3. QED
  BY <1>1, <1>2, SumNonNegative, CountAssumption DEF Lots

LEMMA BalanceType ==
  ASSUME TypeOK, NEW t \in Int
  PROVE  BalanceAt(t) \in Int
<1>1. \A l \in Lots : Remaining(l) \in Int
  BY LotAssumption DEF TypeOK, Remaining
<1>2. \A l \in Lots : Spendable(l, t) \in Int
  BY <1>1 DEF Spendable, PositivePart
<1>3. [l \in Lots |-> Spendable(l, t)] \in [1 .. NumLots -> Int]
  BY <1>2 DEF Lots
<1>4. QED
  BY <1>3, SumType, CountAssumption DEF BalanceAt

-----------------------------------------------------------------------------
(***************************************************************************)
(* Every reachable state is well typed.                                    *)
(***************************************************************************)
LEMMA TypeInit == Init => TypeOK
BY CountAssumption, LockAssumption DEF Init, TypeOK, NoLots, Labels

LEMMA LandType ==
  ASSUME TypeOK, NEW t \in Txs, Land(t)
  PROVE  /\ lots' \subseteq Lots
         /\ born' \in [Lots -> Nat]
         /\ spent' \in [Lots -> Nat]
         /\ forfeited' \in [Lots -> Nat]
         /\ rows' \subseteq Records \X Lots
         /\ drawn' \in [Records -> Nat]
         /\ late' \in [Lots -> Nat]
         /\ lock' \in Txs \cup {NoTx}
<1>1. draw[t] \in [Lots -> Nat] /\ RecordOf[t] \in Records
  BY RecordAssumption DEF TypeOK
<1>2. spent' \in [Lots -> Nat] /\ late' \in [Lots -> Nat]
  BY <1>1 DEF Land, TypeOK
<1>3. drawn' \in [Records -> Nat]
  BY <1>1, SumOfDraws DEF Land, TypeOK
<1>4. rows' \subseteq Records \X Lots
  BY <1>1 DEF Land, TypeOK
<1>5. QED
  BY <1>2, <1>3, <1>4 DEF Land, TypeOK

LEMMA TypeStep == TypeOK /\ [Next]_vars => TypeOK'
<1> SUFFICES ASSUME TypeOK, [Next]_vars PROVE TypeOK'
  OBVIOUS
<1> USE DEF TypeOK, Goto, ledger, txn
<1>1. CASE Tick
  BY <1>1, CountAssumption DEF Tick
<1>2. ASSUME NEW l \in Lots, Grant(l) PROVE TypeOK'
  BY <1>2 DEF Grant
<1>3. ASSUME NEW t \in Txs, Begin(t) PROVE TypeOK'
  BY <1>3 DEF Begin, Labels
<1>4. ASSUME NEW t \in Txs, CheckPrior(t) PROVE TypeOK'
  BY <1>4 DEF CheckPrior, Labels
<1>5. ASSUME NEW t \in Txs, LockAccount(t) PROVE TypeOK'
  BY <1>5 DEF LockAccount, Labels
<1>6. ASSUME NEW t \in Txs, ReadBalance(t) PROVE TypeOK'
  <2>1. LesserOf(Cost[RecordOf[t]], BalanceAt(began[t])) \in Int
    <3>1. BalanceAt(began[t]) \in Int
      BY BalanceType
    <3>2. QED
      BY <3>1, RecordAssumption DEF LesserOf
  <2>2. QED
    BY <1>6, <2>1 DEF ReadBalance, Labels
<1>7. ASSUME NEW t \in Txs, ReadLots(t) PROVE TypeOK'
  <2>1. \A l \in Lots : PositivePart(Remaining(l)) \in Nat
    BY LotAssumption DEF PositivePart, Remaining
  <2>2. view' \in [Txs -> [Lots -> Nat]]
    BY <1>7, <2>1 DEF ReadLots
  <2>3. QED
    BY <1>7, <2>2 DEF ReadLots, Labels
<1>8. ASSUME NEW t \in Txs, NEW l \in Lots, DrawLot(t, l) PROVE TypeOK'
  <2>1. /\ LesserOf(budget[t], view[t][l]) \in Nat
        /\ budget[t] - LesserOf(budget[t], view[t][l]) \in Int
    BY <1>8 DEF DrawLot, NextLot, LesserOf
  <2>2. /\ draw' \in [Txs -> [Lots -> Nat]]
        /\ budget' \in [Txs -> Int]
        /\ view' \in [Txs -> [Lots -> Nat]]
    BY <1>8, <2>1 DEF DrawLot
  <2>3. QED
    BY <1>8, <2>2 DEF DrawLot
<1>9. ASSUME NEW t \in Txs, NEW l \in Lots, DrawConflict(t, l) PROVE TypeOK'
  BY <1>9 DEF DrawConflict, Labels
<1>10. ASSUME NEW t \in Txs, Commit(t) PROVE TypeOK'
  <2>1. Land(t)
    BY <1>10 DEF Commit
  <2>2. pc' \in [Txs -> Labels]
    BY <1>10 DEF Commit, Labels
  <2>3. QED
    BY <1>10, <2>1, <2>2, LandType DEF Commit
<1>11. ASSUME NEW t \in Txs, CommitCutOff(t) PROVE TypeOK'
  BY <1>11 DEF CommitCutOff, Labels
<1>12. ASSUME NEW t \in Txs, CommitLands(t) PROVE TypeOK'
  <2>1. Land(t)
    BY <1>12 DEF CommitLands
  <2>2. pc' \in [Txs -> Labels]
    BY <1>12 DEF CommitLands, Labels
  <2>3. QED
    BY <1>12, <2>1, <2>2, LandType DEF CommitLands
<1>13. ASSUME NEW t \in Txs, Abort(t) PROVE TypeOK'
  BY <1>13 DEF Abort, Labels
<1>14. ASSUME NEW e \in Expirers, ExpireScan(e) PROVE TypeOK'
  <2>1. \A l \in Lots : PositivePart(Remaining(l)) \in Nat
    BY LotAssumption DEF PositivePart, Remaining
  <2>2. scan' \in [Expirers -> [Lots -> Nat]]
    BY <1>14, <2>1 DEF ExpireScan
  <2>3. QED
    BY <1>14, <2>2 DEF ExpireScan
<1>15. ASSUME NEW e \in Expirers, ExpireInsert(e) PROVE TypeOK'
  <2>1. /\ forfeited' \in [Lots -> Nat]
        /\ scan' \in [Expirers -> [Lots -> Nat]]
    BY <1>15 DEF ExpireInsert, NoLots
  <2>2. QED
    BY <1>15, <2>1 DEF ExpireInsert
<1>16. ASSUME NEW e \in Expirers, ExpireFails(e) PROVE TypeOK'
  BY <1>16 DEF ExpireFails, NoLots
<1>17. CASE UNCHANGED vars
  BY <1>17 DEF vars
<1>18. QED
  BY <1>1, <1>2, <1>3, <1>4, <1>5, <1>6, <1>7, <1>8, <1>9, <1>10, <1>11,
     <1>12, <1>13, <1>14, <1>15, <1>16, <1>17
     DEF Next, TxStep, ExpireStep

THEOREM LedgerTypeOK == Spec => []TypeOK
<1>1. QED
  BY TypeInit, TypeStep, PTL DEF Spec

-----------------------------------------------------------------------------
(***************************************************************************)
(* The inductive invariant behind the two safety properties.               *)
(***************************************************************************)
Holding == {"balance", "lots", "draw", "inflight"}

\* Exactly the attempts between the account lock and the commit hold it.
LockHeld == \A t \in Txs : pc[t] \in Holding <=> lock = t

\* Nothing is drawn before the loop.
NothingDrawnYet ==
  \A t \in Txs, l \in Lots :
    pc[t] \in {"idle", "check", "lock", "balance", "lots"} =>
      draw[t][l] = 0 /\ view[t][l] = 0

\* What the lock holder has drawn and may still draw fits in each lot.
DrawsFit ==
  \A t \in Txs, l \in Lots :
    pc[t] \in {"draw", "inflight"} =>
      spent[l] + draw[t][l] + view[t][l] <= Amount[l]

\* Only lapsed lots are forfeited, and never more than what was not drawn
\* before they lapsed.
ForfeitsFit ==
  \A l \in Lots :
    /\ forfeited[l] > 0 => Expiry[l] <= now
    /\ forfeited[l] <= Amount[l] - spent[l] + late[l]
    /\ \A e \in Expirers :
         /\ scan[e][l] > 0 => Expiry[l] <= now
         /\ scan[e][l] <= Amount[l] - spent[l] + late[l]

LedgerInv ==
  /\ TypeOK
  /\ LockHeld
  /\ NothingDrawnYet
  /\ DrawsFit
  /\ LotNeverOverspent
  /\ ForfeitsFit

LEMMA InvInit == Init => LedgerInv
<1> SUFFICES ASSUME Init PROVE LedgerInv
  OBVIOUS
<1>1. TypeOK
  BY TypeInit
<1>2. LockHeld
  BY LockAssumption DEF Init, LockHeld, Holding
<1>3. NothingDrawnYet /\ DrawsFit /\ LotNeverOverspent /\ ForfeitsFit
  BY LotAssumption, CountAssumption
     DEF Init, NoLots, NothingDrawnYet, DrawsFit, LotNeverOverspent, ForfeitsFit
<1>4. QED
  BY <1>1, <1>2, <1>3 DEF LedgerInv

\* Committing the lock holder's draws keeps every lot within its amount.
LEMMA LandKeepsLots ==
  ASSUME LedgerInv, NEW t \in Txs, Land(t), pc[t] \in {"draw", "inflight"},
         UNCHANGED <<now, txn, scan>>
  PROVE  LotNeverOverspent' /\ ForfeitsFit'
<1> USE DEF LedgerInv, TypeOK, Land, txn
<1>1. ASSUME NEW l \in Lots PROVE spent'[l] <= Amount[l]
  BY <1>1, LotAssumption DEF DrawsFit
<1>2. ASSUME NEW l \in Lots
      PROVE  /\ forfeited'[l] > 0 => Expiry[l] <= now'
             /\ forfeited'[l] <= Amount[l] - spent'[l] + late'[l]
             /\ \A e \in Expirers :
                  /\ scan'[e][l] > 0 => Expiry[l] <= now'
                  /\ scan'[e][l] <= Amount[l] - spent'[l] + late'[l]
  <2>1. /\ spent'[l] = spent[l] + draw[t][l]
        /\ late'[l] = late[l] + (IF Expiry[l] <= now THEN draw[t][l] ELSE 0)
    OBVIOUS
  <2>2. Amount[l] \in Nat /\ Expiry[l] \in Int
    BY LotAssumption, CountAssumption DEF Never
  <2>3. CASE Expiry[l] <= now
    BY <2>1, <2>2, <2>3 DEF ForfeitsFit
  <2>4. CASE ~ (Expiry[l] <= now)
    <3>1. forfeited[l] = 0 /\ \A e \in Expirers : scan[e][l] = 0
      BY <2>4 DEF ForfeitsFit
    <3>2. spent'[l] <= Amount[l]
      BY <1>1
    <3>3. QED
      BY <2>1, <2>2, <2>4, <3>1, <3>2
  <2>5. QED
    BY <2>3, <2>4
<1>3. QED
  BY <1>1, <1>2 DEF LotNeverOverspent, ForfeitsFit

\* A step that leaves the ledger, the lots read and the draws alone.
LEMMA QuietStep ==
  ASSUME LedgerInv, UNCHANGED <<spent, forfeited, late, scan>>, now' >= now, now' \in Int
  PROVE  LotNeverOverspent' /\ ForfeitsFit'
<1>1. \A l \in Lots : Expiry[l] \in Int
  BY LotAssumption, CountAssumption DEF Never
<1>2. QED
  BY <1>1 DEF LedgerInv, TypeOK, LotNeverOverspent, ForfeitsFit

LEMMA InvStep == LedgerInv /\ [Next]_vars => LedgerInv'
<1> SUFFICES ASSUME LedgerInv, [Next]_vars PROVE LedgerInv'
  OBVIOUS
<1>0. TypeOK'
  BY TypeStep DEF LedgerInv
<1> DEFINE Rest == (LockHeld /\ NothingDrawnYet /\ DrawsFit /\ LotNeverOverspent /\ ForfeitsFit)'
<1> USE DEF LedgerInv, Goto, ledger, txn
<1>1. CASE Tick
  <2>1. LotNeverOverspent' /\ ForfeitsFit'
    BY <1>1, QuietStep DEF Tick, TypeOK
  <2>2. QED
    BY <1>0, <1>1, <2>1 DEF Tick, LockHeld, NothingDrawnYet, DrawsFit
<1>2. ASSUME NEW l \in Lots, Grant(l) PROVE Rest
  <2>1. LotNeverOverspent' /\ ForfeitsFit'
    BY <1>2, QuietStep DEF Grant, TypeOK
  <2>2. QED
    BY <1>2, <2>1 DEF Grant, LockHeld, NothingDrawnYet, DrawsFit
<1>3. ASSUME NEW t \in Txs, Begin(t) \/ CheckPrior(t) PROVE Rest
  <2>0. UNCHANGED <<now, spent, forfeited, late, scan>>
    BY <1>3 DEF Begin, CheckPrior
  <2>1. LotNeverOverspent' /\ ForfeitsFit'
    BY <2>0, QuietStep DEF TypeOK
  <2>2. LockHeld'
    BY <1>3 DEF Begin, CheckPrior, LockHeld, Holding, TypeOK
  <2>3. NothingDrawnYet' /\ DrawsFit'
    <3>1. /\ UNCHANGED <<spent, draw, view>>
          /\ pc[t] \in {"idle", "check"}
          /\ pc' \in {[pc EXCEPT ![t] = a] : a \in {"check", "done", "lock"}}
      BY <1>3 DEF Begin, CheckPrior
    <3>2. QED
      BY <3>1 DEF NothingDrawnYet, DrawsFit, TypeOK
  <2>4. QED
    BY <2>1, <2>2, <2>3
<1>4. ASSUME NEW t \in Txs, LockAccount(t) PROVE Rest
  <2>1. LotNeverOverspent' /\ ForfeitsFit'
    BY <1>4, QuietStep DEF LockAccount, TypeOK
  <2>2. LockHeld'
    BY <1>4, LockAssumption DEF LockAccount, LockHeld, Holding, TypeOK
  <2>3. NothingDrawnYet' /\ DrawsFit'
    BY <1>4 DEF LockAccount, NothingDrawnYet, DrawsFit, TypeOK
  <2>4. QED
    BY <2>1, <2>2, <2>3
<1>5. ASSUME NEW t \in Txs, ReadBalance(t) PROVE Rest
  <2>1. LotNeverOverspent' /\ ForfeitsFit'
    BY <1>5, QuietStep DEF ReadBalance, TypeOK
  <2>2. LockHeld'
    BY <1>5 DEF ReadBalance, LockHeld, Holding, TypeOK
  <2>3. NothingDrawnYet' /\ DrawsFit'
    BY <1>5 DEF ReadBalance, NothingDrawnYet, DrawsFit, TypeOK
  <2>4. QED
    BY <2>1, <2>2, <2>3
<1>6. ASSUME NEW t \in Txs, ReadLots(t) PROVE Rest
  <2>1. LotNeverOverspent' /\ ForfeitsFit'
    BY <1>6, QuietStep DEF ReadLots, TypeOK
  <2>2. LockHeld'
    BY <1>6 DEF ReadLots, LockHeld, Holding, TypeOK
  <2>3. NothingDrawnYet'
    BY <1>6 DEF ReadLots, NothingDrawnYet, TypeOK
  <2>4. ASSUME NEW u \in Txs, NEW l \in Lots, pc'[u] \in {"draw", "inflight"}
        PROVE  spent'[l] + draw'[u][l] + view'[u][l] <= Amount[l]
    <3>1. CASE u = t
      <4>1. draw[t][l] = 0
        BY <1>6 DEF ReadLots, NothingDrawnYet
      <4>2. /\ view'[t][l] = IF l \in lots /\ Expiry[l] > began[t]
                              THEN PositivePart(Remaining(l)) ELSE 0
            /\ spent' = spent /\ draw' = draw
        BY <1>6 DEF ReadLots, TypeOK
      <4>3. spent[l] <= Amount[l] /\ spent[l] \in Nat /\ forfeited[l] \in Nat
        BY DEF LotNeverOverspent, TypeOK
      <4>4. QED
        BY <3>1, <4>1, <4>2, <4>3, LotAssumption DEF PositivePart, Remaining
    <3>2. CASE u # t
      <4>1. pc[u] \in {"draw", "inflight"} /\ view'[u] = view[u]
        BY <1>6, <2>4, <3>2 DEF ReadLots, TypeOK
      <4>2. QED
        BY <1>6, <4>1 DEF ReadLots, DrawsFit
    <3>3. QED
      BY <3>1, <3>2
  <2>5. QED
    BY <2>1, <2>2, <2>3, <2>4 DEF DrawsFit
<1>7. ASSUME NEW t \in Txs, NEW l \in Lots, DrawLot(t, l) PROVE Rest
  <2>1. LotNeverOverspent' /\ ForfeitsFit'
    BY <1>7, QuietStep DEF DrawLot, TypeOK
  <2>2. LockHeld' /\ NothingDrawnYet'
    BY <1>7 DEF DrawLot, LockHeld, NothingDrawnYet, TypeOK
  <2>3. ASSUME NEW u \in Txs, NEW k \in Lots, pc'[u] \in {"draw", "inflight"}
        PROVE  spent'[k] + draw'[u][k] + view'[u][k] <= Amount[k]
    <3>1. /\ spent[k] + draw[u][k] + view[u][k] <= Amount[k]
          /\ spent'[k] = spent[k]
      BY <1>7, <2>3 DEF DrawLot, DrawsFit
    <3>2. CASE u = t /\ k = l
      <4>1. /\ draw'[u][k] = LesserOf(budget[t], view[t][l])
            /\ view'[u][k] = 0
        BY <1>7, <3>2 DEF DrawLot, TypeOK
      <4>2. QED
        BY <3>1, <3>2, <4>1, LotAssumption DEF LesserOf, TypeOK
    <3>3. CASE ~ (u = t /\ k = l)
      <4>1. draw'[u][k] = draw[u][k] /\ view'[u][k] = view[u][k]
        BY <1>7, <3>3 DEF DrawLot, TypeOK
      <4>2. QED
        BY <3>1, <4>1
    <3>4. QED
      BY <3>2, <3>3
  <2>4. QED
    BY <2>1, <2>2, <2>3 DEF DrawsFit
<1>8. ASSUME NEW t \in Txs, (\E l \in Lots : DrawConflict(t, l)) \/ Abort(t) PROVE Rest
  <2>0. UNCHANGED <<now, spent, forfeited, late, scan>>
    BY <1>8 DEF DrawConflict, Abort
  <2>1. LotNeverOverspent' /\ ForfeitsFit'
    BY <2>0, QuietStep DEF TypeOK
  <2>2. LockHeld'
    <3>1. CASE Abort(t)
      BY <3>1, LockAssumption DEF Abort, LockHeld, Holding, TypeOK
    <3>2. CASE \E l \in Lots : DrawConflict(t, l)
      BY <3>2, LockAssumption DEF DrawConflict, LockHeld, Holding, TypeOK
    <3>3. QED
      BY <1>8, <3>1, <3>2
  <2>3. NothingDrawnYet' /\ DrawsFit'
    BY <1>8 DEF DrawConflict, Abort, NothingDrawnYet, DrawsFit, TypeOK
  <2>4. QED
    BY <2>1, <2>2, <2>3
<1>9. ASSUME NEW t \in Txs, Commit(t) \/ CommitLands(t) PROVE Rest
  <2>1. /\ pc[t] \in {"draw", "inflight"}
        /\ Land(t)
        /\ UNCHANGED <<now, txn, scan>>
        /\ pc' = [pc EXCEPT ![t] = "done"] \/ pc' = [pc EXCEPT ![t] = "lost"]
    BY <1>9 DEF Commit, CommitLands
  <2>2. LotNeverOverspent' /\ ForfeitsFit'
    BY <2>1, LandKeepsLots
  <2>3. LockHeld'
    BY <2>1, LockAssumption DEF Land, LockHeld, Holding, TypeOK
  <2>4. \A u \in Txs : pc'[u] \notin {"draw", "inflight"}
    BY <2>1 DEF LockHeld, Holding, TypeOK
  <2>5. NothingDrawnYet' /\ DrawsFit'
    BY <2>1, <2>4 DEF NothingDrawnYet, DrawsFit, TypeOK
  <2>6. QED
    BY <2>2, <2>3, <2>5
<1>10. ASSUME NEW t \in Txs, CommitCutOff(t) PROVE Rest
  <2>1. LotNeverOverspent' /\ ForfeitsFit'
    BY <1>10, QuietStep DEF CommitCutOff, TypeOK
  <2>2. LockHeld' /\ NothingDrawnYet' /\ DrawsFit'
    BY <1>10 DEF CommitCutOff, LockHeld, Holding, NothingDrawnYet, DrawsFit, TypeOK
  <2>3. QED
    BY <2>1, <2>2
<1>11. ASSUME NEW e \in Expirers, ExpireStep(e) \/ ExpireFails(e) PROVE Rest
  <2>1. UNCHANGED <<now, spent, late, lock, pc, txn>>
    BY <1>11 DEF ExpireStep, ExpireScan, ExpireInsert, ExpireFails
  <2>2. LockHeld' /\ NothingDrawnYet' /\ DrawsFit' /\ LotNeverOverspent'
    BY <2>1 DEF LockHeld, NothingDrawnYet, DrawsFit, LotNeverOverspent
  <2>3. ASSUME NEW l \in Lots
        PROVE  /\ forfeited'[l] > 0 => Expiry[l] <= now
               /\ forfeited'[l] <= Amount[l] - spent[l] + late[l]
               /\ \A f \in Expirers :
                    /\ scan'[f][l] > 0 => Expiry[l] <= now
                    /\ scan'[f][l] <= Amount[l] - spent[l] + late[l]
    <3>1. /\ spent[l] \in Nat /\ late[l] \in Nat /\ forfeited[l] \in Nat
          /\ spent[l] <= Amount[l] /\ Amount[l] \in Nat
      BY LotAssumption DEF LotNeverOverspent, TypeOK
    <3>2. CASE ExpireScan(e)
      <4>1. /\ scan' = [scan EXCEPT ![e] = [k \in Lots |->
                  IF Lapsed(k) THEN PositivePart(Remaining(k)) ELSE 0]]
            /\ forfeited' = forfeited
        BY <3>2 DEF ExpireScan
      <4>2. ASSUME NEW f \in Expirers
            PROVE  /\ scan'[f][l] > 0 => Expiry[l] <= now
                   /\ scan'[f][l] <= Amount[l] - spent[l] + late[l]
        <5>1. CASE f = e
          <6>1. scan'[f][l] = IF Lapsed(l) THEN PositivePart(Remaining(l)) ELSE 0
            BY <4>1, <5>1 DEF TypeOK
          <6>2. QED
            BY <3>1, <6>1 DEF Lapsed, PositivePart, Remaining
        <5>2. CASE f # e
          BY <4>1, <5>2 DEF ForfeitsFit, TypeOK
        <5>3. QED
          BY <5>1, <5>2
      <4>3. QED
        BY <4>1, <4>2 DEF ForfeitsFit
    <3>3. CASE ExpireInsert(e)
      <4>1. /\ forfeited'[l] = IF forfeited[l] = 0 THEN scan[e][l] ELSE forfeited[l]
            /\ \A f \in Expirers : scan'[f][l] = IF f = e THEN 0 ELSE scan[f][l]
        BY <3>3 DEF ExpireInsert, NoLots, TypeOK
      <4>2. QED
        BY <3>1, <4>1 DEF ForfeitsFit
    <3>4. CASE ExpireFails(e)
      <4>1. /\ forfeited' = forfeited
            /\ \A f \in Expirers : scan'[f][l] = IF f = e THEN 0 ELSE scan[f][l]
        BY <3>4 DEF ExpireFails, NoLots, TypeOK
      <4>2. QED
        BY <3>1, <4>1 DEF ForfeitsFit
    <3>5. QED
      BY <1>11, <3>2, <3>3, <3>4 DEF ExpireStep
  <2>4. ForfeitsFit'
    BY <2>1, <2>3 DEF ForfeitsFit
  <2>5. QED
    BY <2>2, <2>4
<1>12. CASE UNCHANGED vars
  <2>1. Rest
    BY <1>12 DEF vars, LockHeld, NothingDrawnYet, DrawsFit, LotNeverOverspent, ForfeitsFit
  <2>2. QED
    BY <1>0, <2>1
<1>13. QED
  BY <1>0, <1>1, <1>2, <1>3, <1>4, <1>5, <1>6, <1>7, <1>8, <1>9, <1>10, <1>11, <1>12
     DEF Next, TxStep

LEMMA InvAlways == Spec => []LedgerInv
<1>1. QED
  BY InvInit, InvStep, PTL DEF Spec

(***************************************************************************)
(* However many collectors, replicas and retries run, no lot is drawn      *)
(* beyond its amount.                                                      *)
(***************************************************************************)
THEOREM LotsNeverOverspent == Spec => []LotNeverOverspent
<1>1. LedgerInv => LotNeverOverspent
  BY DEF LedgerInv
<1>2. QED
  BY <1>1, InvAlways, PTL

(***************************************************************************)
(* A lot can only be overdrawn by draws that were open when it lapsed.     *)
(***************************************************************************)
THEOREM OverdrawnOnlyLate == Spec => []OverdrawnOnlyByLateDraws
<1>1. LedgerInv => OverdrawnOnlyByLateDraws
  BY LotAssumption
     DEF LedgerInv, TypeOK, ForfeitsFit, OverdrawnOnlyByLateDraws, Remaining
<1>2. QED
  BY <1>1, InvAlways, PTL

-----------------------------------------------------------------------------
(***************************************************************************)
(* An account whose credit never lapses.                                   *)
(***************************************************************************)
NeverLapses == \A l \in Lots : Expiry[l] = Never

\* Only draws on a lapsed lot are late.
LateIsLapsed == \A l \in Lots : late[l] > 0 => Expiry[l] <= now

LateInv == TypeOK /\ LateIsLapsed

LEMMA LateStep == LateInv /\ [Next]_vars => LateInv'
<1> SUFFICES ASSUME LateInv, [Next]_vars PROVE LateInv'
  OBVIOUS
<1>1. TypeOK'
  BY TypeStep DEF LateInv
<1>2. \A l \in Lots : Expiry[l] \in Int
  BY LotAssumption, CountAssumption DEF Never
<1>3. ASSUME NEW t \in Txs, Land(t), now' = now PROVE LateIsLapsed'
  BY <1>2, <1>3 DEF Land, LateInv, LateIsLapsed, TypeOK
<1>4. ASSUME late' = late, now' = now \/ now' = now + 1 PROVE LateIsLapsed'
  BY <1>2, <1>4 DEF LateInv, LateIsLapsed, TypeOK
<1>5. \/ \E t \in Txs : Land(t) /\ now' = now
      \/ late' = late /\ (now' = now \/ now' = now + 1)
  BY DEF Next, TxStep, ExpireStep, vars, ledger, txn, Tick, Grant, Begin, CheckPrior,
         LockAccount, ReadBalance, ReadLots, DrawLot, DrawConflict, Commit, CommitCutOff,
         CommitLands, Abort, ExpireScan, ExpireInsert, ExpireFails
<1>6. LateIsLapsed'
  BY <1>3, <1>4, <1>5
<1>7. QED
  BY <1>1, <1>6 DEF LateInv

LEMMA LateAlways == Spec => []LateInv
<1>1. Init => LateInv
  BY TypeInit DEF Init, NoLots, LateInv, LateIsLapsed
<1>2. QED
  BY <1>1, LateStep, PTL DEF Spec

(***************************************************************************)
(* Credit that never lapses - every purchase - is never overspent: the     *)
(* balance of such an account cannot go negative.                          *)
(***************************************************************************)
THEOREM PrepaidNeverNegative ==
  ASSUME NeverLapses
  PROVE  Spec => []BalanceNeverNegative
<1>1. LedgerInv /\ LateInv => BalanceNeverNegative
  <2> SUFFICES ASSUME LedgerInv, LateInv PROVE Balance >= 0
    BY DEF BalanceNeverNegative
  <2>1. ASSUME NEW l \in Lots
        PROVE  Spendable(l, now) \in Int /\ Spendable(l, now) >= 0
    <3>1. late[l] = 0
      BY NeverLapses, CountAssumption DEF NeverLapses, LateInv, LateIsLapsed, TypeOK, Never
    <3>2. Remaining(l) \in Int /\ Remaining(l) >= 0
      BY <3>1, LotAssumption DEF LedgerInv, ForfeitsFit, TypeOK, Remaining
    <3>3. QED
      BY <3>2 DEF Spendable, PositivePart
  <2> DEFINE f == [l \in Lots |-> Spendable(l, now)]
  <2>2. f \in [1 .. NumLots -> Int] /\ \A l \in 1 .. NumLots : f[l] >= 0
    BY <2>1 DEF Lots
  <2> HIDE DEF f
  <2>3. SumTo(f, NumLots) >= 0
    BY <2>2, SumNonNegative, CountAssumption
  <2>4. QED
    BY <2>3 DEF f, Balance, BalanceAt
<1>2. QED
  BY <1>1, InvAlways, LateAlways, PTL

-----------------------------------------------------------------------------
(***************************************************************************)
(* Retries whose predecessor has really ended never charge a record twice. *)
(***************************************************************************)
Live == {"check", "lock", "balance", "lots", "draw"}

\* One attempt per record is under way, the others have failed.
OneAttempt ==
  \A t, u \in Txs :
    t # u /\ RecordOf[t] = RecordOf[u] /\ pc[t] \in Live
      => pc[u] \in {"idle", "aborted", "lost"}

\* Past the idempotency check, the attempt's record has no rows.
StillUndrawn ==
  \A t \in Txs : pc[t] \in {"lock", "balance", "lots", "draw"} => ~ AlreadyDrawn(RecordOf[t])

UndrawnIsUnpaid == \A r \in Records : ~ AlreadyDrawn(r) => drawn[r] = 0

DrawWithinCost ==
  \A t \in Txs :
    /\ pc[t] \in {"idle", "check", "lock", "balance", "lots"} => draw[t] = NoLots
    /\ pc[t] \in {"lots", "draw"} => budget[t] <= Cost[RecordOf[t]]
    /\ pc[t] = "draw" =>
         SumTo(draw[t], NumLots) + PositivePart(budget[t]) <= Cost[RecordOf[t]]

RetryInv ==
  /\ TypeOK
  /\ \A t \in Txs : pc[t] # "inflight"
  /\ OneAttempt
  /\ StillUndrawn
  /\ UndrawnIsUnpaid
  /\ DrawWithinCost
  /\ DrawnAtMostCost

LEMMA NoLotsSum == NoLots \in [Lots -> Nat] /\ SumTo(NoLots, NumLots) = 0
<1>1. NoLots \in [1 .. NumLots -> Int] /\ \A i \in 1 .. NumLots : NoLots[i] = 0
  BY DEF NoLots, Lots
<1>2. QED
  BY <1>1, SumZero, CountAssumption DEF NoLots

LEMMA RetryInit == Init => RetryInv
<1> SUFFICES ASSUME Init PROVE RetryInv
  OBVIOUS
<1>1. TypeOK
  BY TypeInit
<1>2. QED
  BY <1>1, RecordAssumption
     DEF Init, RetryInv, OneAttempt, StillUndrawn, UndrawnIsUnpaid, DrawWithinCost,
         DrawnAtMostCost, Live

\* A step of attempt t that leaves the rows and other attempts alone.
LEMMA RetryMove ==
  ASSUME RetryInv, NEW t \in Txs, NEW a \in Labels, pc' = [pc EXCEPT ![t] = a],
         UNCHANGED <<rows, drawn>>,
         pc[t] \in Live \/ \A u \in Txs : RecordOf[u] = RecordOf[t] => CallerGaveUpOn(u),
         a \in Live \cup {"done", "aborted"},
         a \in {"lock", "balance", "lots", "draw"} =>
           pc[t] \in {"lock", "balance", "lots", "draw"} \/ ~ AlreadyDrawn(RecordOf[t])
  PROVE  /\ \A u \in Txs : pc'[u] # "inflight"
         /\ OneAttempt'
         /\ StillUndrawn'
         /\ UndrawnIsUnpaid'
         /\ DrawnAtMostCost'
<1> USE DEF RetryInv
<1>1. \A u \in Txs : pc'[u] # "inflight"
  BY DEF TypeOK, Live
<1>2. OneAttempt'
  <2>1. \A u \in Txs : u # t /\ RecordOf[u] = RecordOf[t] =>
          pc[u] \in {"idle", "aborted", "lost"}
    BY DEF OneAttempt, CallerGaveUpOn, TypeOK, Live
  <2>2. \A u \in Txs : pc'[u] = IF u = t THEN a ELSE pc[u]
    BY DEF TypeOK
  <2>3. ASSUME NEW u \in Txs, NEW w \in Txs, u # w, RecordOf[u] = RecordOf[w],
               pc'[u] \in Live
        PROVE  pc'[w] \in {"idle", "aborted", "lost"}
    <3>1. CASE u = t
      BY <2>1, <2>2, <2>3, <3>1
    <3>2. CASE w = t
      BY <2>1, <2>2, <2>3, <3>2 DEF Live
    <3>3. CASE u # t /\ w # t
      BY <2>2, <2>3, <3>3 DEF OneAttempt
    <3>4. QED
      BY <3>1, <3>2, <3>3
  <2>4. QED
    BY <2>3 DEF OneAttempt
<1>3. StillUndrawn'
  BY DEF StillUndrawn, AlreadyDrawn, TypeOK
<1>4. UndrawnIsUnpaid' /\ DrawnAtMostCost'
  BY DEF UndrawnIsUnpaid, DrawnAtMostCost, AlreadyDrawn
<1>5. QED
  BY <1>1, <1>2, <1>3, <1>4

\* Committing: the record had no rows, and its draws fit its cost.
LEMMA RetryLand ==
  ASSUME RetryInv, NEW t \in Txs, pc[t] = "draw", Land(t), UNCHANGED txn,
         NEW a \in {"done", "lost"}, pc' = [pc EXCEPT ![t] = a], TypeOK'
  PROVE  RetryInv'
<1> DEFINE r == RecordOf[t]
           total == SumTo(draw[t], NumLots)
<1>1. r \in Records /\ draw[t] \in [Lots -> Nat] /\ Cost[r] \in Nat
  BY RecordAssumption DEF RetryInv, TypeOK
<1>2. total \in Nat /\ \A l \in Lots : draw[t][l] <= total
  BY <1>1, SumOfDraws
<1>3. total <= Cost[r]
  <2>1. total + PositivePart(budget[t]) <= Cost[r]
    BY DEF RetryInv, DrawWithinCost
  <2>2. budget[t] \in Int
    BY DEF RetryInv, TypeOK
  <2> HIDE DEF total
  <2>3. QED
    BY <1>1, <1>2, <2>1, <2>2 DEF PositivePart
<1>4. drawn[r] = 0 /\ ~ AlreadyDrawn(r)
  BY <1>1 DEF RetryInv, StillUndrawn, UndrawnIsUnpaid
<1>5. \A q \in Records : drawn'[q] = IF q = r THEN total ELSE drawn[q]
  BY <1>1, <1>2, <1>4 DEF Land, RetryInv, TypeOK
<1>6. rows' = rows \cup {<<r, l>> : l \in {k \in Lots : draw[t][k] > 0}}
  BY DEF Land
<1>7. \A q \in Records : q # r => (AlreadyDrawn(q)' <=> AlreadyDrawn(q))
  BY <1>6 DEF AlreadyDrawn
<1>8. DrawnAtMostCost'
  BY <1>3, <1>5 DEF DrawnAtMostCost, RetryInv
<1>9. \A u \in Txs : pc'[u] = IF u = t THEN a ELSE pc[u]
  BY DEF RetryInv, TypeOK
<1>10. OneAttempt' /\ \A u \in Txs : pc'[u] # "inflight"
  BY <1>9 DEF RetryInv, OneAttempt, Live
<1>11. StillUndrawn'
  <2>1. ASSUME NEW u \in Txs, pc'[u] \in {"lock", "balance", "lots", "draw"}
        PROVE  ~ AlreadyDrawn(RecordOf[u])'
    <3>1. u # t /\ pc[u] \in {"lock", "balance", "lots", "draw"}
      BY <1>9, <2>1
    <3>2. RecordOf[u] # r
      BY <3>1 DEF RetryInv, OneAttempt, Live
    <3>3. RecordOf[u] \in Records /\ ~ AlreadyDrawn(RecordOf[u])
      BY <3>1, RecordAssumption DEF RetryInv, StillUndrawn
    <3>4. QED
      BY <1>7, <3>2, <3>3
  <2>2. QED
    BY <2>1 DEF StillUndrawn
<1>12. UndrawnIsUnpaid'
  <2>1. ASSUME NEW q \in Records, ~ AlreadyDrawn(q)' PROVE drawn'[q] = 0
    <3>1. CASE q # r
      BY <1>5, <1>7, <2>1, <3>1 DEF RetryInv, UndrawnIsUnpaid
    <3>2. CASE q = r
      <4>1. \A l \in Lots : draw[t][l] = 0
        BY <1>1, <1>6, <2>1, <3>2 DEF AlreadyDrawn
      <4>2. draw[t] \in [1 .. NumLots -> Int] /\ \A i \in 1 .. NumLots : draw[t][i] = 0
        BY <1>1, <4>1 DEF Lots
      <4>3. total = 0
        BY <4>2, SumZero, CountAssumption
      <4>4. QED
        BY <1>5, <3>2, <4>3
    <3>3. QED
      BY <3>1, <3>2
  <2>2. QED
    BY <2>1 DEF UndrawnIsUnpaid
<1>13. DrawWithinCost'
  BY <1>9 DEF RetryInv, DrawWithinCost, txn
<1>14. QED
  BY <1>8, <1>10, <1>11, <1>12, <1>13 DEF RetryInv

LEMMA RetryStep == ~ SlowCommit /\ RetryInv /\ [Next]_vars => RetryInv'
<1> SUFFICES ASSUME ~ SlowCommit, RetryInv, [Next]_vars PROVE RetryInv'
  OBVIOUS
<1>0. TypeOK' /\ TypeOK
  BY TypeStep DEF RetryInv
<1>1. ASSUME UNCHANGED <<rows, drawn, pc, budget, draw>> PROVE RetryInv'
  BY <1>0, <1>1 DEF RetryInv, OneAttempt, StillUndrawn, UndrawnIsUnpaid, DrawWithinCost,
                    DrawnAtMostCost, AlreadyDrawn
<1>2. ASSUME NEW t \in Txs,
             \/ Begin(t) \/ CheckPrior(t) \/ LockAccount(t)
             \/ (\E l \in Lots : DrawConflict(t, l)) \/ Abort(t)
      PROVE  RetryInv'
  <2>1. UNCHANGED <<rows, drawn, budget, draw>>
    BY <1>2 DEF Begin, CheckPrior, LockAccount, DrawConflict, Abort, ledger, txn
  <2>2. PICK a \in {"check", "lock", "balance", "done", "aborted"} :
          /\ pc' = [pc EXCEPT ![t] = a]
          /\ pc[t] \in Live \/ \A u \in Txs : RecordOf[u] = RecordOf[t] => CallerGaveUpOn(u)
          /\ a \in {"lock", "balance"} => pc[t] = "lock" \/ ~ AlreadyDrawn(RecordOf[t])
          /\ a \in {"check", "lock", "balance"} => pc[t] \in {"idle", "check", "lock"}
    BY <1>2 DEF Begin, CheckPrior, LockAccount, DrawConflict, Abort, Goto, Live
  <2>3. /\ \A u \in Txs : pc'[u] # "inflight"
        /\ OneAttempt' /\ StillUndrawn' /\ UndrawnIsUnpaid' /\ DrawnAtMostCost'
    BY <2>1, <2>2, RetryMove DEF Labels, Live
  <2>4. DrawWithinCost'
    BY <1>0, <2>1, <2>2 DEF RetryInv, DrawWithinCost, TypeOK
  <2>5. QED
    BY <1>0, <2>3, <2>4 DEF RetryInv
<1>3. ASSUME NEW t \in Txs, ReadBalance(t) PROVE RetryInv'
  <2>1. /\ UNCHANGED <<rows, drawn, draw>>
        /\ pc[t] = "balance" /\ pc' = [pc EXCEPT ![t] = "lots"]
        /\ budget' = [budget EXCEPT ![t] = LesserOf(Cost[RecordOf[t]], BalanceAt(began[t]))]
    BY <1>3 DEF ReadBalance, Goto, ledger
  <2>2. /\ \A u \in Txs : pc'[u] # "inflight"
        /\ OneAttempt' /\ StillUndrawn' /\ UndrawnIsUnpaid' /\ DrawnAtMostCost'
    BY <2>1, RetryMove DEF Labels, Live
  <2>3. LesserOf(Cost[RecordOf[t]], BalanceAt(began[t])) <= Cost[RecordOf[t]]
    <3>1. BalanceAt(began[t]) \in Int /\ Cost[RecordOf[t]] \in Int
      BY <1>0, BalanceType, RecordAssumption DEF TypeOK
    <3>2. QED
      BY <3>1 DEF LesserOf
  <2>4. DrawWithinCost'
    BY <1>0, <2>1, <2>3 DEF RetryInv, DrawWithinCost, TypeOK
  <2>5. QED
    BY <1>0, <2>2, <2>4 DEF RetryInv
<1>4. ASSUME NEW t \in Txs, ReadLots(t) PROVE RetryInv'
  <2>1. /\ UNCHANGED <<rows, drawn, draw, budget>>
        /\ pc[t] = "lots" /\ pc' = [pc EXCEPT ![t] = "draw"]
    BY <1>4 DEF ReadLots, Goto, ledger
  <2>2. /\ \A u \in Txs : pc'[u] # "inflight"
        /\ OneAttempt' /\ StillUndrawn' /\ UndrawnIsUnpaid' /\ DrawnAtMostCost'
    BY <2>1, RetryMove DEF Labels, Live
  <2>3. SumTo(draw[t], NumLots) + PositivePart(budget[t]) <= Cost[RecordOf[t]]
    <3>1. SumTo(draw[t], NumLots) = 0
      BY <2>1, NoLotsSum DEF RetryInv, DrawWithinCost
    <3>2. budget[t] <= Cost[RecordOf[t]] /\ budget[t] \in Int /\ Cost[RecordOf[t]] \in Nat
      BY <1>0, <2>1, RecordAssumption DEF RetryInv, DrawWithinCost, TypeOK
    <3>3. QED
      BY <3>1, <3>2 DEF PositivePart
  <2>4. DrawWithinCost'
    <3>1. \A u \in Txs : pc'[u] = IF u = t THEN "draw" ELSE pc[u]
      BY <1>0, <2>1 DEF TypeOK
    <3>2. QED
      BY <2>1, <2>3, <3>1 DEF RetryInv, DrawWithinCost
  <2>5. QED
    BY <1>0, <2>2, <2>4 DEF RetryInv
<1>5. ASSUME NEW t \in Txs, NEW l \in Lots, DrawLot(t, l) PROVE RetryInv'
  <2> DEFINE take == LesserOf(budget[t], view[t][l])
  <2>1. /\ UNCHANGED <<rows, drawn, pc>>
        /\ pc[t] = "draw" /\ budget[t] > 0
        /\ draw' = [draw EXCEPT ![t] = [draw[t] EXCEPT ![l] = take]]
        /\ budget' = [budget EXCEPT ![t] = budget[t] - take]
    BY <1>5 DEF DrawLot, ledger
  <2>2. /\ budget[t] \in Int /\ take \in Int /\ take <= budget[t]
        /\ draw[t] \in [1 .. NumLots -> Int] /\ draw[t][l] \in Nat
        /\ Cost[RecordOf[t]] \in Nat
    <3>1. /\ budget[t] \in Int /\ view[t][l] \in Int /\ RecordOf[t] \in Records
          /\ draw[t] \in [Lots -> Nat]
      BY <1>0, RecordAssumption DEF TypeOK
    <3>2. draw[t] \in [1 .. NumLots -> Int] /\ draw[t][l] \in Nat
      <4>1. draw[t][l] \in Nat
        BY <3>1
      <4>2. draw[t] \in [Lots -> Int]
        BY <3>1
      <4>3. QED
        BY <4>1, <4>2 DEF Lots
    <3>3. take \in Int /\ take <= budget[t]
      BY <3>1 DEF LesserOf
    <3>4. QED
      BY <3>1, <3>2, <3>3, RecordAssumption
  <2>3. SumTo([draw[t] EXCEPT ![l] = take], NumLots)
          = SumTo(draw[t], NumLots) - draw[t][l] + take
    BY <2>2, SumUpdate, CountAssumption DEF Lots
  <2>4. SumTo(draw[t], NumLots) \in Int
    BY <2>2, SumType, CountAssumption
  <2>5. SumTo(draw[t], NumLots) + PositivePart(budget[t]) <= Cost[RecordOf[t]]
    BY <2>1 DEF RetryInv, DrawWithinCost
  <2>6. SumTo([draw[t] EXCEPT ![l] = take], NumLots) + PositivePart(budget[t] - take)
          <= Cost[RecordOf[t]]
    <3> HIDE DEF take
    <3>1. QED
      BY <2>1, <2>2, <2>3, <2>4, <2>5 DEF PositivePart
  <2>7. budget[t] - take <= Cost[RecordOf[t]]
    <3>1. take >= 0
      BY <1>5, <2>1, <1>0 DEF DrawLot, NextLot, LesserOf, TypeOK
    <3>2. budget[t] <= Cost[RecordOf[t]]
      BY <2>1 DEF RetryInv, DrawWithinCost
    <3>3. QED
      BY <2>2, <3>1, <3>2
  <2>8. DrawWithinCost'
    <3> HIDE DEF take
    <3>1. \A u \in Txs :
            /\ draw'[u] = IF u = t THEN [draw[t] EXCEPT ![l] = take] ELSE draw[u]
            /\ budget'[u] = IF u = t THEN budget[t] - take ELSE budget[u]
      BY <1>0, <2>1 DEF TypeOK
    <3>2. QED
      BY <2>1, <2>6, <2>7, <3>1 DEF RetryInv, DrawWithinCost
  <2>9. QED
    BY <1>0, <2>1, <2>8
       DEF RetryInv, OneAttempt, StillUndrawn, UndrawnIsUnpaid, DrawnAtMostCost, AlreadyDrawn
<1>6. ASSUME NEW t \in Txs, Commit(t) PROVE RetryInv'
  <2>1. PICK a \in {"done", "lost"} : pc' = [pc EXCEPT ![t] = a]
    BY <1>6 DEF Commit, Goto
  <2>2. pc[t] = "draw" /\ Land(t) /\ UNCHANGED txn
    BY <1>6 DEF Commit
  <2>3. QED
    BY <1>0, <2>1, <2>2, RetryLand
<1>7. ASSUME NEW t \in Txs, CommitCutOff(t) \/ CommitLands(t) PROVE RetryInv'
  BY <1>7 DEF CommitCutOff, CommitLands, RetryInv
<1>8. CASE Tick \/ (\E l \in Lots : Grant(l)) \/ UNCHANGED vars
  BY <1>1, <1>8 DEF Tick, Grant, vars, ledger, txn
<1>9. CASE \E e \in Expirers : ExpireStep(e) \/ ExpireFails(e)
  BY <1>1, <1>9 DEF ExpireStep, ExpireScan, ExpireInsert, ExpireFails, ledger, txn
<1>10. QED
  BY <1>2, <1>3, <1>4, <1>5, <1>6, <1>7, <1>8, <1>9 DEF Next, TxStep

(***************************************************************************)
(* When no COMMIT outlives its caller, a usage record is never charged     *)
(* more than it cost, whatever fails and however often it is retried.      *)
(***************************************************************************)
THEOREM RetriesChargeOnce ==
  ASSUME ~ SlowCommit
  PROVE  Spec => []DrawnAtMostCost
<1>1. RetryInv /\ [Next]_vars => RetryInv'
  BY RetryStep
<1>2. RetryInv => DrawnAtMostCost
  BY DEF RetryInv
<1>3. QED
  BY <1>1, <1>2, RetryInit, PTL DEF Spec

-----------------------------------------------------------------------------
(***************************************************************************)
(* An account whose credit never lapses, and whose commits never outlive   *)
(* their callers, is the one-step account of PrepaidAccount: what an       *)
(* attempt reads of the balance is still the balance when it commits, and  *)
(* the lots it draws from, one after the other, come to exactly what the   *)
(* balance covers of its record's cost.                                    *)
(***************************************************************************)
LeftOf(l) == IF l \in lots THEN Remaining(l) ELSE 0

Wallet == [l \in Lots |-> LeftOf(l)]

Affordable(t) == LesserOf(Cost[RecordOf[t]], SumTo(Wallet, NumLots))

SpentIsOfLots == \A l \in Lots : l \notin lots => spent[l] = 0

BeganInTime == \A t \in Txs : began[t] <= MaxTime

\* While there is more to draw, the lots passed have been drawn empty.
DrawsFollowWallet(t) ==
  /\ budget[t] >= 0
  /\ budget[t] + SumTo(draw[t], NumLots) = Affordable(t)
  /\ \A l \in Lots :
       /\ draw[t][l] <= LeftOf(l)
       /\ view[t][l] > 0 => draw[t][l] = 0 /\ view[t][l] = LeftOf(l)
       /\ budget[t] > 0 /\ view[t][l] = 0 => draw[t][l] = LeftOf(l)

DrawsAreAffordable ==
  \A t \in Txs :
    /\ pc[t] = "lots" => budget[t] = Affordable(t)
    /\ pc[t] = "draw" => DrawsFollowWallet(t)

AccountInv ==
  /\ LedgerInv /\ LateInv /\ RetryInv
  /\ SpentIsOfLots /\ BeganInTime /\ DrawsAreAffordable

\* Nothing is forfeited, so what is left of a lot is what was not spent.
LEMMA WalletFact ==
  ASSUME NeverLapses, LedgerInv, LateInv
  PROVE  /\ \A l \in Lots : /\ forfeited[l] = 0 /\ LeftOf(l) \in Nat
                            /\ Remaining(l) = Amount[l] - spent[l] /\ Remaining(l) \in Nat
                            /\ \A e \in Expirers : scan[e][l] = 0
         /\ Wallet \in [1 .. NumLots -> Int] /\ \A l \in 1 .. NumLots : Wallet[l] = LeftOf(l)
         /\ SumTo(Wallet, NumLots) \in Nat
<1>1. ASSUME NEW l \in Lots
      PROVE  /\ forfeited[l] = 0 /\ LeftOf(l) \in Nat
             /\ Remaining(l) = Amount[l] - spent[l] /\ Remaining(l) \in Nat
             /\ \A e \in Expirers : scan[e][l] = 0
  <2>1. /\ Expiry[l] > now /\ forfeited[l] \in Nat /\ spent[l] \in Nat /\ Amount[l] \in Nat
        /\ spent[l] <= Amount[l] /\ \A e \in Expirers : scan[e][l] \in Nat
    BY LotAssumption, CountAssumption
       DEF NeverLapses, Never, LedgerInv, TypeOK, LotNeverOverspent
  <2>2. forfeited[l] = 0 /\ \A e \in Expirers : scan[e][l] = 0
    <3>1. now \in Int /\ Expiry[l] \in Int
      BY LotAssumption, CountAssumption DEF Never, LedgerInv, TypeOK
    <3>2. (forfeited[l] > 0 => Expiry[l] <= now) /\ \A e \in Expirers : scan[e][l] > 0 => Expiry[l] <= now
      BY DEF LedgerInv, ForfeitsFit
    <3> QED BY <2>1, <3>1, <3>2
  <2> QED BY <2>1, <2>2 DEF LeftOf, Remaining
<1>2. Wallet \in [1 .. NumLots -> Int] /\ \A l \in 1 .. NumLots : Wallet[l] = LeftOf(l) /\ Wallet[l] >= 0
  BY <1>1 DEF Wallet, Lots
<1> HIDE DEF Wallet
<1>3. SumTo(Wallet, NumLots) \in Int /\ SumTo(Wallet, NumLots) >= 0
  BY <1>2, SumType, SumNonNegative, CountAssumption
<1> QED BY <1>1, <1>2, <1>3

\* No lot lapses within the clock: the balance is the same at all times.
LEMMA BalanceIsWallet ==
  ASSUME NeverLapses, TypeOK, NEW t \in Nat, t <= MaxTime
  PROVE  BalanceAt(t) = SumTo(Wallet, NumLots)
<1>1. ASSUME NEW l \in Lots PROVE Spendable(l, t) = LeftOf(l)
  <2>1. ~ (Expiry[l] <= t) /\ Remaining(l) \in Int
    BY LotAssumption, CountAssumption DEF NeverLapses, Never, TypeOK, Remaining
  <2> QED BY <2>1 DEF Spendable, LeftOf
<1>2. [l \in Lots |-> Spendable(l, t)] = Wallet
  BY <1>1 DEF Wallet
<1> QED BY <1>2 DEF BalanceAt

LEMMA BalanceNow == NeverLapses /\ TypeOK => Balance = SumTo(Wallet, NumLots)
<1> SUFFICES ASSUME NeverLapses, TypeOK PROVE Balance = SumTo(Wallet, NumLots)
  OBVIOUS
<1>1. now \in Nat /\ now <= MaxTime
  BY CountAssumption DEF TypeOK
<1> QED BY <1>1, BalanceIsWallet DEF Balance

LEMMA BalanceNext == (NeverLapses /\ TypeOK => Balance = SumTo(Wallet, NumLots))'
<1> QED BY BalanceNow, PTL

LEMMA AccountInitially == NeverLapses /\ Init => AccountInv
<1> SUFFICES ASSUME NeverLapses, Init PROVE AccountInv
  OBVIOUS
<1>1. LedgerInv /\ LateInv /\ RetryInv
  BY InvInit, RetryInit, TypeInit DEF Init, NoLots, LateInv, LateIsLapsed
<1> QED BY <1>1, CountAssumption
        DEF Init, NoLots, AccountInv, SpentIsOfLots, BeganInTime, DrawsAreAffordable

\* Steps that leave the wallet, and what attempts between the balance and
\* the commit know, as they are.
LEMMA WalletKept ==
  ASSUME UNCHANGED <<lots, spent, forfeited>>
  PROVE  /\ Wallet' = Wallet
         /\ \A l \in Lots : LeftOf(l)' = LeftOf(l)
         /\ \A t \in Txs : Affordable(t)' = Affordable(t)
<1>1. \A l \in Lots : LeftOf(l)' = LeftOf(l)
  BY DEF LeftOf, Remaining
<1>2. Wallet' = Wallet
  BY <1>1 DEF Wallet
<1> QED BY <1>1, <1>2 DEF Affordable

LEMMA OthersKept ==
  ASSUME AccountInv, UNCHANGED <<lots, spent, forfeited, budget, view, draw>>,
         \A t \in Txs : pc'[t] \in {"lots", "draw"} => pc[t] = pc'[t],
         \A t \in Txs : began'[t] <= MaxTime
  PROVE  SpentIsOfLots' /\ BeganInTime' /\ DrawsAreAffordable'
<1>1. SpentIsOfLots' /\ BeganInTime'
  BY DEF AccountInv, SpentIsOfLots, BeganInTime
<1>2. DrawsAreAffordable'
  BY WalletKept DEF AccountInv, DrawsAreAffordable, DrawsFollowWallet
<1> QED BY <1>1, <1>2

LEMMA ReadBalanceFollows ==
  ASSUME NeverLapses, AccountInv, NEW t \in Txs, ReadBalance(t)
  PROVE  SpentIsOfLots' /\ BeganInTime' /\ DrawsAreAffordable'
<1>1. /\ UNCHANGED <<lots, spent, forfeited, began, view, draw>>
      /\ pc' = [pc EXCEPT ![t] = "lots"]
      /\ budget' = [budget EXCEPT ![t] = LesserOf(Cost[RecordOf[t]], BalanceAt(began[t]))]
  BY DEF ReadBalance, Goto, ledger
<1>2. TypeOK /\ began[t] \in Nat /\ began[t] <= MaxTime
  BY DEF AccountInv, BeganInTime, LedgerInv, TypeOK
<1>3. BalanceAt(began[t]) = SumTo(Wallet, NumLots)
  BY <1>2, BalanceIsWallet
<1>4. \A u \in Txs : /\ pc'[u] = IF u = t THEN "lots" ELSE pc[u]
                     /\ budget'[u] = IF u = t THEN Affordable(t) ELSE budget[u]
  BY <1>1, <1>2, <1>3 DEF TypeOK, Affordable
<1>5. DrawsAreAffordable'
  BY <1>1, <1>4, WalletKept DEF AccountInv, DrawsAreAffordable, DrawsFollowWallet
<1>6. SpentIsOfLots' /\ BeganInTime'
  BY <1>1 DEF AccountInv, SpentIsOfLots, BeganInTime
<1> QED BY <1>5, <1>6

LEMMA ReadLotsFollows ==
  ASSUME NeverLapses, AccountInv, NEW t \in Txs, ReadLots(t)
  PROVE  SpentIsOfLots' /\ BeganInTime' /\ DrawsAreAffordable'
<1> DEFINE seen == [l \in Lots |-> IF l \in lots /\ Expiry[l] > began[t]
                                   THEN PositivePart(Remaining(l)) ELSE 0]
<1>1. /\ UNCHANGED <<lots, spent, forfeited, began, budget, draw>>
      /\ pc[t] = "lots" /\ pc' = [pc EXCEPT ![t] = "draw"]
      /\ view' = [view EXCEPT ![t] = seen]
  BY DEF ReadLots, Goto, ledger
<1>2. TypeOK /\ began[t] \in Nat /\ began[t] <= MaxTime
  BY DEF AccountInv, BeganInTime, LedgerInv, TypeOK
<1>3. \A l \in Lots : LeftOf(l) \in Nat /\ Remaining(l) \in Nat
  BY WalletFact DEF AccountInv
<1>4. seen = Wallet
  <2>1. \A l \in Lots : Expiry[l] > began[t]
    BY <1>2, CountAssumption DEF NeverLapses, Never
  <2> QED BY <1>3, <2>1 DEF Wallet, LeftOf, PositivePart
<1>5. \A u \in Txs : /\ pc'[u] = IF u = t THEN "draw" ELSE pc[u]
                     /\ view'[u] = IF u = t THEN Wallet ELSE view[u]
  BY <1>1, <1>2, <1>4 DEF TypeOK
<1>6. draw[t] = NoLots /\ SumTo(draw[t], NumLots) = 0
  BY <1>1, NoLotsSum DEF AccountInv, RetryInv, DrawWithinCost
<1>7. budget[t] = Affordable(t) /\ budget[t] \in Int /\ budget[t] >= 0
  <2>1. budget[t] = Affordable(t)
    BY <1>1 DEF AccountInv, DrawsAreAffordable
  <2>2. Cost[RecordOf[t]] \in Nat /\ SumTo(Wallet, NumLots) \in Nat
    BY RecordAssumption, WalletFact DEF AccountInv
  <2> QED BY <2>1, <2>2 DEF Affordable, LesserOf
<1>8. DrawsFollowWallet(t)'
  <2>1. budget'[t] >= 0 /\ budget'[t] + SumTo(draw'[t], NumLots) = Affordable(t)'
    BY <1>1, <1>6, <1>7, WalletKept
  <2>2. ASSUME NEW l \in Lots
        PROVE  draw'[t][l] = 0 /\ view'[t][l] = LeftOf(l)' /\ LeftOf(l)' \in Nat
    <3>1. draw'[t] = NoLots /\ view'[t] = Wallet
      BY <1>1, <1>5, <1>6
    <3>2. NoLots[l] = 0 /\ Wallet[l] = LeftOf(l)
      BY DEF NoLots, Wallet
    <3>3. LeftOf(l)' = LeftOf(l) /\ LeftOf(l) \in Nat
      BY <1>1, <1>3, WalletKept
    <3> QED BY <3>1, <3>2, <3>3
  <2> QED BY <2>1, <2>2 DEF DrawsFollowWallet
<1>9. ASSUME NEW u \in Txs, u # t
      PROVE  /\ pc'[u] = "lots" => budget'[u] = Affordable(u)'
             /\ pc'[u] = "draw" => DrawsFollowWallet(u)'
  BY <1>1, <1>5, <1>9, WalletKept DEF AccountInv, DrawsAreAffordable, DrawsFollowWallet
<1>10. DrawsAreAffordable'
  BY <1>5, <1>8, <1>9 DEF DrawsAreAffordable
<1>11. SpentIsOfLots' /\ BeganInTime'
  BY <1>1 DEF AccountInv, SpentIsOfLots, BeganInTime
<1> QED BY <1>10, <1>11

LEMMA DrawLotFollows ==
  ASSUME NeverLapses, AccountInv, NEW t \in Txs, NEW l \in Lots, DrawLot(t, l)
  PROVE  SpentIsOfLots' /\ BeganInTime' /\ DrawsAreAffordable'
<1>1. PICK take : take = LesserOf(budget[t], view[t][l])
  OBVIOUS
<1>2. /\ UNCHANGED <<lots, spent, forfeited, began, pc>>
      /\ pc[t] = "draw" /\ budget[t] > 0 /\ view[t][l] > 0
      /\ draw' = [draw EXCEPT ![t] = [draw[t] EXCEPT ![l] = take]]
      /\ budget' = [budget EXCEPT ![t] = budget[t] - take]
      /\ view' = [view EXCEPT ![t] = [view[t] EXCEPT ![l] = 0]]
  BY <1>1 DEF DrawLot, NextLot, ledger
<1>3. TypeOK
  BY DEF AccountInv, LedgerInv
<1>4. /\ budget[t] \in Int /\ view[t] \in [Lots -> Nat] /\ draw[t] \in [Lots -> Nat]
      /\ draw[t] \in [1 .. NumLots -> Int]
  <2>1. budget[t] \in Int /\ view[t] \in [Lots -> Nat] /\ draw[t] \in [Lots -> Nat]
    BY <1>3 DEF TypeOK
  <2>2. draw[t] \in [Lots -> Int]
    BY <2>1
  <2> QED BY <2>1, <2>2 DEF Lots
<1>5. DrawsFollowWallet(t)
  BY <1>2 DEF AccountInv, DrawsAreAffordable
<1>6. /\ draw[t][l] = 0 /\ view[t][l] = LeftOf(l) /\ LeftOf(l) \in Nat
      /\ take \in Nat /\ take <= budget[t] /\ take <= LeftOf(l)
      /\ take = budget[t] \/ take = LeftOf(l)
  <2>1. draw[t][l] = 0 /\ view[t][l] = LeftOf(l) /\ LeftOf(l) \in Nat
    BY <1>2, <1>5, WalletFact DEF DrawsFollowWallet, AccountInv
  <2> QED BY <1>1, <1>2, <1>4, <2>1 DEF LesserOf
<1>7. \A u \in Txs : /\ draw'[u] = IF u = t THEN [draw[t] EXCEPT ![l] = take] ELSE draw[u]
                     /\ budget'[u] = IF u = t THEN budget[t] - take ELSE budget[u]
                     /\ view'[u] = IF u = t THEN [view[t] EXCEPT ![l] = 0] ELSE view[u]
  BY <1>2, <1>3 DEF TypeOK
<1>8. \A k \in Lots : /\ draw'[t][k] = IF k = l THEN take ELSE draw[t][k]
                      /\ view'[t][k] = IF k = l THEN 0 ELSE view[t][k]
  BY <1>4, <1>7
<1>9. budget'[t] + SumTo(draw'[t], NumLots) = Affordable(t)' /\ budget'[t] >= 0
  <2>1. SumTo([draw[t] EXCEPT ![l] = take], NumLots) = SumTo(draw[t], NumLots) - draw[t][l] + take
    BY <1>4, <1>6, SumUpdate, CountAssumption DEF Lots
  <2>2. SumTo(draw[t], NumLots) \in Int
    BY <1>4, SumType, CountAssumption
  <2>3. Affordable(t)' = Affordable(t) /\ budget[t] + SumTo(draw[t], NumLots) = Affordable(t)
    BY <1>2, <1>5, WalletKept DEF DrawsFollowWallet
  <2>4. draw'[t] = [draw[t] EXCEPT ![l] = take] /\ budget'[t] = budget[t] - take
    BY <1>7
  <2> QED BY <1>4, <1>6, <2>1, <2>2, <2>3, <2>4
<1>10. ASSUME NEW k \in Lots
       PROVE  /\ draw'[t][k] <= LeftOf(k)'
              /\ view'[t][k] > 0 => draw'[t][k] = 0 /\ view'[t][k] = LeftOf(k)'
              /\ budget'[t] > 0 /\ view'[t][k] = 0 => draw'[t][k] = LeftOf(k)'
  <2>1. /\ LeftOf(k)' = LeftOf(k) /\ draw[t][k] <= LeftOf(k)
        /\ view[t][k] > 0 => draw[t][k] = 0 /\ view[t][k] = LeftOf(k)
        /\ view[t][k] = 0 => draw[t][k] = LeftOf(k)
    BY <1>2, <1>5, WalletKept DEF DrawsFollowWallet
  <2>2. CASE k = l
    BY <1>4, <1>6, <1>7, <1>8, <2>1, <2>2
  <2>3. CASE k # l
    BY <1>8, <2>1, <2>3
  <2> QED BY <2>2, <2>3
<1>11. DrawsFollowWallet(t)'
  BY <1>9, <1>10 DEF DrawsFollowWallet
<1>12. ASSUME NEW u \in Txs, u # t
       PROVE  /\ pc'[u] = "lots" => budget'[u] = Affordable(u)'
              /\ pc'[u] = "draw" => DrawsFollowWallet(u)'
  BY <1>2, <1>7, <1>12, WalletKept DEF AccountInv, DrawsAreAffordable, DrawsFollowWallet
<1>13. DrawsAreAffordable'
  BY <1>2, <1>11, <1>12 DEF DrawsAreAffordable
<1>14. SpentIsOfLots' /\ BeganInTime'
  BY <1>2 DEF AccountInv, SpentIsOfLots, BeganInTime
<1> QED BY <1>13, <1>14

\* What a commit takes is what the balance covers of the record's cost.
LEMMA CommitTakes ==
  ASSUME NeverLapses, AccountInv, NEW t \in Txs, Commit(t)
  PROVE  /\ SumTo(draw[t], NumLots) = Affordable(t)
         /\ \A l \in Lots : /\ draw[t][l] \in Nat /\ draw[t][l] <= LeftOf(l)
                            /\ l \notin lots => draw[t][l] = 0
<1>1. pc[t] = "draw" /\ LoopDone(t)
  BY DEF Commit
<1>2. DrawsFollowWallet(t)
  BY <1>1 DEF AccountInv, DrawsAreAffordable
<1>3. budget[t] \in Int /\ view[t] \in [Lots -> Nat] /\ draw[t] \in [Lots -> Nat]
  BY DEF AccountInv, LedgerInv, TypeOK
<1>4. \A l \in Lots : /\ draw[t][l] \in Nat /\ draw[t][l] <= LeftOf(l)
                      /\ l \notin lots => draw[t][l] = 0
  BY <1>2, <1>3 DEF DrawsFollowWallet, LeftOf
<1>5. Cost[RecordOf[t]] \in Nat /\ SumTo(Wallet, NumLots) \in Nat
  BY RecordAssumption, WalletFact DEF AccountInv
<1>6. SumTo(draw[t], NumLots) \in Nat
  BY <1>3, SumOfDraws
<1>7. CASE budget[t] = 0
  <2>1. 0 + SumTo(draw[t], NumLots) = Affordable(t)
    BY <1>2, <1>7 DEF DrawsFollowWallet
  <2>2. SumTo(draw[t], NumLots) = Affordable(t)
    BY <1>6, <2>1
  <2> QED BY <1>4, <2>2
<1>8. CASE budget[t] > 0
  <2>1. \A l \in Lots : draw[t][l] = LeftOf(l)
    <3>1. \A l \in Lots : view[t][l] = 0
      BY <1>1, <1>3, <1>8 DEF LoopDone
    <3>2. \A l \in Lots : view[t][l] = 0 => draw[t][l] = LeftOf(l)
      BY <1>2, <1>8 DEF DrawsFollowWallet
    <3> QED BY <3>1, <3>2
  <2>2. draw[t] = Wallet
    BY <1>3, <2>1 DEF Wallet
  <2>3. budget[t] + SumTo(Wallet, NumLots) = LesserOf(Cost[RecordOf[t]], SumTo(Wallet, NumLots))
    BY <1>2, <2>2 DEF DrawsFollowWallet, Affordable
  <2> QED BY <1>3, <1>5, <1>8, <2>3 DEF LesserOf
<1> QED BY <1>2, <1>3, <1>4, <1>7, <1>8 DEF DrawsFollowWallet

\* While an attempt is between the balance and its commit, nobody else is.
LEMMA AloneWithTheLock ==
  ASSUME AccountInv, NEW t \in Txs, pc[t] = "draw"
  PROVE  lock = t /\ \A u \in Txs : u # t => pc[u] \notin {"lots", "draw"}
BY DEF AccountInv, LedgerInv, LockHeld, Holding

LEMMA AccountStep ==
  NeverLapses /\ ~ SlowCommit /\ AccountInv /\ [Next]_vars => AccountInv'
<1> SUFFICES ASSUME NeverLapses, ~ SlowCommit, AccountInv, [Next]_vars PROVE AccountInv'
  OBVIOUS
<1>1. LedgerInv' /\ LateInv' /\ RetryInv'
  BY InvStep, LateStep, RetryStep DEF AccountInv
<1>2. TypeOK /\ BeganInTime /\ now <= MaxTime
  BY CountAssumption DEF AccountInv, LedgerInv, TypeOK
<1> SUFFICES SpentIsOfLots' /\ BeganInTime' /\ DrawsAreAffordable'
  BY <1>1 DEF AccountInv
<1>3. CASE Tick \/ UNCHANGED vars \/ \E e \in Expirers : ExpireScan(e) \/ ExpireFails(e)
  <2>1. UNCHANGED <<lots, spent, forfeited, budget, view, draw, pc, began>>
    BY <1>3 DEF Tick, vars, ExpireScan, ExpireFails, ledger, txn
  <2> QED BY <1>2, <2>1, OthersKept DEF BeganInTime
<1>4. ASSUME NEW e \in Expirers, ExpireInsert(e)
      PROVE  SpentIsOfLots' /\ BeganInTime' /\ DrawsAreAffordable'
  <2>1. forfeited' = forfeited
    <3>1. \A l \in Lots : scan[e][l] = 0 /\ forfeited[l] = 0
      BY WalletFact DEF AccountInv
    <3> QED BY <1>2, <1>4, <3>1 DEF ExpireInsert, TypeOK
  <2>2. UNCHANGED <<lots, spent, forfeited, budget, view, draw, pc, began>>
    BY <1>4, <2>1 DEF ExpireInsert, txn
  <2> QED BY <1>2, <2>2, OthersKept DEF BeganInTime
<1>5. ASSUME NEW t \in Txs,
             \/ Begin(t) \/ CheckPrior(t) \/ LockAccount(t) \/ Abort(t)
             \/ \E l \in Lots : DrawConflict(t, l)
      PROVE  SpentIsOfLots' /\ BeganInTime' /\ DrawsAreAffordable'
  <2>1. UNCHANGED <<lots, spent, forfeited, budget, view, draw>>
    BY <1>5 DEF Begin, CheckPrior, LockAccount, Abort, DrawConflict, ledger, txn
  <2>2. began' = began \/ began' = [began EXCEPT ![t] = now]
    BY <1>5 DEF Begin, CheckPrior, LockAccount, Abort, DrawConflict, txn
  <2>3. \A u \in Txs : began'[u] <= MaxTime
    BY <1>2, <2>2 DEF BeganInTime, TypeOK
  <2>4. PICK a \in {"check", "lock", "balance", "done", "aborted"} : pc' = [pc EXCEPT ![t] = a]
    BY <1>5 DEF Begin, CheckPrior, LockAccount, Abort, DrawConflict, Goto
  <2>5. \A u \in Txs : pc'[u] \in {"lots", "draw"} => pc[u] = pc'[u]
    BY <1>2, <2>4 DEF TypeOK
  <2> QED BY <2>1, <2>3, <2>5, OthersKept
<1>6. ASSUME NEW t \in Txs, ReadBalance(t) \/ ReadLots(t) \/ \E l \in Lots : DrawLot(t, l)
      PROVE  SpentIsOfLots' /\ BeganInTime' /\ DrawsAreAffordable'
  BY <1>6, ReadBalanceFollows, ReadLotsFollows, DrawLotFollows
<1>7. ASSUME NEW t \in Txs, Commit(t)
      PROVE  SpentIsOfLots' /\ BeganInTime' /\ DrawsAreAffordable'
  <2>1. /\ pc[t] = "draw" /\ UNCHANGED <<lots, began>>
        /\ spent' = [l \in Lots |-> spent[l] + draw[t][l]]
    BY <1>7 DEF Commit, Land, txn
  <2>2. PICK a \in {"done", "lost"} : pc' = [pc EXCEPT ![t] = a]
    BY <1>7 DEF Commit, Goto
  <2>3. SpentIsOfLots'
    BY <1>7, <2>1, CommitTakes DEF AccountInv, SpentIsOfLots
  <2>4. DrawsAreAffordable'
    <3>1. \A u \in Txs : pc'[u] \notin {"lots", "draw"}
      BY <1>2, <2>1, <2>2, AloneWithTheLock DEF TypeOK
    <3> QED BY <3>1 DEF DrawsAreAffordable
  <2> QED BY <1>2, <2>1, <2>3, <2>4 DEF BeganInTime
<1>8. ASSUME NEW l \in Lots, Grant(l)
      PROVE  SpentIsOfLots' /\ BeganInTime' /\ DrawsAreAffordable'
  <2>1. UNCHANGED <<spent, pc, began>> /\ lots' = lots \cup {l} /\ lock = NoTx
    BY <1>8 DEF Grant, txn
  <2>2. \A t \in Txs : pc[t] \notin {"lots", "draw"}
    BY <2>1, LockAssumption DEF AccountInv, LedgerInv, LockHeld, Holding
  <2> QED BY <1>2, <2>1, <2>2 DEF AccountInv, SpentIsOfLots, BeganInTime, DrawsAreAffordable
<1>9. ASSUME NEW t \in Txs, CommitCutOff(t) \/ CommitLands(t) PROVE FALSE
  BY <1>9 DEF CommitCutOff, CommitLands, AccountInv, RetryInv
<1> QED BY <1>3, <1>4, <1>5, <1>6, <1>7, <1>8, <1>9 DEF Next, TxStep, ExpireStep

\* A grant or a purchase is a deposit.
LEMMA GrantDeposits ==
  ASSUME NeverLapses, AccountInv, AccountInv', NEW l \in Lots, Grant(l)
  PROVE  Account!Deposit(Amount[l])
<1>1. l \notin lots /\ lots' = lots \cup {l} /\ UNCHANGED <<spent, forfeited, drawn>>
  BY DEF Grant
<1>2. \A k \in Lots : LeftOf(k)' = IF k = l THEN Amount[l] ELSE LeftOf(k)
  <2>1. Remaining(l) = Amount[l]
    BY <1>1, WalletFact, LotAssumption DEF AccountInv, SpentIsOfLots, Remaining
  <2> QED BY <1>1, <2>1 DEF LeftOf, Remaining
<1>3. PICK w : w = Wallet
  OBVIOUS
<1>4. w \in [1 .. NumLots -> Int] /\ w[l] = 0 /\ SumTo(w, NumLots) \in Nat /\ Amount[l] \in Nat
  BY <1>1, <1>3, WalletFact, LotAssumption DEF AccountInv, Wallet, LeftOf
<1>5. Wallet' = [w EXCEPT ![l] = Amount[l]]
  BY <1>2, <1>3 DEF Wallet
<1>6. SumTo([w EXCEPT ![l] = Amount[l]], NumLots) = SumTo(w, NumLots) - w[l] + Amount[l]
  <2>1. l \in 1 .. NumLots /\ NumLots \in Nat /\ Amount[l] \in Int
    BY <1>4, CountAssumption DEF Lots
  <2> QED BY <1>4, <2>1, SumUpdate
<1>7. SumTo(Wallet', NumLots) = SumTo(Wallet, NumLots) + Amount[l]
  BY <1>3, <1>4, <1>5, <1>6
<1>8. Balance = SumTo(Wallet, NumLots) /\ Balance' = SumTo(Wallet', NumLots)
  BY BalanceNow, BalanceNext DEF AccountInv, LedgerInv
<1> QED BY <1>1, <1>7, <1>8 DEF Account!Deposit

\* A commit pays its record, or finds nothing to pay with.
LEMMA CommitPays ==
  ASSUME NeverLapses, AccountInv, AccountInv', NEW t \in Txs, Commit(t)
  PROVE  Account!Pay(RecordOf[t]) \/ UNCHANGED <<Balance, drawn>>
<1>1. PICK r, w, d, v : r = RecordOf[t] /\ w = Wallet /\ d = draw[t] /\ v = Wallet'
  OBVIOUS
<1>2. /\ pc[t] = "draw" /\ UNCHANGED <<lots, forfeited>>
      /\ spent' = [l \in Lots |-> spent[l] + d[l]]
      /\ drawn' = [drawn EXCEPT ![r] = drawn[r] + SumTo(d, NumLots)]
  BY <1>1 DEF Commit, Land
<1>3. /\ drawn[r] = 0 /\ r \in Records /\ drawn \in [Records -> Nat]
      /\ d \in [1 .. NumLots -> Int] /\ SumTo(d, NumLots) \in Nat
  <2>1. d \in [Lots -> Nat] /\ r \in Records /\ drawn \in [Records -> Nat]
    BY <1>1, RecordAssumption DEF AccountInv, LedgerInv, TypeOK
  <2>2. drawn[r] = 0
    BY <1>1, <1>2, <2>1 DEF AccountInv, RetryInv, StillUndrawn, UndrawnIsUnpaid
  <2>3. d \in [Lots -> Int]
    BY <2>1
  <2> QED BY <2>1, <2>2, <2>3, SumOfDraws DEF Lots
<1>4. w \in [1 .. NumLots -> Int] /\ SumTo(w, NumLots) \in Nat
  BY <1>1, WalletFact DEF AccountInv
<1>5. v \in [1 .. NumLots -> Int] /\ \A l \in 1 .. NumLots : w[l] = v[l] + d[l]
  <2>1. ASSUME NEW l \in Lots PROVE LeftOf(l)' = LeftOf(l) - d[l] /\ LeftOf(l) \in Int /\ d[l] \in Int
    <3>1. d[l] \in Nat /\ (l \notin lots => d[l] = 0)
      BY <1>1, CommitTakes
    <3>2. forfeited[l] \in Int /\ spent[l] \in Int /\ Amount[l] \in Int
      BY LotAssumption DEF AccountInv, LedgerInv, TypeOK
    <3> QED BY <1>2, <3>1, <3>2 DEF LeftOf, Remaining
  <2> QED BY <1>1, <2>1 DEF Wallet, Lots
<1>6. SumTo(w, NumLots) = SumTo(v, NumLots) + SumTo(d, NumLots) /\ SumTo(v, NumLots) \in Int
  BY <1>3, <1>4, <1>5, SumAdd, SumType, CountAssumption
<1>7. SumTo(d, NumLots) = LesserOf(Cost[r], SumTo(w, NumLots)) /\ Cost[r] \in Nat
  BY <1>1, CommitTakes, RecordAssumption DEF Affordable
<1>8. Balance = SumTo(w, NumLots) /\ Balance' = SumTo(v, NumLots)
  BY <1>1, BalanceNow, BalanceNext DEF AccountInv, LedgerInv
<1>9. CASE SumTo(d, NumLots) = 0
  <2>1. drawn[r] + SumTo(d, NumLots) = drawn[r]
    BY <1>3, <1>9
  <2>2. drawn' = [drawn EXCEPT ![r] = drawn[r]]
    BY <1>2, <2>1
  <2>3. drawn' = drawn
    BY <1>3, <2>2
  <2> QED BY <1>4, <1>6, <1>8, <1>9, <2>3
<1>10. CASE SumTo(d, NumLots) > 0
  <2>1. drawn' = [drawn EXCEPT ![r] = SumTo(d, NumLots)]
    <3>1. drawn[r] + SumTo(d, NumLots) = SumTo(d, NumLots)
      BY <1>3
    <3> QED BY <1>2, <3>1
  <2>2. Balance' = Balance - SumTo(d, NumLots)
    BY <1>3, <1>4, <1>6, <1>8
  <2>3. SumTo(d, NumLots) = IF Cost[r] <= Balance THEN Cost[r] ELSE Balance
    BY <1>7, <1>8 DEF LesserOf
  <2> QED BY <1>1, <1>3, <1>10, <2>1, <2>2, <2>3 DEF Account!Pay
<1> QED BY <1>3, <1>9, <1>10

\* All other steps are the account's own business.
LEMMA OthersStutter ==
  ASSUME NeverLapses, AccountInv, AccountInv',
         \/ UNCHANGED <<lots, spent, forfeited, drawn>>
         \/ \E e \in Expirers : ExpireInsert(e)
  PROVE  UNCHANGED <<Balance, drawn>>
<1>1. UNCHANGED <<lots, spent, forfeited, drawn>>
  <2>1. ASSUME NEW e \in Expirers, ExpireInsert(e) PROVE UNCHANGED <<lots, spent, forfeited, drawn>>
    <3>1. \A l \in Lots : scan[e][l] = 0 /\ forfeited[l] = 0
      BY WalletFact DEF AccountInv
    <3> QED BY <2>1, <3>1 DEF ExpireInsert, AccountInv, LedgerInv, TypeOK
  <2> QED BY <2>1
<1>2. Balance = SumTo(Wallet, NumLots) /\ Balance' = SumTo(Wallet', NumLots)
  BY BalanceNow, BalanceNext DEF AccountInv, LedgerInv
<1> QED BY <1>1, <1>2, WalletKept

(***************************************************************************)
(* For an account whose credit never lapses and whose commits do not       *)
(* outlive their callers, the ledger with its transactions, locks, retries *)
(* and replicas implements the account of PrepaidAccount: each deposit and *)
(* each payment is one step, and all other steps leave it as it is         *)
(* (credits.go:84-200).                                                    *)
(***************************************************************************)
THEOREM LedgerIsAnAccount ==
  ASSUME NeverLapses, ~ SlowCommit
  PROVE  Spec => ImplementsPrepaidAccount
<1>1. Init => AccountInv
  BY AccountInitially
<1>2. AccountInv /\ [Next]_vars => AccountInv'
  BY AccountStep
<1>3. Init => Account!Init
  <2> SUFFICES ASSUME Init PROVE Account!Init
    OBVIOUS
  <2>1. LedgerInv
    BY InvInit
  <2>2. Balance = SumTo(Wallet, NumLots)
    BY <2>1, BalanceNow DEF LedgerInv
  <2>3. Wallet = NoLots
    BY DEF Init, Wallet, LeftOf, NoLots
  <2> QED BY <2>2, <2>3, NoLotsSum DEF Init, Account!Init
<1>4. AccountInv /\ AccountInv' /\ [Next]_vars => [Account!Next]_<<Balance, drawn>>
  <2> SUFFICES ASSUME AccountInv, AccountInv', [Next]_vars
               PROVE  Account!Next \/ UNCHANGED <<Balance, drawn>>
    OBVIOUS
  <2>1. ASSUME NEW l \in Lots, Grant(l) PROVE Account!Next
    <3>1. Account!Deposit(Amount[l]) /\ Amount[l] \in {Amount[k] : k \in Lots}
      BY <2>1, GrantDeposits
    <3> QED BY <3>1 DEF Account!Next
  <2>2. ASSUME NEW t \in Txs, Commit(t) PROVE Account!Next \/ UNCHANGED <<Balance, drawn>>
    <3>1. RecordOf[t] \in Records
      BY RecordAssumption
    <3> QED BY <2>2, <3>1, CommitPays DEF Account!Next
  <2>3. CASE \/ Tick \/ UNCHANGED vars
             \/ \E t \in Txs : \/ Begin(t) \/ CheckPrior(t) \/ LockAccount(t) \/ ReadBalance(t)
                               \/ ReadLots(t) \/ Abort(t) \/ CommitCutOff(t)
                               \/ \E l \in Lots : DrawLot(t, l) \/ DrawConflict(t, l)
             \/ \E e \in Expirers : ExpireStep(e) \/ ExpireFails(e)
    <3>1. CASE Tick \/ UNCHANGED vars
      BY <3>1, OthersStutter DEF Tick, vars, ledger
    <3>2. ASSUME NEW t \in Txs,
                 \/ Begin(t) \/ CheckPrior(t) \/ LockAccount(t) \/ ReadBalance(t)
                 \/ ReadLots(t) \/ Abort(t) \/ CommitCutOff(t)
          PROVE  UNCHANGED <<lots, spent, forfeited, drawn>>
      BY <3>2 DEF Begin, CheckPrior, LockAccount, ReadBalance, ReadLots, Abort, CommitCutOff,
         ledger
    <3>3. ASSUME NEW t \in Txs, NEW l \in Lots, DrawLot(t, l) \/ DrawConflict(t, l)
          PROVE  UNCHANGED <<lots, spent, forfeited, drawn>>
      BY <3>3 DEF DrawLot, DrawConflict, ledger
    <3>4. ASSUME NEW e \in Expirers, ExpireStep(e) \/ ExpireFails(e)
          PROVE  UNCHANGED <<lots, spent, forfeited, drawn>> \/ ExpireInsert(e)
      BY <3>4 DEF ExpireStep, ExpireScan, ExpireFails, ledger
    <3> QED BY <2>3, <3>1, <3>2, <3>3, <3>4, OthersStutter
  <2>4. ASSUME NEW t \in Txs, CommitLands(t) PROVE FALSE
    BY <2>4 DEF CommitLands, AccountInv, RetryInv
  <2> QED BY <2>1, <2>2, <2>3, <2>4 DEF Next, TxStep
<1> QED BY <1>1, <1>2, <1>3, <1>4, PTL DEF Spec, ImplementsPrepaidAccount, Account!Spec

-----------------------------------------------------------------------------
(***************************************************************************)
(* The order of the draws.  The lots an attempt has read, and what it has  *)
(* drawn from them, are the ledger's until it commits, as everybody else   *)
(* waits for its lock; and it turns to a lot only when those before it are *)
(* drawn empty.                                                            *)
(***************************************************************************)
Drawing == {"draw", "inflight"}

LiveFor(t, k) == k \in lots /\ Expiry[k] > began[t]

UsedUp(t, k) == Remaining(k) <= draw[t][k]

DrawnSoFar(t) ==
  /\ \A k \in Lots : view[t][k] > 0 => draw[t][k] = 0 /\ Remaining(k) <= view[t][k]
  /\ budget[t] > 0 => \A k \in Lots : LiveFor(t, k) /\ view[t][k] = 0 => UsedUp(t, k)
  /\ \A l, k \in Lots : draw[t][l] > 0 /\ LiveFor(t, k) /\ DrawnBefore(k, l) => UsedUp(t, k)

OrderInv == LedgerInv /\ \A t \in Txs : pc[t] \in Drawing => DrawnSoFar(t)

\* Whoever draws is undisturbed.
LEMMA DrawerUndisturbed ==
  ASSUME LedgerInv, [Next]_vars, NEW t \in Txs, pc[t] \in Drawing, pc'[t] \in Drawing
  PROVE  /\ UNCHANGED <<lots, born, spent, forfeited>> /\ began'[t] = began[t]
         /\ \/ budget'[t] = budget[t] /\ view'[t] = view[t] /\ draw'[t] = draw[t]
            \/ \E l \in Lots : DrawLot(t, l)
<1> DEFINE Kept == /\ UNCHANGED <<lots, born, spent, forfeited>> /\ began'[t] = began[t]
                   /\ budget'[t] = budget[t] /\ view'[t] = view[t] /\ draw'[t] = draw[t]
<1>1. lock = t /\ lock # NoTx /\ \A u \in Txs : u # t => pc[u] \notin Holding
  BY LockAssumption DEF LedgerInv, LockHeld, Holding, Drawing
<1>2. CASE UNCHANGED vars \/ Tick
  BY <1>2 DEF vars, Tick, ledger, txn
<1>3. ASSUME NEW l \in Lots, Grant(l) PROVE FALSE
  BY <1>1, <1>3 DEF Grant
<1>4. ASSUME NEW e \in Expirers, ExpireStep(e) \/ ExpireFails(e) PROVE Kept
  BY <1>1, <1>4 DEF ExpireStep, ExpireScan, ExpireInsert, ExpireFails, ledger, txn
<1>5. ASSUME NEW u \in Txs, Begin(u) PROVE Kept
  <2>1. pc[u] = "idle" /\ UNCHANGED <<lots, born, spent, forfeited, budget, view, draw>>
        /\ began' = [began EXCEPT ![u] = now]
    BY <1>5 DEF Begin, ledger
  <2>2. u # t
    BY <2>1 DEF Drawing
  <2> QED BY <2>1, <2>2 DEF LedgerInv, TypeOK
<1>6. ASSUME NEW u \in Txs, CheckPrior(u) \/ LockAccount(u) \/ Abort(u) \/ CommitCutOff(u)
      PROVE  Kept
  BY <1>6 DEF CheckPrior, LockAccount, Abort, CommitCutOff, ledger, txn
<1>7. ASSUME NEW u \in Txs, NEW l \in Lots, DrawConflict(u, l) PROVE Kept
  BY <1>7 DEF DrawConflict, ledger, txn
<1>8. ASSUME NEW u \in Txs, ReadBalance(u) \/ ReadLots(u) PROVE FALSE
  <2>1. pc[u] \in {"balance", "lots"}
    BY <1>8 DEF ReadBalance, ReadLots
  <2> QED BY <1>1, <2>1 DEF Holding, Drawing
<1>9. ASSUME NEW u \in Txs, NEW l \in Lots, DrawLot(u, l)
      PROVE  u = t /\ UNCHANGED <<lots, born, spent, forfeited>> /\ began'[t] = began[t]
  BY <1>1, <1>9 DEF DrawLot, Holding, ledger
<1>10. ASSUME NEW u \in Txs, Commit(u) \/ CommitLands(u) PROVE FALSE
  <2>1. pc[u] \in Drawing
    BY <1>10 DEF Commit, CommitLands, Drawing
  <2>2. u = t
    BY <1>1, <2>1 DEF Holding, Drawing
  <2>3. pc'[t] \in {"done", "lost"}
    BY <1>10, <2>2 DEF Commit, CommitLands, Goto, LedgerInv, TypeOK
  <2> QED BY <2>3 DEF Drawing
<1> QED BY <1>2, <1>3, <1>4, <1>5, <1>6, <1>7, <1>8, <1>9, <1>10 DEF Next, TxStep

\* Reading the lots: nothing is drawn yet.
LEMMA ReadLotsInOrder ==
  ASSUME LedgerInv, NEW t \in Txs, ReadLots(t)
  PROVE  DrawnSoFar(t)'
<1>1. /\ UNCHANGED <<lots, born, spent, forfeited, began, budget, draw>> /\ pc[t] = "lots"
      /\ view' = [view EXCEPT ![t] = [l \in Lots |-> IF LiveFor(t, l)
                                                     THEN PositivePart(Remaining(l)) ELSE 0]]
  BY DEF ReadLots, ledger, LiveFor
<1>2. \A k \in Lots : draw[t][k] = 0 /\ Remaining(k) \in Int
  BY <1>1, LotAssumption DEF LedgerInv, NothingDrawnYet, TypeOK, Remaining
<1>3. \A k \in Lots : /\ view'[t][k] = IF LiveFor(t, k) THEN PositivePart(Remaining(k)) ELSE 0
                      /\ draw'[t][k] = 0 /\ Remaining(k)' = Remaining(k)
                      /\ LiveFor(t, k)' = LiveFor(t, k)
  BY <1>1, <1>2 DEF LedgerInv, TypeOK, Remaining, LiveFor
<1>4. \A k \in Lots : /\ view'[t][k] > 0 => Remaining(k) <= view'[t][k]
                      /\ LiveFor(t, k) /\ view'[t][k] = 0 => Remaining(k) <= 0
  BY <1>2, <1>3 DEF PositivePart
<1>5. \A l \in Lots : ~ (draw'[t][l] > 0)
  BY <1>3
<1> QED BY <1>3, <1>4, <1>5 DEF DrawnSoFar, UsedUp

\* The next lot is drawn from when those before it are used up.
LEMMA DrawLotInOrder ==
  ASSUME LedgerInv, NEW t \in Txs, DrawnSoFar(t), NEW l \in Lots, DrawLot(t, l)
  PROVE  DrawnSoFar(t)'
<1>1. PICK take : take = LesserOf(budget[t], view[t][l])
  OBVIOUS
<1>2. /\ UNCHANGED <<lots, born, spent, forfeited, began>>
      /\ budget[t] > 0 /\ view[t][l] > 0
      /\ \A k \in Lots : view[t][k] > 0 => k = l \/ DrawnBefore(l, k)
      /\ draw' = [draw EXCEPT ![t] = [draw[t] EXCEPT ![l] = take]]
      /\ budget' = [budget EXCEPT ![t] = budget[t] - take]
      /\ view' = [view EXCEPT ![t] = [view[t] EXCEPT ![l] = 0]]
  BY <1>1 DEF DrawLot, NextLot, ledger
<1>3. /\ budget[t] \in Int /\ view[t] \in [Lots -> Nat] /\ draw[t] \in [Lots -> Nat]
      /\ budget' = [budget EXCEPT ![t] = budget[t] - take]
      /\ \A k \in Lots : Remaining(k) \in Int /\ Remaining(k)' = Remaining(k)
      /\ \A k \in Lots : LiveFor(t, k)' = LiveFor(t, k)
      /\ \A j, k \in Lots : DrawnBefore(j, k)' = DrawnBefore(j, k)
  BY <1>2, LotAssumption DEF LedgerInv, TypeOK, Remaining, LiveFor, DrawnBefore
<1>4. /\ take \in Nat /\ take <= view[t][l] /\ budget'[t] = budget[t] - take
      /\ budget'[t] > 0 => take = view[t][l]
  <2>1. budget'[t] = budget[t] - take
    BY <1>2 DEF LedgerInv, TypeOK
  <2> QED BY <1>1, <1>2, <1>3, <2>1 DEF LesserOf
<1>5. \A k \in Lots : /\ draw'[t][k] = IF k = l THEN take ELSE draw[t][k]
                      /\ view'[t][k] = IF k = l THEN 0 ELSE view[t][k]
  BY <1>2, <1>3 DEF LedgerInv, TypeOK
<1>6. \A k \in Lots : view'[t][k] > 0 => draw'[t][k] = 0 /\ Remaining(k)' <= view'[t][k]
  BY <1>3, <1>5 DEF DrawnSoFar
<1>7. Remaining(l) <= view[t][l]
  BY <1>2 DEF DrawnSoFar
<1>8. \A k \in Lots : LiveFor(t, k) /\ view[t][k] = 0 => Remaining(k) <= draw[t][k]
  BY <1>2 DEF DrawnSoFar, UsedUp
<1>9. ASSUME budget'[t] > 0, NEW k \in Lots, LiveFor(t, k)', view'[t][k] = 0
      PROVE  UsedUp(t, k)'
  <2>1. Remaining(k) <= draw'[t][k]
    <3>1. CASE k = l
      BY <1>4, <1>5, <1>7, <1>9, <3>1
    <3>2. CASE k # l
      BY <1>3, <1>5, <1>8, <1>9, <3>2
    <3> QED BY <3>1, <3>2
  <2> QED BY <1>3, <2>1 DEF UsedUp
<1>10. ASSUME NEW k \in Lots, LiveFor(t, k), DrawnBefore(k, l) PROVE view[t][k] = 0 /\ k # l
  <2>1. Expiry[k] \in Int /\ Expiry[l] \in Int /\ born[k] \in Int /\ born[l] \in Int
        /\ k \in Int /\ l \in Int
    <3>1. born[k] \in Int /\ born[l] \in Int
      BY DEF LedgerInv, TypeOK
    <3>2. Expiry[k] \in Int /\ Expiry[l] \in Int
      BY LotAssumption, CountAssumption DEF Never
    <3>3. k \in Int /\ l \in Int
      BY DEF Lots
    <3> QED BY <3>1, <3>2, <3>3
  <2>2. k # l /\ ~ DrawnBefore(l, k)
    BY <1>10, <2>1 DEF DrawnBefore
  <2>3. view[t][k] \in Nat /\ ~ (view[t][k] > 0)
    BY <1>2, <1>3, <2>2
  <2> QED BY <2>2, <2>3
<1>11. ASSUME NEW j \in Lots, NEW k \in Lots,
              draw'[t][j] > 0, LiveFor(t, k)', DrawnBefore(k, j)'
       PROVE  UsedUp(t, k)'
  <2>1. LiveFor(t, k) /\ DrawnBefore(k, j)
    BY <1>3, <1>11
  <2>2. Remaining(k) <= draw'[t][k]
    <3>1. CASE j = l
      BY <1>5, <1>8, <1>10, <2>1, <3>1
    <3>2. CASE j # l
      <4>1. Remaining(k) <= draw[t][k]
        BY <1>5, <1>11, <2>1, <3>2 DEF DrawnSoFar, UsedUp
      <4>2. draw[t][k] <= draw'[t][k]
        <5>1. draw[t][l] = 0
          BY <1>2 DEF DrawnSoFar
        <5> QED BY <1>3, <1>4, <1>5, <5>1
      <4>3. draw[t][k] \in Int /\ draw'[t][k] \in Int
        BY <1>3, <1>4, <1>5
      <4> QED BY <1>3, <4>1, <4>2, <4>3
    <3> QED BY <3>1, <3>2
  <2> QED BY <1>3, <2>2 DEF UsedUp
<1> QED BY <1>6, <1>9, <1>11 DEF DrawnSoFar

LEMMA OrderStep == OrderInv /\ [Next]_vars => OrderInv'
<1> SUFFICES ASSUME OrderInv, [Next]_vars PROVE OrderInv'
  OBVIOUS
<1>1. LedgerInv /\ LedgerInv'
  BY InvStep DEF OrderInv
<1>2. ASSUME NEW t \in Txs, pc'[t] \in Drawing PROVE DrawnSoFar(t)'
  <2>1. CASE pc[t] \in Drawing
    <3>1. DrawnSoFar(t)
      BY <2>1 DEF OrderInv
    <3>2. ASSUME NEW l \in Lots, DrawLot(t, l) PROVE DrawnSoFar(t)'
      BY <1>1, <3>1, <3>2, DrawLotInOrder
    <3>3. CASE /\ UNCHANGED <<lots, born, spent, forfeited>> /\ began'[t] = began[t]
               /\ budget'[t] = budget[t] /\ view'[t] = view[t] /\ draw'[t] = draw[t]
      BY <3>1, <3>3 DEF DrawnSoFar, UsedUp, LiveFor, Remaining, DrawnBefore
    <3> QED BY <1>1, <1>2, <2>1, <3>2, <3>3, DrawerUndisturbed
  <2>2. CASE pc[t] \notin Drawing
    <3>1. pc'[t] # pc[t]
      BY <1>2, <2>2
    <3>2. ReadLots(t)
      <4>1. ASSUME NEW u \in Txs, Begin(u) \/ CheckPrior(u) \/ LockAccount(u) \/ ReadBalance(u)
                                  \/ Abort(u) \/ Commit(u) \/ CommitLands(u)
                                  \/ \E l \in Lots : DrawConflict(u, l)
            PROVE  FALSE
        <5>1. PICK a \in {"check", "done", "lock", "balance", "lots", "aborted", "lost"} :
                pc' = [pc EXCEPT ![u] = a]
          BY <4>1 DEF Begin, CheckPrior, LockAccount, ReadBalance, Abort, Commit, CommitLands,
             DrawConflict, Goto
        <5> QED BY <1>1, <1>2, <3>1, <5>1 DEF LedgerInv, TypeOK, Drawing
      <4>2. ASSUME NEW u \in Txs, CommitCutOff(u) PROVE FALSE
        BY <1>1, <2>2, <3>1, <4>2 DEF CommitCutOff, Goto, LedgerInv, TypeOK, Drawing
      <4>3. ASSUME NEW u \in Txs, ReadLots(u) PROVE u = t
        BY <1>1, <3>1, <4>3 DEF ReadLots, Goto, LedgerInv, TypeOK
      <4>4. ASSUME \/ UNCHANGED vars \/ Tick \/ \E l \in Lots : Grant(l)
                   \/ \E e \in Expirers : ExpireStep(e) \/ ExpireFails(e)
                   \/ \E u \in Txs, l \in Lots : DrawLot(u, l)
            PROVE  FALSE
        BY <3>1, <4>4 DEF vars, Tick, Grant, ExpireStep, ExpireScan, ExpireInsert, ExpireFails,
           DrawLot
      <4> QED BY <4>1, <4>2, <4>3, <4>4 DEF Next, TxStep
    <3> QED BY <1>1, <3>2, ReadLotsInOrder
  <2> QED BY <2>1, <2>2
<1> QED BY <1>1, <1>2 DEF OrderInv

(***************************************************************************)
(* Whatever an attempt draws becomes visible only when every lot that      *)
(* lapses sooner, or was granted sooner, and was live when the attempt     *)
(* began, is used up - late commits and forfeitures at work or not         *)
(* (credits.go:93-95, 151-159).                                            *)
(***************************************************************************)
THEOREM SoonestLapsingFirst == Spec => DrawsInOrder
<1>1. Init => OrderInv
  <2> SUFFICES ASSUME Init PROVE OrderInv
    OBVIOUS
  <2> QED BY InvInit DEF Init, OrderInv, Drawing
<1>2. OrderInv /\ [Next]_vars =>
        [\A t \in Txs :
           (pc[t] \in {"draw", "inflight"} /\ pc'[t] \in {"done", "lost"}) =>
             \A l, k \in Lots :
               (/\ draw[t][l] > 0
                /\ k \in lots
                /\ DrawnBefore(k, l)
                /\ Expiry[k] > began[t]) => Remaining(k)' <= 0]_vars
  <2> SUFFICES ASSUME OrderInv, [Next]_vars,
                      NEW t \in Txs, pc[t] \in Drawing, pc'[t] \in {"done", "lost"},
                      NEW l \in Lots, NEW k \in Lots,
                      draw[t][l] > 0, k \in lots, DrawnBefore(k, l), Expiry[k] > began[t]
               PROVE  Remaining(k)' <= 0
    BY DEF Drawing
  <2>1. TypeOK /\ Remaining(k) <= draw[t][k] /\ draw[t][k] \in Int
    BY DEF OrderInv, DrawnSoFar, LiveFor, UsedUp, LedgerInv, TypeOK
  <2>2. pc'[t] # pc[t] /\ pc[t] \notin {"check"}
    BY DEF Drawing
  <2>3. Land(t)
    <3>1. ASSUME NEW u \in Txs, Begin(u) \/ LockAccount(u) \/ ReadBalance(u)
                                \/ ReadLots(u) \/ Abort(u) \/ CommitCutOff(u)
                                \/ \E j \in Lots : DrawConflict(u, j)
          PROVE  FALSE
      <4>1. PICK a \in {"check", "lock", "balance", "lots", "draw", "aborted", "inflight"} :
              pc' = [pc EXCEPT ![u] = a]
        BY <3>1 DEF Begin, LockAccount, ReadBalance, ReadLots, Abort, CommitCutOff,
           DrawConflict, Goto
      <4> QED BY <2>1, <2>2, <4>1 DEF TypeOK
    <3>2. ASSUME NEW u \in Txs, CheckPrior(u) PROVE FALSE
      BY <2>1, <2>2, <3>2 DEF CheckPrior, Goto, TypeOK
    <3>3. ASSUME NEW u \in Txs, Commit(u) \/ CommitLands(u) PROVE u = t /\ Land(u)
      BY <2>1, <2>2, <3>3 DEF Commit, CommitLands, Goto, TypeOK
    <3>4. ASSUME \/ UNCHANGED vars \/ Tick \/ \E j \in Lots : Grant(j)
                 \/ \E e \in Expirers : ExpireStep(e) \/ ExpireFails(e)
                 \/ \E u \in Txs, j \in Lots : DrawLot(u, j)
          PROVE  FALSE
      BY <2>2, <3>4 DEF vars, Tick, Grant, ExpireStep, ExpireScan, ExpireInsert, ExpireFails,
         DrawLot
    <3> QED BY <3>1, <3>2, <3>3, <3>4 DEF Next, TxStep
  <2>4. Remaining(k)' = Remaining(k) - draw[t][k]
    BY <2>1, <2>3, LotAssumption DEF Land, Remaining, TypeOK
  <2>5. Remaining(k) \in Int
    BY <2>1, LotAssumption DEF Remaining, TypeOK
  <2> QED BY <2>1, <2>4, <2>5
<1>3. OrderInv /\ [Next]_vars => OrderInv'
  BY OrderStep
<1> QED BY <1>1, <1>2, <1>3, PTL DEF Spec, DrawsInOrder
=============================================================================
