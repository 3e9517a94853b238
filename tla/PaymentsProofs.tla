--------------------------- MODULE PaymentsProofs ---------------------------
(***************************************************************************)
(* Theorems about the two ways money comes in without a customer at the    *)
(* console, payments in USDC (CryptoTopUps) and the charging of invoices   *)
(* (InvoiceCharging), and about the documents of it all: invoices,         *)
(* receipts and statements (BillingDocuments).  And about what is sold: a  *)
(* model of the catalog, its price, its key and its check (ModelCatalog).  *)
(***************************************************************************)
EXTENDS CryptoTopUps, InvoiceCharging, BillingDocuments, ModelCatalog, FiniteSetTheorems,
        TLAPS

-----------------------------------------------------------------------------
(* USDC.  A link that still waits, or was never made, has no signature; a  *)
(* signature is that of a transaction already on the chain, no two links   *)
(* have the same, and what a link credits is within what it brought in.    *)

LinkRow == [status : {Unmade, "pending", "failed", "review", "succeeded"}, created : Nat,
            sig : Nat, credited : Nat, due : BOOLEAN]
Transaction == [refs : SUBSET Links, micro : Int, at : Nat]

CryptoTypeOK ==
  /\ usdc \in [Links -> LinkRow]
  /\ counted \in [Links -> {Unmade, "counted", "made"}]
  /\ onChain \in Seq(Transaction)
  /\ tick \in Nat

UnpaidHasNothing ==
  \A l \in Links : usdc[l].status \in {Unmade, "pending", "failed"} =>
    usdc[l].sig = 0 /\ usdc[l].credited = 0

CountedIsUnmade == \A l \in Links : counted[l] = "counted" => usdc[l].status = Unmade

SignaturesAreUnique ==
  \A k, l \in Links : k # l /\ usdc[k].sig # 0 => usdc[k].sig # usdc[l].sig

CreditedIsReceived ==
  \A l \in Links : usdc[l].sig # 0 =>
    /\ usdc[l].sig \in DOMAIN onChain
    /\ usdc[l].credited * MicroPerCent <= onChain[usdc[l].sig].micro

CryptoInv ==
  CryptoTypeOK /\ UnpaidHasNothing /\ CountedIsUnmade /\ SignaturesAreUnique /\ CreditedIsReceived

\* MicroToCents rounds down: the cents are worth no more than the amount.
LEMMA CentsRoundDown ==
  ASSUME NEW micro \in Nat
  PROVE  ToCents(micro) \in Nat /\ ToCents(micro) * MicroPerCent <= micro
<1>1. MicroPerCent \in Nat \ {0}
  BY CryptoAssumption
<1> QED BY <1>1 DEF ToCents

LEMMA CryptoInitially == CryptoInit => CryptoInv
BY DEF CryptoInit, CryptoInv, CryptoTypeOK, LinkRow, Unmade, UnpaidHasNothing, CountedIsUnmade,
       SignaturesAreUnique, CreditedIsReceived

\* A step that gives no link a signature.
LEMMA UnsettledKeeps ==
  ASSUME CryptoInv, UNCHANGED onChain, tick' \in Nat, usdc' \in [Links -> LinkRow],
         counted' \in [Links -> {Unmade, "counted", "made"}], CountedIsUnmade',
         \A l \in Links :
           /\ usdc'[l].sig = usdc[l].sig /\ usdc'[l].credited = usdc[l].credited
           /\ \/ usdc'[l].status = usdc[l].status
              \/ usdc[l].status \in {Unmade, "pending", "failed"}
  PROVE  CryptoInv'
BY DEF CryptoInv, CryptoTypeOK, UnpaidHasNothing, SignaturesAreUnique, CreditedIsReceived

LEMMA SettleKeeps ==
  ASSUME CryptoInv, NEW l \in Links, NEW x \in DOMAIN onChain, IsPayment(x, l),
         SignatureFree(x, l), Waiting(l), usdc' = SettleLink(l, x),
         UNCHANGED <<counted, onChain, tick>>
  PROVE  CryptoInv'
<1>1. /\ usdc \in [Links -> LinkRow] /\ usdc[l] \in LinkRow /\ onChain \in Seq(Transaction) /\ tick \in Nat
      /\ x \in Nat \ {0}
  BY DEF CryptoInv, CryptoTypeOK
<1>2. onChain[x] \in Transaction
  BY <1>1
<1>3. onChain[x].micro \in Nat
  BY <1>2 DEF Transaction, IsPayment
<1>4. usdc[l].credited = 0 /\ usdc[l].sig = 0
  BY DEF CryptoInv, UnpaidHasNothing, Waiting
<1>5. ToCents(onChain[x].micro) \in Nat
  BY <1>1, <1>3, CentsRoundDown
<1>6. /\ \A k \in Links \ {l} : usdc'[k] = usdc[k]
      /\ DOMAIN usdc' = Links
      /\ usdc'[l].sig = x /\ usdc'[l].credited \in {0, ToCents(onChain[x].micro)}
      /\ usdc'[l].status \in {"review", "succeeded"}
      /\ usdc'[l] \in LinkRow
  <2> DEFINE cents == ToCents(onChain[x].micro)
             good == [usdc[l] EXCEPT !.status = "succeeded", !.sig = x, !.credited = usdc[l].credited + cents]
             odd  == [usdc[l] EXCEPT !.status = "review", !.sig = x]
  <2>1. good \in LinkRow /\ good.sig = x /\ good.status = "succeeded" /\ good.credited = cents
    <3>1. cents \in Nat /\ usdc[l].credited + cents = cents
      BY <1>4, <1>5
    <3> HIDE DEF cents
    <3> QED BY <1>1, <3>1 DEF LinkRow
  <2>2. odd \in LinkRow /\ odd.sig = x /\ odd.status = "review" /\ odd.credited = 0
    BY <1>1, <1>4 DEF LinkRow
  <2>3. CASE InRange(x)
    <3>1. usdc' = [usdc EXCEPT ![l] = good]
      BY <1>1, <2>3 DEF SettleLink, LinkRow
    <3> HIDE DEF good, cents
    <3>2. usdc'[l] = good /\ DOMAIN usdc' = Links /\ \A k \in Links \ {l} : usdc'[k] = usdc[k]
      BY <1>1, <3>1
    <3> QED BY <2>1, <3>2 DEF cents
  <2>4. CASE ~InRange(x)
    <3>1. usdc' = [usdc EXCEPT ![l] = odd]
      BY <1>1, <2>4 DEF SettleLink, LinkRow
    <3> HIDE DEF odd, cents
    <3>2. usdc'[l] = odd /\ DOMAIN usdc' = Links /\ \A k \in Links \ {l} : usdc'[k] = usdc[k]
      BY <1>1, <3>1
    <3> QED BY <2>2, <3>2
  <2> QED BY <2>3, <2>4
<1>7. usdc'[l].credited * MicroPerCent <= onChain[x].micro
  BY <1>3, <1>6, CentsRoundDown, CryptoAssumption
<1>8. \A k \in Links : usdc'[k] \in LinkRow
  BY <1>1, <1>6
<1>9. usdc' \in [Links -> LinkRow]
  <2>1. usdc' = [k \in Links |-> usdc'[k]]
    BY <1>1 DEF SettleLink
  <2> QED BY <1>8, <2>1
<1>10. CryptoTypeOK' /\ UnpaidHasNothing' /\ CountedIsUnmade'
  BY <1>1, <1>6, <1>9 DEF CryptoInv, CryptoTypeOK, UnpaidHasNothing, CountedIsUnmade, Waiting,
         Unmade
<1>11. SignaturesAreUnique'
  BY <1>1, <1>6 DEF CryptoInv, SignaturesAreUnique, SignatureFree
<1>12. CreditedIsReceived'
  BY <1>1, <1>6, <1>7 DEF CryptoInv, CreditedIsReceived
<1> QED BY <1>10, <1>11, <1>12 DEF CryptoInv

LEMMA CryptoStep == CryptoInv /\ [CryptoNext]_cryptoVars => CryptoInv'
<1> SUFFICES ASSUME CryptoInv, [CryptoNext]_cryptoVars PROVE CryptoInv'
  OBVIOUS
<1>1. /\ usdc \in [Links -> LinkRow] /\ onChain \in Seq(Transaction) /\ tick \in Nat
      /\ counted \in [Links -> {Unmade, "counted", "made"}] /\ CountedIsUnmade
  BY DEF CryptoInv, CryptoTypeOK
<1>2. CASE UNCHANGED <<usdc, counted, onChain, tick>>
  BY <1>2 DEF CryptoInv, CryptoTypeOK, UnpaidHasNothing, CountedIsUnmade, SignaturesAreUnique,
              CreditedIsReceived
<1>3. ASSUME NEW l \in Links, CountUnpaid(l) \/ InsertLink(l) PROVE CryptoInv'
  <2>1. CASE CountUnpaid(l)
    <3>1. /\ UNCHANGED <<usdc, onChain, tick>> /\ usdc[l].status = Unmade
          /\ counted' = [counted EXCEPT ![l] = "counted"]
      BY <2>1 DEF CountUnpaid
    <3>2. counted' \in [Links -> {Unmade, "counted", "made"}] /\ CountedIsUnmade'
      BY <1>1, <3>1 DEF CountedIsUnmade
    <3> QED BY <1>1, <3>1, <3>2, UnsettledKeeps
  <2>2. CASE InsertLink(l)
    <3>1. /\ UNCHANGED <<onChain, tick>>
          /\ usdc' = [usdc EXCEPT ![l].status = "pending", ![l].created = tick]
          /\ counted[l] = "counted" /\ counted' = [counted EXCEPT ![l] = "made"]
      BY <2>2 DEF InsertLink
    <3>2. usdc' = [usdc EXCEPT ![l] = [usdc[l] EXCEPT !.status = "pending", !.created = tick]]
      BY <3>1
    <3>3. \A k \in Links \ {l} : usdc'[k] = usdc[k] /\ counted'[k] = counted[k]
      BY <1>1, <3>1, <3>2
    <3>4. /\ usdc'[l] \in LinkRow /\ usdc'[l].sig = usdc[l].sig
          /\ usdc'[l].credited = usdc[l].credited
      BY <1>1, <3>2 DEF LinkRow
    <3>5. counted' \in [Links -> {Unmade, "counted", "made"}] /\ usdc' \in [Links -> LinkRow]
      BY <1>1, <3>1, <3>2, <3>4
    <3>6. usdc[l].status = Unmade /\ CountedIsUnmade'
      BY <1>1, <3>1, <3>3 DEF CountedIsUnmade, Unmade
    <3> QED BY <1>1, <3>1, <3>3, <3>4, <3>5, <3>6, UnsettledKeeps
  <2> QED BY <1>3, <2>1, <2>2
<1>4. ASSUME NEW refs \in SUBSET Links \ {{}}, NEW micro \in Transfers, Finalize(refs, micro)
      PROVE  CryptoInv'
  <2> DEFINE t == [refs |-> refs, micro |-> micro, at |-> tick]
  <2>1. t \in Transaction
    BY <1>1, CryptoAssumption DEF Transaction
  <2>2. onChain' = Append(onChain, t) /\ UNCHANGED <<usdc, counted, tick>>
    BY <1>4 DEF Finalize
  <2>3. /\ onChain' \in Seq(Transaction)
        /\ \A x \in DOMAIN onChain : x \in DOMAIN onChain' /\ onChain'[x] = onChain[x]
    BY <1>1, <2>1, <2>2
  <2> QED BY <1>1, <2>2, <2>3 DEF CryptoInv, CryptoTypeOK, UnpaidHasNothing, CountedIsUnmade,
           SignaturesAreUnique, CreditedIsReceived
<1>5. CASE Tick
  <2>1. usdc' = [l \in Links |-> [usdc[l] EXCEPT !.due = TRUE]]
    BY <1>5 DEF Tick
  <2>2. \A l \in Links : /\ usdc'[l] \in LinkRow /\ usdc'[l].sig = usdc[l].sig
                          /\ usdc'[l].credited = usdc[l].credited /\ usdc'[l].status = usdc[l].status
    BY <1>1, <2>1 DEF LinkRow
  <2>3. usdc' \in [Links -> LinkRow] /\ tick' \in Nat /\ UNCHANGED <<counted, onChain>>
    BY <1>1, <1>5, <2>1, <2>2 DEF Tick
  <2>4. CountedIsUnmade'
    BY <1>1, <2>2, <2>3 DEF CountedIsUnmade
  <2> QED BY <1>1, <2>2, <2>3, <2>4, UnsettledKeeps
<1>6. ASSUME NEW w \in Watchers, SweepLinks(w) PROVE CryptoInv'
  <2> DEFINE late == {l \in Links : Waiting(l) /\ ~MadeAt(l)}
             claimed == {l \in Links : Waiting(l) /\ MadeAt(l) /\ usdc[l].due}
  <2>1. /\ UNCHANGED <<counted, onChain, tick>>
        /\ usdc' = [l \in Links |->
                      IF l \in late THEN [usdc[l] EXCEPT !.status = "failed"]
                      ELSE IF l \in claimed THEN [usdc[l] EXCEPT !.due = FALSE]
                      ELSE usdc[l]]
    BY <1>6 DEF SweepLinks
  <2>2. \A l \in Links :
          /\ usdc'[l] \in LinkRow /\ usdc'[l].sig = usdc[l].sig
          /\ usdc'[l].credited = usdc[l].credited
          /\ usdc'[l].status = usdc[l].status \/ usdc[l].status = "pending"
    BY <1>1, <2>1 DEF LinkRow, Waiting
  <2>3. usdc' \in [Links -> LinkRow]
    BY <2>1, <2>2
  <2>4. CountedIsUnmade'
    BY <1>1, <2>1, <2>2 DEF CountedIsUnmade, Unmade
  <2> QED BY <1>1, <2>1, <2>2, <2>3, <2>4, UnsettledKeeps
<1>7. ASSUME NEW w \in Watchers, NEW x \in DOMAIN onChain, SettlePayment(w, x) PROVE CryptoInv'
  <2> DEFINE l == look[w].at
  <2>1. IsPayment(x, l) /\ UNCHANGED <<counted, onChain, tick>>
    BY <1>7 DEF SettlePayment
  <2>2. l \in Links
    <3>1. onChain[x] \in Transaction
      BY <1>1
    <3> QED BY <2>1, <3>1 DEF IsPayment, Transaction
  <2>3. CASE UNCHANGED usdc
    BY <1>2, <2>1, <2>3
  <2>4. CASE usdc' = SettleLink(l, x) /\ ~ (Waiting(l) /\ ~SignatureFree(x, l))
    <3>1. CASE Waiting(l)
      BY <2>1, <2>2, <2>4, <3>1, SettleKeeps
    <3>2. CASE ~Waiting(l)
      BY <2>3, <2>4, <3>2 DEF SettleLink
    <3> QED BY <3>1, <3>2
  <2> QED BY <1>7, <2>3, <2>4 DEF SettlePayment
<1>8. ASSUME NEW w \in Watchers, NEW x \in DOMAIN onChain, SkipTransaction(w, x) \/ SettleFails(w, x)
      PROVE  CryptoInv'
  BY <1>2, <1>8 DEF SkipTransaction, SettleFails
<1>9. ASSUME NEW w \in Watchers, NEW l \in Links, NEW answered \in BOOLEAN, LookUp(w, l, answered)
      PROVE  CryptoInv'
  BY <1>2, <1>9 DEF LookUp
<1>10. CASE UNCHANGED cryptoVars
  BY <1>2, <1>10 DEF cryptoVars
<1> QED BY <1>3, <1>4, <1>5, <1>6, <1>7, <1>8, <1>9, <1>10 DEF CryptoNext

\* One transaction on the chain pays at most one link, however many links it
\* names and however many watchers find it, and never credits more than it
\* brought in (crypto_topups.go:201-209).
THEOREM PaysAtMostOneLink == CryptoSpec => []TransactionPaysOnce
<1>1. CryptoInv => TransactionPaysOnce
  <2> SUFFICES ASSUME CryptoInv, NEW x \in DOMAIN onChain
               PROVE  LET paid == {l \in Links : usdc[l].sig = x}
                      IN  /\ Cardinality(paid) <= 1
                          /\ \A l \in paid : usdc[l].credited * MicroPerCent <= onChain[x].micro
    BY DEF TransactionPaysOnce
  <2> DEFINE paid == {l \in Links : usdc[l].sig = x}
  <2>1. x # 0
    BY DEF CryptoInv, CryptoTypeOK
  <2>2. \A l \in paid : usdc[l].credited * MicroPerCent <= onChain[x].micro
    BY <2>1 DEF CryptoInv, CreditedIsReceived
  <2>3. Cardinality(paid) <= 1
    <3>1. CASE paid = {}
      BY <3>1, FS_EmptySet
    <3>2. CASE paid # {}
      <4>1. PICK l \in paid : TRUE
        BY <3>2
      <4>2. paid = {l}
        BY <2>1, <4>1 DEF CryptoInv, SignaturesAreUnique
      <4>3. Cardinality({l}) = 1
        BY FS_Singleton
      <4> QED BY <4>2, <4>3
    <3> QED BY <3>1, <3>2
  <2> QED BY <2>2, <2>3
<1> QED BY <1>1, CryptoInitially, CryptoStep, PTL DEF CryptoSpec

-----------------------------------------------------------------------------
(* Invoices.  Money is taken for an invoice exactly when Stripe's answer   *)
(* for its key is "succeeded": who knows of that answer, the charge that   *)
(* heard it or the webhook that read it, knows of money that was taken.    *)

Answers == {"none", "lost", "succeeded", "declined", "processing"}

ChargerState ==
  {Quiet} \union [at : {"credit", "card", "call", "note", "end"}, inv : Numbers, answer : Answers]

InvoiceRow ==
  [period : Nat, by : {"cycle", "operator"}, status : {"draft", "open", "paid", "void"},
   attempts : Nat, intent : BOOLEAN, paidBy : {"none", "credit", "card"}, rested : BOOLEAN]

InvoiceTypeOK ==
  /\ lastMonth \in Nat
  /\ cycle \in [Cycles -> [at : {"idle", "draft", "issue"}, inv : Nat, ran : Nat]]
  /\ issued \in Seq(InvoiceRow) /\ Len(issued) <= MaxInvoices
  /\ charger \in [Chargers -> ChargerState]
  /\ intentOf \in [Numbers -> {"none", "succeeded", "declined", "processing"}]
  /\ taken \in [Numbers -> Nat]

TakenOnSuccess ==
  \A i \in Numbers : taken[i] = IF intentOf[i] = "succeeded" THEN 1 ELSE 0

HeardIsTaken ==
  \A c \in Chargers : charger[c].answer = "succeeded" /\ charger[c].inv \in Numbers
                        => intentOf[charger[c].inv] = "succeeded"

ReadIsTaken == hook.paid /\ hook.inv \in Numbers => intentOf[hook.inv] = "succeeded"

CardPaid(bill) == bill.status = "paid" /\ bill.paidBy = "card"

PaidIsTaken == \A i \in DOMAIN issued : CardPaid(issued[i]) => intentOf[i] = "succeeded"

InvoiceInv == InvoiceTypeOK /\ TakenOnSuccess /\ HeardIsTaken /\ ReadIsTaken /\ PaidIsTaken

LEMMA InvoiceInitially == InvoiceInit => InvoiceInv
BY InvoiceAssumption
   DEF InvoiceInit, InvoiceInv, InvoiceTypeOK, ChargerState, Quiet, Sleeping, TakenOnSuccess, HeardIsTaken,
       ReadIsTaken, PaidIsTaken

\* What a step may do to the invoices without paying one by card.
Kept(rows) ==
  /\ rows \in Seq(InvoiceRow) /\ Len(rows) <= MaxInvoices
  /\ \A i \in DOMAIN rows : CardPaid(rows[i]) => i \in DOMAIN issued /\ CardPaid(issued[i])

\* What a step may do to the charges without hearing of one that succeeded.
Unheard(states) ==
  /\ states \in [Chargers -> ChargerState]
  /\ \A c \in Chargers : states[c].answer = "succeeded" =>
       charger[c].answer = "succeeded" /\ states[c].inv = charger[c].inv

TypedCycles ==
  lastMonth \in Nat /\ cycle \in [Cycles -> [at : {"idle", "draft", "issue"}, inv : Nat, ran : Nat]]

LEMMA UnpaidKeeps ==
  ASSUME InvoiceInv, UNCHANGED <<intentOf, taken, hook>>, TypedCycles', Unheard(charger'), Kept(issued')
  PROVE  InvoiceInv'
BY DEF InvoiceInv, InvoiceTypeOK, TakenOnSuccess, HeardIsTaken, ReadIsTaken, PaidIsTaken,
       TypedCycles, Unheard, Kept

\* One invoice changes, and is not one the card has now paid.
LEMMA RowChanges ==
  ASSUME InvoiceInv, NEW i \in DOMAIN issued, NEW bill \in InvoiceRow,
         CardPaid(bill) => CardPaid(issued[i])
  PROVE  Kept([issued EXCEPT ![i] = bill])
BY DEF InvoiceInv, InvoiceTypeOK, Kept

LEMMA NothingChanges ==
  ASSUME InvoiceInv
  PROVE  Kept(issued) /\ Unheard(charger) /\ TypedCycles
BY DEF InvoiceInv, InvoiceTypeOK, Kept, Unheard, TypedCycles

LEMMA DraftIsKept ==
  ASSUME InvoiceInv, NEW p \in Nat, NEW by \in {"cycle", "operator"}, Draft(p, by)
  PROVE  Kept(issued') /\ Len(issued') \in Nat
<1> DEFINE bill == [period |-> p, by |-> by, status |-> "draft", attempts |-> 0, intent |-> FALSE,
                   paidBy |-> "none", rested |-> TRUE]
<1>1. bill \in InvoiceRow /\ ~CardPaid(bill)
  BY DEF InvoiceRow, CardPaid
<1>2. issued \in Seq(InvoiceRow) /\ Len(issued) < MaxInvoices /\ issued' = Append(issued, bill)
  BY DEF Draft, InvoiceInv, InvoiceTypeOK
<1> HIDE DEF bill
<1>3. /\ issued' \in Seq(InvoiceRow) /\ Len(issued') = Len(issued) + 1
      /\ \A i \in DOMAIN issued' : (i \in DOMAIN issued /\ issued'[i] = issued[i]) \/ issued'[i] = bill
  BY <1>1, <1>2
<1> QED BY <1>1, <1>2, <1>3, InvoiceAssumption DEF Kept

LEMMA FailureIsKept ==
  ASSUME InvoiceInv, NEW i, NEW bump \in BOOLEAN, RecordFailure(i, bump)
  PROVE  Kept(issued')
<1>1. issued \in Seq(InvoiceRow)
  BY DEF InvoiceInv, InvoiceTypeOK
<1>2. CASE i \notin DOMAIN issued
  <2>1. issued' = issued
    BY <1>1, <1>2 DEF RecordFailure
  <2> QED BY <2>1, NothingChanges
<1>3. CASE i \in DOMAIN issued
  <2> DEFINE n == IF bump THEN issued[i].attempts + 1 ELSE issued[i].attempts
             bill == [issued[i] EXCEPT !.attempts = n, !.rested = FALSE]
  <2>1. issued[i] \in InvoiceRow
    BY <1>1, <1>3
  <2>2. bill \in InvoiceRow /\ (CardPaid(bill) => CardPaid(issued[i]))
    <3>1. n \in Nat
      BY <2>1 DEF InvoiceRow
    <3> HIDE DEF n
    <3> QED BY <2>1, <3>1 DEF InvoiceRow, CardPaid
  <2>3. issued' = [issued EXCEPT ![i] = bill]
    BY <1>1, <1>3, <2>1 DEF RecordFailure, InvoiceRow
  <2> QED BY <1>3, <2>2, <2>3, RowChanges
<1> QED BY <1>2, <1>3

\* The card has paid an invoice: someone knows its money was taken.
LEMMA PaidKeeps ==
  ASSUME InvoiceInv, UNCHANGED <<intentOf, taken>>, TypedCycles', Unheard(charger'),
         hook'.paid => hook' = hook,
         NEW i, i \in Numbers => intentOf[i] = "succeeded", MarkPaid(i, "card")
  PROVE  InvoiceInv'
<1>1. issued' = [issued EXCEPT ![i].status = "paid", ![i].paidBy = "card"]
  BY DEF MarkPaid
<1>2. issued \in Seq(InvoiceRow) /\ Len(issued) <= MaxInvoices
  BY DEF InvoiceInv, InvoiceTypeOK
<1>3. \A j \in DOMAIN issued : issued[j] \in InvoiceRow
  BY <1>2
<1>4. /\ issued' \in Seq(InvoiceRow) /\ Len(issued') = Len(issued)
      /\ DOMAIN issued' = DOMAIN issued
      /\ \A j \in DOMAIN issued \ {i} : issued'[j] = issued[j]
  <2>1. CASE i \in DOMAIN issued
    <3> DEFINE bill == [issued[i] EXCEPT !.status = "paid", !.paidBy = "card"]
    <3>1. issued' = [issued EXCEPT ![i] = bill]
      BY <1>1, <1>2, <1>3, <2>1 DEF InvoiceRow
    <3>2. bill \in InvoiceRow
      BY <1>3, <2>1 DEF InvoiceRow
    <3> HIDE DEF bill
    <3> QED BY <1>2, <2>1, <3>1, <3>2
  <2>2. CASE i \notin DOMAIN issued
    <3>1. issued' = issued
      BY <1>1, <1>2, <2>2
    <3> QED BY <1>2, <3>1
  <2> QED BY <2>1, <2>2
<1>5. DOMAIN issued \subseteq Numbers
  BY <1>2, InvoiceAssumption DEF Numbers
<1> QED BY <1>2, <1>4, <1>5 DEF InvoiceInv, InvoiceTypeOK, TakenOnSuccess, HeardIsTaken,
         ReadIsTaken, PaidIsTaken, TypedCycles, Unheard

LEMMA CreditPaidIsKept ==
  ASSUME InvoiceInv, NEW i, MarkPaid(i, "credit")
  PROVE  Kept(issued')
<1>1. issued' = [issued EXCEPT ![i].status = "paid", ![i].paidBy = "credit"] /\ issued \in Seq(InvoiceRow)
  BY DEF MarkPaid, InvoiceInv, InvoiceTypeOK
<1>2. CASE i \notin DOMAIN issued
  <2>1. issued' = issued
    BY <1>1, <1>2
  <2> QED BY <2>1, NothingChanges
<1>3. CASE i \in DOMAIN issued
  <2> DEFINE bill == [issued[i] EXCEPT !.status = "paid", !.paidBy = "credit"]
  <2>1. issued[i] \in InvoiceRow
    BY <1>1, <1>3
  <2>2. bill \in InvoiceRow /\ ~CardPaid(bill)
    BY <2>1 DEF InvoiceRow, CardPaid
  <2>3. issued' = [issued EXCEPT ![i] = bill]
    BY <1>1, <1>3, <2>1 DEF InvoiceRow
  <2> QED BY <1>3, <2>2, <2>3, RowChanges
<1> QED BY <1>2, <1>3

\* A charge that hears nothing new is unheard of.
LEMMA OneCharges ==
  ASSUME InvoiceInv, NEW c \in Chargers, NEW state \in ChargerState,
         state.answer = "succeeded" => charger[c].answer = "succeeded" /\ state.inv = charger[c].inv
  PROVE  Unheard([charger EXCEPT ![c] = state])
BY DEF InvoiceInv, InvoiceTypeOK, Unheard

LEMMA QuietIsUnheard ==
  ASSUME InvoiceInv, NEW c \in Chargers
  PROVE  Unheard([charger EXCEPT ![c] = Quiet])
BY OneCharges DEF Quiet, ChargerState, Answers

LEMMA CyclesKeep ==
  ASSUME InvoiceInv,
         \/ \E c \in Cycles : \/ CycleDrafts(c) \/ CycleIssues(c) \/ CycleRestarts(c)
                              \/ \E failed \in BOOLEAN : CycleChecks(c, failed)
         \/ \E p \in 1 .. MaxMonths : Generate(p)
         \/ PassMonth
  PROVE  InvoiceInv'
<1>1. /\ lastMonth \in Nat /\ issued \in Seq(InvoiceRow)
      /\ cycle \in [Cycles -> [at : {"idle", "draft", "issue"}, inv : Nat, ran : Nat]]
      /\ Kept(issued) /\ Unheard(charger) /\ TypedCycles
  BY NothingChanges DEF InvoiceInv, InvoiceTypeOK
<1>2. CASE PassMonth
  BY <1>1, <1>2, UnpaidKeeps DEF PassMonth, TypedCycles
<1>3. ASSUME NEW p \in 1 .. MaxMonths, Generate(p) PROVE InvoiceInv'
  <2>1. p \in Nat /\ Draft(p, "operator") /\ UNCHANGED <<lastMonth, cycle, charger, intentOf, taken, hook>>
    BY <1>1, <1>3 DEF Generate
  <2>2. Kept(issued')
    BY <2>1, DraftIsKept
  <2> QED BY <1>1, <2>1, <2>2, UnpaidKeeps DEF TypedCycles
<1>4. ASSUME NEW c \in Cycles, NEW failed \in BOOLEAN, CycleChecks(c, failed) \/ CycleRestarts(c)
      PROVE  InvoiceInv'
  <2>1. UNCHANGED <<lastMonth, issued, charger, intentOf, taken, hook>>
    BY <1>4 DEF CycleChecks, CycleRestarts
  <2>2. PICK state \in {Sleeping, [Sleeping EXCEPT !.ran = lastMonth],
                        [cycle[c] EXCEPT !.at = "draft", !.inv = lastMonth]} :
          cycle' = [cycle EXCEPT ![c] = state]
    BY <1>4 DEF CycleChecks, CycleRestarts
  <2>3. state \in [at : {"idle", "draft", "issue"}, inv : Nat, ran : Nat]
    <3>1. cycle[c] \in [at : {"idle", "draft", "issue"}, inv : Nat, ran : Nat] /\ lastMonth \in Nat
      BY <1>1
    <3>2. [cycle[c] EXCEPT !.at = "draft", !.inv = lastMonth]
            \in [at : {"idle", "draft", "issue"}, inv : Nat, ran : Nat]
      BY <3>1
    <3>3. /\ Sleeping \in [at : {"idle", "draft", "issue"}, inv : Nat, ran : Nat]
          /\ [Sleeping EXCEPT !.ran = lastMonth]
               \in [at : {"idle", "draft", "issue"}, inv : Nat, ran : Nat]
      BY <3>1 DEF Sleeping
    <3> QED BY <2>2, <3>2, <3>3
  <2> QED BY <1>1, <2>1, <2>2, <2>3, UnpaidKeeps DEF TypedCycles
<1>5. ASSUME NEW c \in Cycles, CycleDrafts(c) PROVE InvoiceInv'
  <2>1. cycle[c].inv \in Nat /\ Draft(cycle[c].inv, "cycle")
    BY <1>1, <1>5 DEF CycleDrafts
  <2>2. Kept(issued') /\ Len(issued') \in Nat
    BY <2>1, DraftIsKept
  <2>3. /\ cycle' = [cycle EXCEPT ![c].at = "issue", ![c].inv = Len(issued')]
        /\ UNCHANGED <<lastMonth, charger, intentOf, taken, hook>>
    BY <1>5 DEF CycleDrafts
  <2>4. cycle' = [cycle EXCEPT ![c] = [cycle[c] EXCEPT !.at = "issue", !.inv = Len(issued')]]
    BY <1>1, <2>3
  <2>5. TypedCycles'
    BY <1>1, <2>2, <2>3, <2>4 DEF TypedCycles
  <2> QED BY <1>1, <2>2, <2>3, <2>5, UnpaidKeeps
<1>6. ASSUME NEW c \in Cycles, CycleIssues(c) PROVE InvoiceInv'
  <2> DEFINE i == cycle[c].inv
  <2>1. /\ cycle' = [cycle EXCEPT ![c] = [Sleeping EXCEPT !.ran = lastMonth]]
        /\ UNCHANGED <<lastMonth, charger, intentOf, taken, hook>>
        /\ IF issued[i].status = "draft" THEN issued' = [issued EXCEPT ![i].status = "open"]
           ELSE UNCHANGED issued
    BY <1>6 DEF CycleIssues
  <2>2. TypedCycles'
    BY <1>1, <2>1 DEF TypedCycles, Sleeping
  <2>3. Kept(issued')
    <3>1. CASE issued' = issued
      BY <1>1, <3>1
    <3>2. CASE issued' # issued
      <4> DEFINE bill == [issued[i] EXCEPT !.status = "open"]
      <4>1. i \in DOMAIN issued /\ issued' = [issued EXCEPT ![i].status = "open"]
        BY <1>1, <2>1, <3>2
      <4>2. issued[i] \in InvoiceRow
        BY <1>1, <4>1
      <4>3. bill \in InvoiceRow /\ ~CardPaid(bill) /\ issued' = [issued EXCEPT ![i] = bill]
        BY <1>1, <4>1, <4>2 DEF InvoiceRow, CardPaid
      <4> QED BY <4>1, <4>3, RowChanges
    <3> QED BY <3>1, <3>2
  <2> QED BY <1>1, <2>1, <2>2, <2>3, UnpaidKeeps
<1>7. PassMonth \/ (\E p \in 1 .. MaxMonths : Generate(p))
      \/ (\E c \in Cycles : CycleDrafts(c) \/ CycleIssues(c))
      \/ (\E c \in Cycles, failed \in BOOLEAN : CycleChecks(c, failed) \/ CycleRestarts(c))
  BY Zenon
<1> QED BY <1>2, <1>3, <1>4, <1>5, <1>6, <1>7

\* The operators' changes of an invoice, its back-off, and the charges that
\* do not reach Stripe.
LEMMA InvoicesKeep ==
  ASSUME InvoiceInv, NEW i \in Numbers,
         Rest(i) \/ \E status \in {"open", "void"} : IssueOrVoid(i, status)
  PROVE  InvoiceInv'
<1>1. issued \in Seq(InvoiceRow) /\ Kept(issued) /\ Unheard(charger) /\ TypedCycles
  BY NothingChanges DEF InvoiceInv, InvoiceTypeOK
<1>2. i \in DOMAIN issued /\ UNCHANGED <<lastMonth, cycle, charger, intentOf, taken, hook>>
  BY DEF Rest, IssueOrVoid
<1>3. issued[i] \in InvoiceRow
  BY <1>1, <1>2
<1>4. PICK bill \in {[issued[i] EXCEPT !.rested = TRUE], [issued[i] EXCEPT !.status = "open"],
                    [issued[i] EXCEPT !.status = "void"]} :
        issued' = [issued EXCEPT ![i] = bill]
  BY <1>1, <1>2, <1>3 DEF Rest, IssueOrVoid, InvoiceRow
<1>5. bill \in InvoiceRow /\ (CardPaid(bill) => CardPaid(issued[i]))
  BY <1>3, <1>4 DEF InvoiceRow, CardPaid
<1>6. Kept(issued')
  BY <1>2, <1>4, <1>5, RowChanges
<1> QED BY <1>1, <1>2, <1>6, UnpaidKeeps DEF TypedCycles

LEMMA OffStripeKeeps ==
  ASSUME InvoiceInv, NEW c \in Chargers,
         \/ SettleByCredit(c) \/ NoCard(c) \/ Reserve(c) \/ NoteIntent(c) \/ ChargeCrashes(c)
         \/ \E i \in Numbers, covered \in BOOLEAN : Load(c, i, covered)
  PROVE  InvoiceInv'
<1>1. /\ issued \in Seq(InvoiceRow) /\ Kept(issued) /\ Unheard(charger) /\ TypedCycles
      /\ charger \in [Chargers -> ChargerState] /\ charger[c] \in ChargerState
  BY NothingChanges DEF InvoiceInv, InvoiceTypeOK
<1>2. UNCHANGED <<lastMonth, cycle, intentOf, taken, hook>>
  BY DEF SettleByCredit, NoCard, Reserve, NoteIntent, ChargeCrashes, Load
<1>3. Unheard(charger')
  <2>1. CASE charger' = [charger EXCEPT ![c] = Quiet]
    BY <2>1, QuietIsUnheard
  <2>2. ASSUME NEW i \in Numbers, NEW covered \in BOOLEAN, Load(c, i, covered) PROVE Unheard(charger')
    <3>1. PICK at \in {"credit", "card"} :
            charger' = [charger EXCEPT ![c] = [at |-> at, inv |-> i, answer |-> "none"]]
      BY <2>2 DEF Load
    <3>2. [at |-> at, inv |-> i, answer |-> "none"] \in ChargerState
      BY DEF ChargerState, Answers
    <3> QED BY <3>1, <3>2, OneCharges
  <2>3. ASSUME NEW at \in {"call", "end"}, charger' = [charger EXCEPT ![c].at = at],
               charger[c].at # "idle"
        PROVE  Unheard(charger')
    <3>1. charger' = [charger EXCEPT ![c] = [charger[c] EXCEPT !.at = at]]
      BY <1>1, <2>3
    <3>2. /\ [charger[c] EXCEPT !.at = at] \in ChargerState
          /\ [charger[c] EXCEPT !.at = at].answer = charger[c].answer
          /\ [charger[c] EXCEPT !.at = at].inv = charger[c].inv
      BY <1>1, <2>3 DEF ChargerState, Quiet
    <3> QED BY <3>1, <3>2, OneCharges
  <2> QED BY <2>1, <2>2, <2>3 DEF SettleByCredit, NoCard, Reserve, NoteIntent, ChargeCrashes
<1>4. Kept(issued')
  <2>1. CASE SettleByCredit(c)
    BY <2>1, CreditPaidIsKept DEF SettleByCredit
  <2>2. CASE NoCard(c)
    BY <2>2, FailureIsKept DEF NoCard
  <2>3. CASE issued' = issued
    BY <1>1, <2>3
  <2>4. CASE Reserve(c) \/ NoteIntent(c)
    <3> DEFINE i == charger[c].inv
    <3>1. CASE i \notin DOMAIN issued
      <4>1. issued' = issued
        BY <1>1, <2>4, <3>1 DEF Reserve, NoteIntent
      <4> QED BY <1>1, <4>1
    <3>2. CASE i \in DOMAIN issued
      <4>1. issued[i] \in InvoiceRow
        BY <1>1, <3>2
      <4>2. PICK bill \in {[issued[i] EXCEPT !.attempts = issued[i].attempts + 1, !.rested = FALSE],
                          [issued[i] EXCEPT !.intent = TRUE]} :
              issued' = [issued EXCEPT ![i] = bill]
        BY <1>1, <2>4, <3>2, <4>1 DEF Reserve, NoteIntent, InvoiceRow
      <4>3. bill \in InvoiceRow /\ (CardPaid(bill) => CardPaid(issued[i]))
        <5>1. issued[i].attempts + 1 \in Nat
          BY <4>1 DEF InvoiceRow
        <5>2. ASSUME NEW n \in Nat
              PROVE  /\ [issued[i] EXCEPT !.attempts = n, !.rested = FALSE] \in InvoiceRow
                     /\ [issued[i] EXCEPT !.attempts = n, !.rested = FALSE].status = issued[i].status
                     /\ [issued[i] EXCEPT !.attempts = n, !.rested = FALSE].paidBy = issued[i].paidBy
          BY <4>1 DEF InvoiceRow
        <5>3. /\ [issued[i] EXCEPT !.intent = TRUE] \in InvoiceRow
              /\ [issued[i] EXCEPT !.intent = TRUE].status = issued[i].status
              /\ [issued[i] EXCEPT !.intent = TRUE].paidBy = issued[i].paidBy
          BY <4>1 DEF InvoiceRow
        <5> QED BY <4>2, <5>1, <5>2, <5>3 DEF CardPaid
      <4> QED BY <3>2, <4>2, <4>3, RowChanges
    <3> QED BY <3>1, <3>2
  <2> QED BY <2>1, <2>2, <2>3, <2>4 DEF ChargeCrashes, Load
<1> QED BY <1>1, <1>2, <1>3, <1>4, UnpaidKeeps DEF TypedCycles

LEMMA CallKeeps ==
  ASSUME InvoiceInv, NEW c \in Chargers, NEW heard \in BOOLEAN,
         NEW outcome \in {"succeeded", "declined", "processing"}, CallStripe(c, outcome, heard)
  PROVE  InvoiceInv'
<1> DEFINE i == charger[c].inv
           answer == IF KeyKnown(i) THEN intentOf[i] ELSE outcome
           state == [charger[c] EXCEPT !.at = IF heard THEN "note" ELSE "end",
                                       !.answer = IF heard THEN answer ELSE "lost"]
<1>1. /\ charger \in [Chargers -> ChargerState] /\ charger[c] \in ChargerState
      /\ intentOf \in [Numbers -> {"none", "succeeded", "declined", "processing"}]
      /\ taken \in [Numbers -> Nat]
  BY DEF InvoiceInv, InvoiceTypeOK
<1>2. /\ intentOf' = [intentOf EXCEPT ![i] = answer]
      /\ taken' = [taken EXCEPT ![i] = IF ~KeyKnown(i) /\ answer = "succeeded" THEN taken[i] + 1 ELSE taken[i]]
      /\ charger' = [charger EXCEPT ![c].at = IF heard THEN "note" ELSE "end",
                                    ![c].answer = IF heard THEN answer ELSE "lost"]
      /\ UNCHANGED <<lastMonth, issued, cycle, hook>>
  BY DEF CallStripe
<1>3. i \in Numbers => answer \in {"none", "succeeded", "declined", "processing"}
  BY <1>1
<1>4. charger' = [charger EXCEPT ![c] = state]
  BY <1>1, <1>2
<1>5. intentOf' \in [Numbers -> {"none", "succeeded", "declined", "processing"}]
  BY <1>1, <1>2, <1>3
<1>6. \A j \in Numbers : intentOf[j] = "succeeded" => intentOf'[j] = "succeeded"
  BY <1>1, <1>2 DEF KeyKnown
<1>7. TakenOnSuccess' /\ taken' \in [Numbers -> Nat]
  <2>1. ASSUME NEW j \in Numbers
        PROVE  taken'[j] = IF intentOf'[j] = "succeeded" THEN 1 ELSE 0
    <3>1. taken[j] = IF intentOf[j] = "succeeded" THEN 1 ELSE 0
      BY DEF InvoiceInv, TakenOnSuccess
    <3>2. CASE j # i
      BY <1>1, <1>2, <3>1, <3>2
    <3>3. CASE j = i /\ KeyKnown(i)
      BY <1>1, <1>2, <3>1, <3>3
    <3>4. CASE j = i /\ ~KeyKnown(i)
      BY <1>1, <1>2, <3>1, <3>4 DEF KeyKnown
    <3> QED BY <3>2, <3>3, <3>4
  <2>2. DOMAIN taken' = Numbers /\ taken' = [j \in Numbers |-> taken'[j]]
    BY <1>1, <1>2
  <2> QED BY <2>1, <2>2 DEF TakenOnSuccess
<1>8. i \in Numbers /\ charger[c] \in [at : {"call"}, inv : Numbers, answer : Answers]
  <2>1. charger[c].at = "call"
    BY DEF CallStripe
  <2> QED BY <1>1, <2>1 DEF ChargerState, Quiet
<1>9. /\ state \in ChargerState /\ state.inv = i
      /\ state.answer = "succeeded" => answer = "succeeded"
  BY <1>3, <1>8 DEF ChargerState, Answers
<1>10. intentOf'[i] = answer
  BY <1>1, <1>2, <1>8
<1> HIDE DEF state, answer, i
<1>11. charger' \in [Chargers -> ChargerState]
  BY <1>1, <1>4, <1>9
<1>12. HeardIsTaken'
  BY <1>1, <1>4, <1>6, <1>9, <1>10 DEF InvoiceInv, HeardIsTaken
<1> QED BY <1>2, <1>5, <1>6, <1>7, <1>11, <1>12
     DEF InvoiceInv, InvoiceTypeOK, ReadIsTaken, PaidIsTaken, Numbers

LEMMA EndKeeps == ASSUME InvoiceInv, NEW c \in Chargers, EndCharge(c) PROVE InvoiceInv'
<1> DEFINE i == charger[c].inv
<1>1. /\ charger' = [charger EXCEPT ![c] = Quiet] /\ Unheard(charger')
      /\ UNCHANGED <<lastMonth, cycle, intentOf, taken, hook>>
      /\ Kept(issued) /\ TypedCycles
  BY QuietIsUnheard, NothingChanges DEF EndCharge
<1>2. TypedCycles'
  BY <1>1 DEF TypedCycles
<1>3. CASE WasCharged(c)
  <2>1. MarkPaid(i, "card")
    BY <1>3 DEF EndCharge
  <2>2. i \in Numbers => intentOf[i] = "succeeded"
    BY <1>3 DEF WasCharged, InvoiceInv, HeardIsTaken
  <2>3. hook'.paid => hook' = hook
    BY <1>1
  <2> QED BY <1>1, <1>2, <2>1, <2>2, <2>3, PaidKeeps
<1>4. CASE RecordFailure(i, FALSE)
  BY <1>1, <1>2, <1>4, FailureIsKept, UnpaidKeeps
<1>5. CASE issued' = issued
  BY <1>1, <1>2, <1>5, UnpaidKeeps
<1> QED BY <1>3, <1>4, <1>5 DEF EndCharge

LEMMA WebhooksKeep ==
  ASSUME InvoiceInv,
         \/ WebhookActs
         \/ \E i \in Numbers : \/ WebhookReads(i)
                               \/ \E outcome \in {"succeeded", "declined"} : ProcessingEnds(i, outcome)
  PROVE  InvoiceInv'
<1>1. /\ intentOf \in [Numbers -> {"none", "succeeded", "declined", "processing"}]
      /\ taken \in [Numbers -> Nat] /\ issued \in Seq(InvoiceRow)
      /\ Kept(issued) /\ Unheard(charger) /\ TypedCycles
  BY NothingChanges DEF InvoiceInv, InvoiceTypeOK
<1>2. CASE WebhookActs
  <2>1. /\ UNCHANGED <<lastMonth, cycle, charger, intentOf, taken>>
        /\ hook' = [inv |-> 0, paid |-> FALSE]
    BY <1>2 DEF WebhookActs
  <2>2. Unheard(charger') /\ TypedCycles'
    BY <1>1, <2>1 DEF TypedCycles, Unheard
  <2>3. CASE hook.paid /\ MarkPaid(hook.inv, "card")
    <3>1. hook.inv \in Numbers => intentOf[hook.inv] = "succeeded"
      BY <2>3 DEF InvoiceInv, ReadIsTaken
    <3>2. hook'.paid => hook' = hook
      BY <2>1
    <3> QED BY <2>1, <2>2, <2>3, <3>1, <3>2, PaidKeeps
  <2>4. CASE RecordFailure(hook.inv, FALSE)
    <3>1. Kept(issued')
      BY <2>4, FailureIsKept
    <3>2. ReadIsTaken'
      BY <2>1 DEF ReadIsTaken
    <3> QED BY <2>1, <2>2, <3>1, <3>2 DEF InvoiceInv, InvoiceTypeOK, TakenOnSuccess,
             HeardIsTaken, PaidIsTaken, TypedCycles, Unheard, Kept
  <2> QED BY <1>2, <2>3, <2>4 DEF WebhookActs
<1>3. ASSUME NEW i \in Numbers, WebhookReads(i) PROVE InvoiceInv'
  <2>1. /\ UNCHANGED <<lastMonth, issued, cycle, charger, intentOf, taken>>
        /\ hook' = [inv |-> i, paid |-> intentOf[i] = "succeeded"]
    BY <1>3 DEF WebhookReads
  <2>2. ReadIsTaken'
    BY <2>1 DEF ReadIsTaken
  <2> QED BY <2>1, <2>2 DEF InvoiceInv, InvoiceTypeOK, TakenOnSuccess, HeardIsTaken, PaidIsTaken
<1>4. ASSUME NEW i \in Numbers, NEW outcome \in {"succeeded", "declined"}, ProcessingEnds(i, outcome)
      PROVE  InvoiceInv'
  <2>1. /\ intentOf[i] = "processing" /\ intentOf' = [intentOf EXCEPT ![i] = outcome]
        /\ taken' = [taken EXCEPT ![i] = IF outcome = "succeeded" THEN taken[i] + 1 ELSE taken[i]]
        /\ UNCHANGED <<lastMonth, issued, cycle, charger, hook>>
    BY <1>4 DEF ProcessingEnds
  <2>2. \A j \in Numbers : intentOf[j] = "succeeded" => intentOf'[j] = "succeeded"
    BY <1>1, <2>1
  <2>3. TakenOnSuccess'
    BY <1>1, <2>1 DEF InvoiceInv, TakenOnSuccess
  <2>4. intentOf' \in [Numbers -> {"none", "succeeded", "declined", "processing"}]
        /\ taken' \in [Numbers -> Nat]
    BY <1>1, <2>1
  <2> QED BY <2>1, <2>2, <2>3, <2>4 DEF InvoiceInv, InvoiceTypeOK, HeardIsTaken, ReadIsTaken,
           PaidIsTaken, Numbers
<1> QED BY <1>2, <1>3, <1>4

LEMMA InvoiceStep == InvoiceInv /\ [InvoiceNext]_invoiceVars => InvoiceInv'
<1> SUFFICES ASSUME InvoiceInv, [InvoiceNext]_invoiceVars PROVE InvoiceInv'
  OBVIOUS
<1>1. CASE CardVerified \/ CardRemoved \/ GraceElapses \/ ListForSuspension \/ SuspendOne
           \/ UNCHANGED invoiceVars
  <2>1. UNCHANGED <<lastMonth, issued, cycle, charger, intentOf, taken, hook>>
    BY <1>1 DEF CardVerified, CardRemoved, GraceElapses, ListForSuspension, SuspendOne, invoiceVars
  <2> QED BY <2>1 DEF InvoiceInv, InvoiceTypeOK, TakenOnSuccess, HeardIsTaken, ReadIsTaken, PaidIsTaken
<1>2. CASE \/ PassMonth \/ \E p \in 1 .. MaxMonths : Generate(p)
           \/ \E c \in Cycles : \/ CycleDrafts(c) \/ CycleIssues(c) \/ CycleRestarts(c)
                                \/ \E failed \in BOOLEAN : CycleChecks(c, failed)
  BY <1>2, CyclesKeep
<1>3. CASE \/ WebhookActs
           \/ \E i \in Numbers : \/ WebhookReads(i)
                                 \/ \E outcome \in {"succeeded", "declined"} : ProcessingEnds(i, outcome)
  BY <1>3, WebhooksKeep
<1>4. CASE \E i \in Numbers : Rest(i) \/ \E status \in {"open", "void"} : IssueOrVoid(i, status)
  BY <1>4, InvoicesKeep
<1>5. CASE \E c \in Chargers :
             \/ SettleByCredit(c) \/ NoCard(c) \/ Reserve(c) \/ NoteIntent(c) \/ ChargeCrashes(c)
             \/ \E i \in Numbers, covered \in BOOLEAN : Load(c, i, covered)
  BY <1>5, OffStripeKeeps
<1>6. CASE \E c \in Chargers : EndCharge(c)
  BY <1>6, EndKeeps
<1>7. CASE \E c \in Chargers, outcome \in {"succeeded", "declined", "processing"}, heard \in BOOLEAN :
             CallStripe(c, outcome, heard)
  BY <1>7, CallKeeps
<1> QED BY <1>1, <1>2, <1>3, <1>4, <1>5, <1>6, <1>7, Zenon DEF InvoiceNext

LEMMA InvoicesHold == InvoiceSpec => []InvoiceInv
BY InvoiceInitially, InvoiceStep, PTL DEF InvoiceSpec

\* The card is charged at most once for an invoice, however many replicas and
\* operators charge it, crash, lose Stripe's answer and try again
\* (charging.go:172-174).
THEOREM CardChargedOnce == InvoiceSpec => []ChargedOnce
<1>1. InvoiceInv => ChargedOnce
  BY DEF InvoiceInv, TakenOnSuccess, ChargedOnce
<1> QED BY <1>1, InvoicesHold, PTL

\* An invoice is marked paid by card only when its money was taken, whichever
\* of the charges and the webhooks came last (charging.go:283-316).
THEOREM PaidMeansCollected == InvoiceSpec => []PaidIsCollected
<1>1. InvoiceInv => PaidIsCollected
  <2> SUFFICES ASSUME InvoiceInv, NEW i \in DOMAIN issued, CardPaid(issued[i]) PROVE taken[i] > 0
    BY DEF PaidIsCollected, CardPaid
  <2>1. i \in Numbers
    BY InvoiceAssumption DEF InvoiceInv, InvoiceTypeOK, Numbers
  <2> QED BY <2>1 DEF InvoiceInv, PaidIsTaken, TakenOnSuccess
<1> QED BY <1>1, InvoicesHold, PTL

\* An invoice is collected when it is said to be paid by card, and only once.
THEOREM InvoicesCollectedOnce == InvoiceSpec => []CollectedOnce
BY CardChargedOnce, PaidMeansCollected, PTL DEF CollectedOnce

-----------------------------------------------------------------------------
(* The documents of an account (BillingDocuments): numbers, PDFs, receipts,  *)
(* statements.                                                             *)

Kinds    == {"grant", "purchase", "consumption", "expiry"}
Tasks    == {"usage", "manual", "project", "purchase"}
Statuses == {"draft", "open", "paid", "void"}
Entry    == [stamp : Months, kind : Kinds, of : Nat]
Paper    == [number : [series : Series, n : Nat], task : Tasks, month : Months, who : Nat,
             lines : SUBSET Nat, status : Statuses, key : BOOLEAN]
Asking   == [at : {"prepared"}, task : Tasks, month : Months, who : Nat, lines : SUBSET Nat]
Writing  == [at : {"begun", "numbered"}, task : Tasks, month : Months, who : Nat,
             lines : SUBSET Nat, stamp : Months]
Spending == [at : {"begun"}, task : {"draw"}, lines : {{r} : r \in Nat}, stamp : Months]
Opened   == [at : {"opened"}, month : Months, csv : BOOLEAN, opening : Int, over : BOOLEAN]
Closed   == [at : {"closed"}, month : Months, opening : Int, over : BOOLEAN, closing : Int,
             used : Nat]

DocumentsTypeOK ==
  /\ month \in Months /\ name \in Nat
  /\ usage \in Seq([from : Months, to : Months])
  /\ entries \in Seq(Entry)
  /\ lapsing \in BOOLEAN
  /\ counter \in [Series -> Nat]
  /\ clerk \in [Clerks -> {Idle} \union Asking \union Writing \union Spending]
  /\ docs \in Seq(Paper)
  /\ reader \in {Idle} \union Opened \union Closed

\* The numbers of a series are handed out one by one.
Numbered ==
  /\ \A s \in Series :
        {docs[d].number.n : d \in {d \in DOMAIN docs : docs[d].number.series = s}}
           = 1 .. counter[s]
  /\ \A d, e \in DOMAIN docs : docs[d].number = docs[e].number => d = e

\* A file is that of a document.
Of(f, d) == f.number = docs[d].number /\ f.who = docs[d].who /\ f.body = Body(d)

Copy     == [number : [series : Series, n : Nat], who : Nat, banner : {"due", "paid", "void"},
             body : [kind : {"invoice", "receipt"}, lines : SUBSET Nat]]
Progress == [at : {"no", "load", "record", "done"}] \union [at : {"put"}, doc : Copy]

Printed ==
  /\ printing \in Seq(Progress) /\ DOMAIN printing = DOMAIN docs
  /\ \A d \in DOMAIN docs :
        /\ printing[d].at = "put" => Of(printing[d].doc, d)
        /\ printing[d].at = "record" \/ docs[d].key =>
              \E f \in files : f.number = docs[d].number
  /\ \A f \in files : \E d \in DOMAIN docs : Of(f, d)
  /\ \A f \in held : \E d \in DOMAIN docs : Visible(d) /\ Of(f, d)

Receipted ==
  /\ \A i \in DOMAIN entries : entries[i].kind = "purchase" => entries[i].of \in DOMAIN docs
  /\ ReceiptForPurchase

\* Nobody draws for a record twice, or at the same time as another; the rows
\* of a draw have one date.
Draws(c) == clerk[c].at = "begun" /\ clerk[c].task = "draw"

DrawnOnce ==
  /\ \A c \in Clerks : Draws(c) => \A r \in clerk[c].lines : ~Drawn(r)
  /\ \A c, k \in Clerks : Draws(c) /\ Draws(k) /\ clerk[c].lines = clerk[k].lines => c = k
  /\ \A i, j \in DOMAIN entries :
        entries[i].kind = "consumption" /\ entries[j].kind = "consumption"
        /\ entries[i].of = entries[j].of => entries[i].stamp = entries[j].stamp

DrawsOf(m) == {i \in During(m) : entries[i].kind = "consumption"}

Page(m) == [opening |-> Sum(Before(m)), closing |-> Sum(Before(m + 1)),
            used |-> Cardinality(DrawsOf(m)),
            records |-> {entries[i].of : i \in DrawsOf(m)},
            drawn |-> Cardinality(DrawsOf(m))]

\* What has been read of a month that was over is what it says now.
Truly ==
  /\ DOMAIN settled = Months
  /\ \A m \in Months : \A p \in settled[m] : Over(m) /\ p = Page(m)
  /\ reader.at # "idle" /\ reader.over =>
        /\ Over(reader.month)
        /\ reader.opening = Page(reader.month).opening
        /\ reader.at = "closed" => /\ reader.closing = Page(reader.month).closing
                                   /\ reader.used = Page(reader.month).used

DocumentsInv == DocumentsTypeOK /\ Numbered /\ Printed /\ Receipted /\ DrawnOnce /\ Truly

LEMMA ClerkWell ==
  ASSUME DocumentsTypeOK, NEW c \in Clerks
  PROVE  /\ clerk[c] \in {Idle} \union Asking \union Writing \union Spending
         /\ clerk[c].at = "prepared" => clerk[c] \in Asking
         /\ clerk[c].at = "numbered" => clerk[c] \in Writing
         /\ clerk[c].at = "begun" /\ clerk[c].task # "draw" => clerk[c] \in Writing
         /\ Draws(c) => clerk[c] \in Spending
<1>1. clerk[c] \in {Idle} \union Asking \union Writing \union Spending
  BY DEF DocumentsTypeOK
<1>2. /\ \A k \in Asking : k.at = "prepared"
      /\ \A k \in Writing : k.at \in {"begun", "numbered"} /\ k.task \in Tasks
      /\ \A k \in Spending : k.at = "begun" /\ k.task = "draw"
      /\ Idle.at = "idle"
      /\ "draw" \notin Tasks
  BY DEF Asking, Writing, Spending, Idle, Tasks
<1> QED BY <1>1, <1>2 DEF Draws

LEMMA PrepareTyped ==
  ASSUME DocumentsTypeOK, NEW c \in Clerks, NEW task \in Tasks, NEW m \in Months,
         NEW lines \in SUBSET Nat, Prepare(c, task, m, lines)
  PROVE  DocumentsTypeOK'
<1>1. [at |-> "prepared", task |-> task, month |-> m, who |-> BillTo, lines |-> lines] \in Asking
  BY DEF Asking, BillTo, DocumentsTypeOK
<1> QED BY <1>1 DEF Prepare, DocumentsTypeOK

LEMMA UsageIsOfNat == DocumentsTypeOK => \A m : UsageIn(m) \in SUBSET Nat
BY DEF DocumentsTypeOK, UsageIn

LEMMA PaperTyped ==
  ASSUME DocumentsTypeOK, NEW c \in Clerks, clerk[c].at = "numbered"
  PROVE  /\ clerk[c] \in Writing
         /\ SeriesOf(clerk[c].task) \in Series
         /\ Document(c) \in Paper
         /\ PurchaseRows(c) \in Seq(Entry)
         /\ counter[SeriesOf(clerk[c].task)] \in Nat
<1>1. clerk[c] \in Writing
  BY ClerkWell
<1>2. /\ clerk[c].task \in Tasks /\ clerk[c].month \in Months /\ clerk[c].who \in Nat
      /\ clerk[c].lines \in SUBSET Nat /\ clerk[c].stamp \in Months
  BY <1>1 DEF Writing
<1>3. SeriesOf(clerk[c].task) \in Series
  BY DEF SeriesOf, Series
<1>4. counter[SeriesOf(clerk[c].task)] \in Nat
  BY <1>3 DEF DocumentsTypeOK
<1>5. NumberOf(c) \in [series : Series, n : Nat]
  BY <1>3, <1>4 DEF NumberOf
<1>6. (IF clerk[c].task = "purchase" THEN "paid" ELSE "draft") \in Statuses
  BY DEF Statuses
<1>7. Document(c) \in Paper
  BY <1>2, <1>5, <1>6 DEF Document, Paper
<1>8. Len(docs) + 1 \in Nat
  BY DEF DocumentsTypeOK
<1>9. PurchaseRows(c) \in Seq(Entry)
  <2>1. [stamp |-> clerk[c].stamp, kind |-> "purchase", of |-> Len(docs) + 1] \in Entry
    BY <1>2, <1>8 DEF Entry, Kinds
  <2> QED BY <2>1 DEF PurchaseRows
<1> QED BY <1>1, <1>3, <1>4, <1>7, <1>9

LEMMA SetStatusTyped ==
  ASSUME DocumentsTypeOK, NEW d \in DOMAIN docs, NEW status \in Statuses,
         SetStatus(d, status)
  PROVE  docs' \in Seq(Paper)
<1>1. docs[d] \in Paper
  BY DEF DocumentsTypeOK
<1>2. [docs[d] EXCEPT !.status = status] \in Paper
  BY <1>1 DEF Paper
<1> QED BY <1>2 DEF SetStatus, DocumentsTypeOK

LEMMA SumIsInt == ASSUME DocumentsTypeOK, NEW S \in SUBSET DOMAIN entries PROVE Sum(S) \in Int
<1>1. IsFiniteSet(DOMAIN entries)
  BY FS_Interval DEF DocumentsTypeOK
<1>2. \A p : IsFiniteSet({i \in S : entries[i].kind \in p})
  BY <1>1, FS_Subset
<1>3. \A p : Cardinality({i \in S : entries[i].kind \in p}) \in Nat
  BY <1>2, FS_CardinalityType
<1>4. /\ Cardinality({i \in S : entries[i].kind \in {"grant", "purchase"}}) \in Nat
      /\ Cardinality({i \in S : entries[i].kind \in {"consumption", "expiry"}}) \in Nat
  BY <1>3
<1> HIDE <1>3
<1> QED BY <1>4 DEF Sum

LEMMA RowsTyped ==
  ASSUME NEW lots \in Nat, NEW drawn \in Entry
  PROVE  [i \in 1 .. lots |-> drawn] \in Seq(Entry)
<1>1. [i \in 1 .. lots |-> drawn] \in [1 .. lots -> Entry]
  OBVIOUS
<1> QED BY <1>1

LEMMA EntriesGrow ==
  ASSUME DocumentsTypeOK
  PROVE  /\ \A rows \in Seq(Entry) : entries \o rows \in Seq(Entry)
         /\ \A drawn \in Entry : Append(entries, drawn) \in Seq(Entry)
BY DEF DocumentsTypeOK

LEMMA CountIsNat ==
  ASSUME DocumentsTypeOK, NEW S \in SUBSET DOMAIN entries
  PROVE  IsFiniteSet(S) /\ Cardinality(S) \in Nat
<1>1. IsFiniteSet(DOMAIN entries)
  BY FS_Interval DEF DocumentsTypeOK
<1> QED BY <1>1, FS_Subset, FS_CardinalityType

LEMMA DocumentsTyped == DocumentsTypeOK /\ [DocumentsNext]_documentVars => DocumentsTypeOK'
<1> SUFFICES ASSUME DocumentsTypeOK, [DocumentsNext]_documentVars PROVE DocumentsTypeOK'
  OBVIOUS
<1>m. MaxMonth \in Nat /\ 1 \in Months
  BY DocumentsAssumption DEF Months
<1>1. CASE NextMonth
  BY <1>m, <1>1 DEF NextMonth, DocumentsTypeOK, Months
<1>2. CASE Rename
  BY <1>2 DEF Rename, DocumentsTypeOK
<1>3. CASE RecordUsage
  <2>1. PICK m \in {month - 1, month} \cap Months :
           usage' = Append(usage, [from |-> m, to |-> month])
    BY <1>3 DEF RecordUsage
  <2>2. [from |-> m, to |-> month] \in [from : Months, to : Months]
    BY DEF DocumentsTypeOK
  <2> QED BY <1>3, <2>1, <2>2 DEF RecordUsage, DocumentsTypeOK
<1>4. CASE ExpireCredits
  <2>1. [stamp |-> 1, kind |-> "expiry", of |-> 0] \in Entry
    BY <1>m DEF Entry, Kinds
  <2>2. entries' \in Seq(Entry)
    BY <1>4, <2>1, EntriesGrow DEF ExpireCredits
  <2> QED BY <1>4, <2>2 DEF ExpireCredits, DocumentsTypeOK
<1>5. ASSUME NEW c \in Clerks, \/ SettleTopUp(c) \/ CreateAccountUsageInvoice(c)
                               \/ CreateManualInvoice(c) \/ CreateInvoice(c)
      PROVE  DocumentsTypeOK'
  <2>1. month \in Months /\ {"purchase", "usage", "manual", "project"} \subseteq Tasks
    BY DEF DocumentsTypeOK, Tasks
  <2> QED BY <1>5, <2>1, PrepareTyped, UsageIsOfNat
          DEF SettleTopUp, CreateAccountUsageInvoice, CreateManualInvoice, CreateInvoice, ProjectUsage
<1>6. ASSUME NEW c \in Clerks, ConsumeCredit(c) PROVE DocumentsTypeOK'
  <2>1. PICK r \in DOMAIN usage :
           clerk' = [clerk EXCEPT ![c] =
                       [at |-> "begun", task |-> "draw", lines |-> {r}, stamp |-> month]]
    BY <1>6 DEF ConsumeCredit
  <2>2. [at |-> "begun", task |-> "draw", lines |-> {r}, stamp |-> month] \in Spending
    BY DEF Spending, DocumentsTypeOK
  <2> QED BY <1>6, <2>1, <2>2 DEF ConsumeCredit, DocumentsTypeOK
<1>7. ASSUME NEW c \in Clerks, BeginTx(c) PROVE DocumentsTypeOK'
  <2>1. clerk[c] \in Asking
    BY <1>7, ClerkWell DEF BeginTx
  <2>2. [at |-> "begun", task |-> clerk[c].task, month |-> clerk[c].month, who |-> clerk[c].who,
         lines |-> clerk[c].lines, stamp |-> month] \in Writing
    BY <2>1 DEF Asking, Writing, DocumentsTypeOK
  <2> QED BY <1>7, <2>2 DEF BeginTx, DocumentsTypeOK
<1>8. ASSUME NEW c \in Clerks, AllocateDocumentNumber(c) PROVE DocumentsTypeOK'
  <2>1. clerk[c] \in Writing
    BY <1>8, ClerkWell DEF AllocateDocumentNumber
  <2>2. [clerk[c] EXCEPT !.at = "numbered"] \in Writing
    BY <2>1 DEF Writing
  <2> QED BY <1>8, <2>2 DEF AllocateDocumentNumber, DocumentsTypeOK
<1>9. ASSUME NEW c \in Clerks, CommitDocument(c) PROVE DocumentsTypeOK'
  <2>1. /\ Document(c) \in Paper /\ PurchaseRows(c) \in Seq(Entry)
        /\ counter[SeriesOf(clerk[c].task)] \in Nat
    BY <1>9, PaperTyped DEF CommitDocument
  <2>2. docs' \in Seq(Paper)
    BY <1>9, <2>1 DEF CommitDocument, DocumentsTypeOK
  <2>3. entries' \in Seq(Entry)
    BY <1>9, <2>1, EntriesGrow DEF CommitDocument
  <2>4. counter' \in [Series -> Nat]
    <3>1. /\ SeriesOf(clerk[c].task) \in Series
          /\ counter' = [counter EXCEPT ![SeriesOf(clerk[c].task)] = @ + 1]
      BY <1>9, PaperTyped DEF CommitDocument
    <3> QED BY <2>1, <3>1 DEF DocumentsTypeOK
  <2> QED BY <1>9, <2>2, <2>3, <2>4 DEF CommitDocument, DocumentsTypeOK
<1>10. ASSUME NEW c \in Clerks, NEW lots \in 1 .. 2, CommitDraw(c, lots) PROVE DocumentsTypeOK'
  <2>1. clerk[c] \in Spending
    BY <1>10, ClerkWell DEF CommitDraw, Draws
  <2> DEFINE r == CHOOSE r \in clerk[c].lines : TRUE
             drawn == [stamp |-> clerk[c].stamp, kind |-> "consumption", of |-> r]
  <2>2. r \in Nat
    BY <2>1 DEF Spending
  <2>3. drawn \in Entry
    BY <2>1, <2>2 DEF Spending, Entry, Kinds
  <2>4. [i \in 1 .. lots |-> drawn] \in Seq(Entry)
    <3> HIDE DEF drawn
    <3> QED BY <2>3, RowsTyped
  <2>5. entries' = entries \o [i \in 1 .. lots |-> drawn]
    BY <1>10 DEF CommitDraw
  <2> HIDE DEF r, drawn
  <2>6. entries' \in Seq(Entry)
    BY <2>4, <2>5, EntriesGrow
  <2> QED BY <1>10, <2>6 DEF CommitDraw, DocumentsTypeOK
<1>11. ASSUME NEW c \in Clerks, RollBack(c) PROVE DocumentsTypeOK'
  BY <1>11 DEF RollBack, GivenBack, DocumentsTypeOK
<1>12. ASSUME NEW d \in DOMAIN docs, IssueInvoice(d) \/ VoidInvoice(d) \/ MarkInvoicePaid(d)
       PROVE  DocumentsTypeOK'
  <2>1. docs' \in Seq(Paper)
    BY <1>12, SetStatusTyped DEF IssueInvoice, VoidInvoice, MarkInvoicePaid, Statuses
  <2> QED BY <1>12, <2>1 DEF IssueInvoice, VoidInvoice, MarkInvoicePaid, DocumentsTypeOK
<1>13. ASSUME NEW d \in DOMAIN docs,
              LoadForPDF(d) \/ PutObject(d) \/ PrintFails(d) \/ DownloadInvoicePDF(d)
       PROVE  DocumentsTypeOK'
  BY <1>13 DEF LoadForPDF, PutObject, PrintFails, DownloadInvoicePDF, DocumentsTypeOK
<1>14. ASSUME NEW d \in DOMAIN docs, RecordKey(d) PROVE DocumentsTypeOK'
  <2>1. docs[d] \in Paper
    BY DEF DocumentsTypeOK
  <2>2. [docs[d] EXCEPT !.key = TRUE] \in Paper
    BY <2>1 DEF Paper
  <2> QED BY <1>14, <2>2 DEF RecordKey, DocumentsTypeOK
<1>15. ASSUME NEW m \in Months, NEW csv \in BOOLEAN, Statement(m, csv) PROVE DocumentsTypeOK'
  <2>1. Sum(Before(m)) \in Int
    BY SumIsInt DEF Before
  <2>2. Over(m) \in BOOLEAN
    BY DEF Over, DocumentsTypeOK
  <2>3. [at |-> "opened", month |-> m, csv |-> csv, opening |-> Sum(Before(m)), over |-> Over(m)]
          \in Opened
    BY <2>1, <2>2 DEF Opened
  <2> QED BY <1>15, <2>3 DEF Statement, DocumentsTypeOK
<1>16. CASE ReadMovements
  <2> DEFINE m == reader.month
  <2>1. reader \in Opened
    BY <1>16 DEF ReadMovements, DocumentsTypeOK, Idle, Closed
  <2>2. \A kind : Movement(m, kind) \in Nat
    BY CountIsNat DEF Movement, During
  <2>3. reader' \in Closed
    BY <1>16, <2>1, <2>2 DEF ReadMovements, Opened, Closed
  <2> QED BY <1>16, <2>3 DEF ReadMovements, DocumentsTypeOK
<1>17. CASE StatementUsage \/ EachStatementLine
  BY <1>17 DEF StatementUsage, EachStatementLine, Finish, DocumentsTypeOK
<1>18. CASE UNCHANGED documentVars
  BY <1>18 DEF documentVars, DocumentsTypeOK
<1> QED BY <1>1, <1>2, <1>3, <1>4, <1>5, <1>6, <1>7, <1>8, <1>9, <1>10, <1>11, <1>12, <1>13,
           <1>14, <1>15, <1>16, <1>17, <1>18
        DEF DocumentsNext, Accounting, Papers, Reading, Writes

LEMMA PapersTyped ==
  ASSUME DocumentsTypeOK, NEW d \in DOMAIN docs
  PROVE  /\ docs[d].number \in [series : Series, n : Nat] /\ docs[d].key \in BOOLEAN
         /\ docs[d].who \in Nat
         /\ docs[d].task \in Tasks /\ docs[d].lines \in SUBSET Nat
<1>1. docs[d] \in Paper
  BY DEF DocumentsTypeOK
<1> QED BY <1>1 DEF Paper

\* What a step does to the documents.
SameDocs == docs' = docs /\ counter' = counter

SamePapers ==
  /\ DOMAIN docs' = DOMAIN docs /\ counter' = counter
  /\ \A d \in DOMAIN docs :
        /\ docs'[d].number = docs[d].number /\ docs'[d].task = docs[d].task
        /\ docs'[d].who = docs[d].who /\ docs'[d].lines = docs[d].lines
        /\ docs[d].status # "draft" => docs'[d].status # "draft"

LEMMA StatusSetKeeps ==
  ASSUME DocumentsTypeOK, NEW d \in DOMAIN docs, NEW status \in Statuses \ {"draft"},
         SetStatus(d, status), counter' = counter
  PROVE  SamePapers /\ \A e \in DOMAIN docs : docs'[e].key = docs[e].key
<1>1. docs' = [docs EXCEPT ![d].status = status]
  BY DEF SetStatus
<1>2. \A e \in DOMAIN docs : docs[e] \in Paper
  BY DEF DocumentsTypeOK
<1>3. DOMAIN docs' = DOMAIN docs
  BY <1>1
<1>4. \A e \in DOMAIN docs :
        docs'[e] = IF e = d THEN [docs[e] EXCEPT !.status = status] ELSE docs[e]
  BY <1>1
<1> QED BY <1>2, <1>3, <1>4 DEF SamePapers, Paper

LEMMA KeyKeeps ==
  ASSUME DocumentsTypeOK, NEW d \in DOMAIN docs, RecordKey(d)
  PROVE  /\ SamePapers
         /\ \A e \in DOMAIN docs : docs'[e].key = IF e = d THEN TRUE ELSE docs[e].key
<1>1. docs' = [docs EXCEPT ![d].key = TRUE] /\ counter' = counter
  BY DEF RecordKey
<1>2. \A e \in DOMAIN docs : docs[e] \in Paper
  BY DEF DocumentsTypeOK
<1>3. DOMAIN docs' = DOMAIN docs
  BY <1>1
<1>4. \A e \in DOMAIN docs :
        docs'[e] = IF e = d THEN [docs[e] EXCEPT !.key = TRUE] ELSE docs[e]
  BY <1>1
<1> QED BY <1>1, <1>2, <1>3, <1>4 DEF SamePapers, Paper

LEMMA DocumentsStep ==
  ASSUME DocumentsTypeOK, [DocumentsNext]_documentVars
  PROVE  SamePapers \/ \E c \in Clerks : CommitDocument(c)
<1>0. SameDocs => SamePapers
  BY DEF SameDocs, SamePapers
<1>1. CASE NextMonth \/ Rename \/ RecordUsage \/ ExpireCredits \/ UNCHANGED documentVars
  BY <1>0, <1>1 DEF NextMonth, Rename, RecordUsage, ExpireCredits, documentVars, SameDocs
<1>2. ASSUME NEW c \in Clerks,
             \/ SettleTopUp(c) \/ CreateAccountUsageInvoice(c) \/ CreateManualInvoice(c)
             \/ CreateInvoice(c) \/ ConsumeCredit(c) \/ BeginTx(c) \/ AllocateDocumentNumber(c)
      PROVE  SamePapers
  BY <1>0, <1>2
     DEF SettleTopUp, CreateAccountUsageInvoice, CreateManualInvoice, CreateInvoice, Prepare,
         ConsumeCredit, BeginTx, AllocateDocumentNumber, SameDocs
<1>3. ASSUME NEW c \in Clerks, RollBack(c) \/ \E lots \in 1 .. 2 : CommitDraw(c, lots)
      PROVE  SamePapers
  BY <1>0, <1>3 DEF RollBack, GivenBack, CommitDraw, SameDocs
<1>4. ASSUME NEW d \in DOMAIN docs, IssueInvoice(d) \/ VoidInvoice(d) \/ MarkInvoicePaid(d)
      PROVE  SamePapers
  BY <1>4, StatusSetKeeps DEF IssueInvoice, VoidInvoice, MarkInvoicePaid, Statuses
<1>5. ASSUME NEW d \in DOMAIN docs,
             LoadForPDF(d) \/ PutObject(d) \/ PrintFails(d) \/ DownloadInvoicePDF(d)
      PROVE  SamePapers
  BY <1>0, <1>5 DEF LoadForPDF, PutObject, PrintFails, DownloadInvoicePDF, SameDocs
<1>6. ASSUME NEW d \in DOMAIN docs, RecordKey(d) PROVE SamePapers
  BY <1>6, KeyKeeps
<1>7. CASE Reading
  <2>1. docs' = docs /\ counter' = counter
    BY <1>7 DEF Reading, Statement, ReadMovements, StatementUsage, EachStatementLine, Finish
  <2> QED BY <1>0, <2>1 DEF SameDocs
<1> QED BY <1>1, <1>2, <1>3, <1>4, <1>5, <1>6, <1>7
        DEF DocumentsNext, Accounting, Papers, Writes

LEMMA Added ==
  ASSUME DocumentsTypeOK, NEW c \in Clerks, CommitDocument(c)
  PROVE  /\ Len(docs) \in Nat /\ DOMAIN docs = 1 .. Len(docs)
         /\ Len(docs') = Len(docs) + 1
         /\ DOMAIN docs' = DOMAIN docs \union {Len(docs) + 1}
         /\ Len(docs) + 1 \notin DOMAIN docs
         /\ \A d \in DOMAIN docs : docs'[d] = docs[d]
         /\ docs'[Len(docs) + 1] = Document(c)
<1>1. docs \in Seq(Paper) /\ Document(c) \in Paper /\ docs' = Append(docs, Document(c))
  BY PaperTyped DEF CommitDocument, DocumentsTypeOK
<1> HIDE DEF Paper
<1> QED BY <1>1

LEMMA NumberedStays == DocumentsTypeOK /\ Numbered /\ [DocumentsNext]_documentVars => Numbered'
<1> SUFFICES ASSUME DocumentsTypeOK, Numbered, [DocumentsNext]_documentVars PROVE Numbered'
  OBVIOUS
<1>1. CASE SamePapers
  <2>1. ASSUME NEW s \in Series
        PROVE  {docs'[d].number.n : d \in {d \in DOMAIN docs' : docs'[d].number.series = s}}
                 = {docs[d].number.n : d \in {d \in DOMAIN docs : docs[d].number.series = s}}
    BY <1>1 DEF SamePapers
  <2>2. \A d, e \in DOMAIN docs' : docs'[d].number = docs'[e].number => d = e
    BY <1>1 DEF SamePapers, Numbered
  <2> QED BY <1>1, <2>1, <2>2 DEF SamePapers, Numbered
<1>2. ASSUME NEW c \in Clerks, CommitDocument(c) PROVE Numbered'
  <2> DEFINE x == Len(docs) + 1
             s0 == SeriesOf(clerk[c].task)
  <2>1. /\ DOMAIN docs' = DOMAIN docs \union {x} /\ x \notin DOMAIN docs
        /\ \A d \in DOMAIN docs : docs'[d] = docs[d]
        /\ docs'[x] = Document(c)
    BY <1>2, Added
  <2>2. s0 \in Series /\ counter[s0] \in Nat /\ counter' = [counter EXCEPT ![s0] = @ + 1]
    BY <1>2, PaperTyped DEF CommitDocument
  <2>3. docs'[x].number = [series |-> s0, n |-> counter[s0] + 1]
    BY <2>1 DEF Document, NumberOf
  <2>4. /\ counter \in [Series -> Nat]
        /\ \A d \in DOMAIN docs : docs[d].number \in [series : Series, n : Nat]
    BY PapersTyped DEF DocumentsTypeOK
  <2>5. ASSUME NEW d \in DOMAIN docs
        PROVE  docs[d].number.n \in 1 .. counter[docs[d].number.series]
    <3>1. docs[d].number.series \in Series
      BY <2>4
    <3> QED BY <3>1 DEF Numbered
  <2> HIDE DEF x, s0
  <2>6. ASSUME NEW s \in Series
        PROVE  {docs'[d].number.n : d \in {d \in DOMAIN docs' : docs'[d].number.series = s}}
                 = 1 .. counter'[s]
    <3> DEFINE Old == {docs[d].number.n : d \in {d \in DOMAIN docs : docs[d].number.series = s}}
               New == {docs'[d].number.n : d \in {d \in DOMAIN docs' : docs'[d].number.series = s}}
    <3>1. Old = 1 .. counter[s]
      BY DEF Numbered
    <3>2. CASE s = s0
      <4>1. New = Old \union {counter[s0] + 1}
        BY <2>1, <2>3, <3>2
      <4>2. counter'[s] = counter[s] + 1 /\ counter[s] \in Nat
        BY <2>2, <2>4, <3>2
      <4>3. \A k \in Nat : 1 .. (k + 1) = (1 .. k) \union {k + 1}
        OBVIOUS
      <4> HIDE DEF New, Old
      <4>4. New = 1 .. counter'[s]
        BY <3>1, <3>2, <4>1, <4>2, <4>3
      <4> QED BY <4>4 DEF New
    <3>3. CASE s # s0
      <4>1. New = Old
        BY <2>1, <2>3, <3>3
      <4>2. counter'[s] = counter[s]
        BY <2>2, <2>4, <3>3
      <4> QED BY <3>1, <4>1, <4>2
    <3> QED BY <3>2, <3>3
  <2>7. ASSUME NEW d \in DOMAIN docs, docs'[d].number = docs'[x].number PROVE FALSE
    <3>1. docs[d].number.series = s0 /\ docs[d].number.n = counter[s0] + 1
      BY <2>1, <2>3, <2>7
    <3> QED BY <2>2, <2>5, <3>1
  <2>8. ASSUME NEW d \in DOMAIN docs', NEW e \in DOMAIN docs', docs'[d].number = docs'[e].number
        PROVE  d = e
    BY <2>1, <2>7, <2>8 DEF Numbered
  <2> QED BY <2>6, <2>8 DEF Numbered
<1> QED BY <1>1, <1>2, DocumentsStep

LEMMA NumberedIsGapless == DocumentsTypeOK /\ Numbered => Gapless
<1> SUFFICES ASSUME DocumentsTypeOK, Numbered, NEW s \in Series
             PROVE  LET of == {d \in DOMAIN docs : docs[d].number.series = s}
                    IN  {docs[d].number.n : d \in of} = 1 .. Cardinality(of)
  BY DEF Gapless
<1> DEFINE of == {d \in DOMAIN docs : docs[d].number.series = s}
           f  == [d \in of |-> docs[d].number.n]
<1>1. {docs[d].number.n : d \in of} = 1 .. counter[s] /\ counter[s] \in Nat
  BY DEF Numbered, DocumentsTypeOK
<1>2. IsFiniteSet(of)
  BY FS_Interval, FS_Subset DEF DocumentsTypeOK
<1>3. \A d \in DOMAIN docs : docs[d].number \in [series : Series, n : Nat]
  BY PapersTyped
<1>4. \A d, e \in of : f[d] = f[e] => d = e
  BY <1>3 DEF Numbered
<1>5. f \in [of -> 1 .. counter[s]] /\ \A n \in 1 .. counter[s] : \E d \in of : f[d] = n
  BY <1>1
<1>6. Cardinality(of) = counter[s]
  <2> HIDE DEF f, of
  <2>1. ExistsBijection(of, 1 .. counter[s])
    BY <1>4, <1>5 DEF ExistsBijection, Bijection, Injection, IsInjective, Surjection
  <2> QED BY <1>1, <1>2, <2>1, FS_Bijection, FS_Interval
<1> QED BY <1>1, <1>6

LEMMA DocumentsLast ==
  ASSUME DocumentsTypeOK, SamePapers \/ \E c \in Clerks : CommitDocument(c)
  PROVE  \A d \in DOMAIN docs :
            /\ d \in DOMAIN docs' /\ docs'[d].number = docs[d].number
            /\ Visible(d) => Visible(d)'
            /\ \A f : Of(f, d) => Of(f, d)'
<1>1. CASE SamePapers
  BY <1>1 DEF SamePapers, Visible, Of, Body, Sections
<1>2. ASSUME NEW c \in Clerks, CommitDocument(c), NEW d \in DOMAIN docs
      PROVE  d \in DOMAIN docs' /\ docs'[d] = docs[d]
  BY <1>2, Added
<1> QED BY <1>1, <1>2 DEF Visible, Of, Body, Sections

LEMMA RenderedIsOf ==
  ASSUME DocumentsTypeOK, NEW d \in DOMAIN docs PROVE Of(Rendered(d), d) /\ Rendered(d) \in Copy
<1>1. Of(Rendered(d), d)
  BY DEF Of, Rendered, Parties
<1>2. /\ docs[d].number \in [series : Series, n : Nat] /\ docs[d].who \in Nat
      /\ docs[d].lines \in SUBSET Nat
  BY PapersTyped
<1>3. Banner(d) \in {"due", "paid", "void"}
  BY DEF Banner
<1>4. Body(d) \in [kind : {"invoice", "receipt"}, lines : SUBSET Nat]
  BY <1>2 DEF Body, Sections
<1> QED BY <1>1, <1>2, <1>3, <1>4 DEF Rendered, Parties, Copy

\* What keeps the papers and moves no PDF on.
LEMMA PrintedUntouched ==
  ASSUME DocumentsTypeOK, Printed, SamePapers, \A d \in DOMAIN docs : docs'[d].key = docs[d].key,
         files' = files, held' = held, printing' \in Seq(Progress),
         DOMAIN printing' = DOMAIN printing,
         \A d \in DOMAIN docs : \/ printing'[d] = printing[d]
                                \/ printing'[d].at \in {"load", "done"}
  PROVE  Printed'
<1>1. \A d \in DOMAIN docs :
         /\ d \in DOMAIN docs' /\ docs'[d].number = docs[d].number
         /\ Visible(d) => Visible(d)'
         /\ \A f : Of(f, d) => Of(f, d)'
  BY DocumentsLast
<1>2. DOMAIN docs' = DOMAIN docs
  BY DEF SamePapers
<1>3. ASSUME NEW d \in DOMAIN docs
      PROVE  /\ (printing[d].at = "put" => Of(printing[d].doc, d))'
             /\ printing'[d].at = "record" \/ docs'[d].key =>
                   \E f \in files : f.number = docs'[d].number
  BY <1>1 DEF Printed
<1> QED BY <1>1, <1>2, <1>3 DEF Printed

LEMMA ProgressSet ==
  ASSUME DocumentsTypeOK, Printed, NEW d \in DOMAIN docs, NEW step \in Progress,
         printing' = [printing EXCEPT ![d] = step]
  PROVE  /\ printing' \in Seq(Progress) /\ DOMAIN printing' = DOMAIN printing
         /\ \A e \in DOMAIN docs : printing'[e] = IF e = d THEN step ELSE printing[e]
BY DEF Printed

LEMMA PrintedStays ==
  DocumentsTypeOK /\ Numbered /\ Printed /\ [DocumentsNext]_documentVars => Printed'
<1> SUFFICES ASSUME DocumentsTypeOK, Numbered, Printed, [DocumentsNext]_documentVars
             PROVE  Printed'
  OBVIOUS
<1>k. SameDocs => SamePapers /\ \A d \in DOMAIN docs : docs'[d].key = docs[d].key
  BY DEF SameDocs, SamePapers
<1>p. printing \in Seq(Progress) /\ DOMAIN printing = DOMAIN docs
  BY DEF Printed
<1>u. SameDocs /\ UNCHANGED <<printing, files, held>> => Printed'
  BY <1>k, <1>p, PrintedUntouched
<1>1. CASE NextMonth \/ Rename \/ RecordUsage \/ ExpireCredits \/ UNCHANGED documentVars
  BY <1>u, <1>1 DEF NextMonth, Rename, RecordUsage, ExpireCredits, documentVars, SameDocs
<1>2. ASSUME NEW c \in Clerks,
             \/ SettleTopUp(c) \/ CreateAccountUsageInvoice(c) \/ CreateManualInvoice(c)
             \/ CreateInvoice(c) \/ ConsumeCredit(c) \/ BeginTx(c) \/ AllocateDocumentNumber(c)
      PROVE  Printed'
  BY <1>u, <1>2
     DEF SettleTopUp, CreateAccountUsageInvoice, CreateManualInvoice, CreateInvoice, Prepare,
         ConsumeCredit, BeginTx, AllocateDocumentNumber, SameDocs
<1>3. ASSUME NEW c \in Clerks, RollBack(c) \/ \E lots \in 1 .. 2 : CommitDraw(c, lots)
      PROVE  Printed'
  BY <1>u, <1>3 DEF RollBack, GivenBack, CommitDraw, SameDocs
<1>4. ASSUME NEW c \in Clerks, CommitDocument(c) PROVE Printed'
  <2> DEFINE x    == Len(docs) + 1
             step == [at |-> IF clerk[c].task = "purchase" THEN "load" ELSE "no"]
  <2>1. /\ DOMAIN docs' = DOMAIN docs \union {x} /\ x \notin DOMAIN docs
        /\ \A d \in DOMAIN docs : docs'[d] = docs[d]
        /\ docs'[x] = Document(c)
    BY <1>4, Added
  <2>2. step \in Progress /\ step.at \in {"load", "no"}
    BY DEF Progress
  <2>3. Len(printing) = Len(docs)
    BY <1>p DEF DocumentsTypeOK
  <2>4. /\ printing' \in Seq(Progress) /\ DOMAIN printing' = DOMAIN docs'
        /\ \A d \in DOMAIN docs : printing'[d] = printing[d]
        /\ printing'[x] = step
    <3>1. printing' = Append(printing, step)
      BY <1>4 DEF CommitDocument
    <3>2. DOMAIN docs = 1 .. Len(docs) /\ Len(docs) \in Nat
      BY DEF DocumentsTypeOK
    <3> HIDE DEF step, Progress
    <3> QED BY <1>p, <2>1, <2>2, <2>3, <3>1, <3>2
  <2>5. docs'[x].key = FALSE
    BY <2>1 DEF Document
  <2>6. \A d \in DOMAIN docs :
           /\ d \in DOMAIN docs' /\ docs'[d].number = docs[d].number
           /\ Visible(d) => Visible(d)'
           /\ \A f : Of(f, d) => Of(f, d)'
    BY <1>4, DocumentsLast
  <2>7. files' = files /\ held' = held
    BY <1>4 DEF CommitDocument
  <2> HIDE DEF x, step
  <2>8. ASSUME NEW d \in DOMAIN docs'
        PROVE  /\ (printing[d].at = "put" => Of(printing[d].doc, d))'
               /\ printing'[d].at = "record" \/ docs'[d].key =>
                     \E f \in files' : f.number = docs'[d].number
    <3>1. CASE d = x
      BY <2>2, <2>4, <2>5, <3>1
    <3>2. CASE d \in DOMAIN docs
      BY <2>1, <2>4, <2>6, <2>7, <3>2 DEF Printed
    <3> QED BY <2>1, <3>1, <3>2
  <2> QED BY <2>4, <2>6, <2>7, <2>8 DEF Printed
<1>5. ASSUME NEW d \in DOMAIN docs, VoidInvoice(d) \/ MarkInvoicePaid(d) PROVE Printed'
  <2>1. /\ SamePapers /\ \A e \in DOMAIN docs : docs'[e].key = docs[e].key
        /\ UNCHANGED <<printing, files, held>>
    BY <1>5, StatusSetKeeps DEF VoidInvoice, MarkInvoicePaid, Statuses
  <2> QED BY <1>p, <2>1, PrintedUntouched
<1>6. ASSUME NEW d \in DOMAIN docs, IssueInvoice(d) PROVE Printed'
  <2> DEFINE step == [at |-> "load"]
  <2>1. /\ SamePapers /\ \A e \in DOMAIN docs : docs'[e].key = docs[e].key
        /\ files' = files /\ held' = held
        /\ printing' = [printing EXCEPT ![d] = step]
    BY <1>6, StatusSetKeeps DEF IssueInvoice, Statuses
  <2>2. step \in Progress /\ step.at = "load"
    BY DEF Progress
  <2> HIDE DEF step
  <2>3. /\ printing' \in Seq(Progress) /\ DOMAIN printing' = DOMAIN printing
        /\ \A e \in DOMAIN docs : printing'[e] = IF e = d THEN step ELSE printing[e]
    BY <2>1, <2>2, ProgressSet
  <2>4. \A e \in DOMAIN docs : printing'[e] = printing[e] \/ printing'[e].at \in {"load", "done"}
    BY <2>2, <2>3
  <2> QED BY <2>1, <2>3, <2>4, PrintedUntouched
<1>7. ASSUME NEW d \in DOMAIN docs, PrintFails(d) PROVE Printed'
  <2> DEFINE step == [at |-> "done"]
  <2>1. /\ SameDocs /\ files' = files /\ held' = held
        /\ printing' = [printing EXCEPT ![d] = step]
    BY <1>7 DEF PrintFails, SameDocs
  <2>2. step \in Progress /\ step.at = "done"
    BY DEF Progress
  <2> HIDE DEF step
  <2>3. /\ printing' \in Seq(Progress) /\ DOMAIN printing' = DOMAIN printing
        /\ \A e \in DOMAIN docs : printing'[e] = IF e = d THEN step ELSE printing[e]
    BY <2>1, <2>2, ProgressSet
  <2>4. \A e \in DOMAIN docs : printing'[e] = printing[e] \/ printing'[e].at \in {"load", "done"}
    BY <2>2, <2>3
  <2> QED BY <1>k, <2>1, <2>3, <2>4, PrintedUntouched
<1>8. ASSUME NEW d \in DOMAIN docs, LoadForPDF(d) PROVE Printed'
  <2> DEFINE step == [at |-> "put", doc |-> Rendered(d)]
  <2>1. SameDocs /\ files' = files /\ held' = held
        /\ printing' = [printing EXCEPT ![d] = step]
    BY <1>8 DEF LoadForPDF, SameDocs
  <2>2. step \in Progress /\ step.at = "put" /\ Of(step.doc, d)
    BY RenderedIsOf DEF Progress
  <2> HIDE DEF step
  <2>3. /\ printing' \in Seq(Progress) /\ DOMAIN printing' = DOMAIN printing
        /\ \A e \in DOMAIN docs : printing'[e] = IF e = d THEN step ELSE printing[e]
    BY <2>1, <2>2, ProgressSet
  <2>4. docs' = docs
    BY <2>1 DEF SameDocs
  <2>5. ASSUME NEW e \in DOMAIN docs
        PROVE  /\ printing'[e].at = "put" => Of(printing'[e].doc, e)
               /\ printing'[e].at = "record" \/ docs[e].key =>
                     \E f \in files : f.number = docs[e].number
    BY <2>2, <2>3 DEF Printed
  <2> QED BY <2>1, <2>3, <2>4, <2>5 DEF Printed, Of, Body, Sections, Visible
<1>9. ASSUME NEW d \in DOMAIN docs, PutObject(d) PROVE Printed'
  <2> DEFINE new == printing[d].doc
  <2>1. /\ docs' = docs /\ held' = held
        /\ files' = {f \in files : f.number # new.number} \union {new}
        /\ printing' = [printing EXCEPT ![d] = [at |-> "record"]]
        /\ Of(new, d)
    BY <1>9 DEF PutObject, Printed
  <2>2. [at |-> "record"] \in Progress /\ [at |-> "record"].at = "record"
    BY DEF Progress
  <2> HIDE DEF new
  <2>3. /\ printing' \in Seq(Progress) /\ DOMAIN printing' = DOMAIN printing
        /\ \A e \in DOMAIN docs :
              printing'[e] = IF e = d THEN [at |-> "record"] ELSE printing[e]
    BY <2>1, <2>2, ProgressSet
  <2>4. ASSUME NEW e \in DOMAIN docs, printing'[e].at = "record" \/ docs[e].key
        PROVE  \E f \in files' : f.number = docs[e].number
    <3>1. CASE new.number = docs[e].number
      BY <2>1, <3>1
    <3>2. CASE new.number # docs[e].number
      <4>1. e # d
        BY <2>1, <3>2 DEF Of
      <4>2. PICK f \in files : f.number = docs[e].number
        BY <2>3, <2>4, <4>1 DEF Printed
      <4> QED BY <2>1, <3>2, <4>2
    <3> QED BY <3>1, <3>2
  <2>5. \A f \in files' : \E e \in DOMAIN docs : Of(f, e)
    BY <2>1 DEF Printed
  <2>6. ASSUME NEW e \in DOMAIN docs
        PROVE  (printing[e].at = "put" => Of(printing[e].doc, e))'
    BY <2>1, <2>2, <2>3 DEF Printed, Of, Body, Sections
  <2>7. \A f \in held' : \E e \in DOMAIN docs : Visible(e) /\ Of(f, e)
    BY <2>1 DEF Printed
  <2>8. docs' = docs
    BY <2>1
  <2>9. \A f, e : (Of(f, e)' <=> Of(f, e)) /\ (Visible(e)' <=> Visible(e))
    BY <2>8 DEF Of, Body, Sections, Visible
  <2> QED BY <1>p, <2>3, <2>4, <2>5, <2>6, <2>7, <2>8, <2>9 DEF Printed
<1>10. ASSUME NEW d \in DOMAIN docs, RecordKey(d) PROVE Printed'
  <2>1. /\ SamePapers
        /\ \A e \in DOMAIN docs : docs'[e].key = IF e = d THEN TRUE ELSE docs[e].key
    BY <1>10, KeyKeeps
  <2>2. /\ printing[d].at = "record" /\ files' = files /\ held' = held
        /\ printing' = [printing EXCEPT ![d] = [at |-> "done"]]
    BY <1>10 DEF RecordKey
  <2>3. [at |-> "done"] \in Progress /\ [at |-> "done"].at = "done"
    BY DEF Progress
  <2>4. /\ printing' \in Seq(Progress) /\ DOMAIN printing' = DOMAIN printing
        /\ \A e \in DOMAIN docs :
              printing'[e] = IF e = d THEN [at |-> "done"] ELSE printing[e]
    BY <2>2, <2>3, ProgressSet
  <2>5. \A e \in DOMAIN docs :
           /\ e \in DOMAIN docs' /\ docs'[e].number = docs[e].number
           /\ Visible(e) => Visible(e)'
           /\ \A f : Of(f, e) => Of(f, e)'
    BY <2>1, DocumentsLast
  <2>6. ASSUME NEW e \in DOMAIN docs
        PROVE  /\ (printing[e].at = "put" => Of(printing[e].doc, e))'
               /\ printing'[e].at = "record" \/ docs'[e].key =>
                     \E f \in files : f.number = docs'[e].number
    BY <2>1, <2>2, <2>3, <2>4, <2>5 DEF Printed
  <2>7. DOMAIN docs' = DOMAIN docs
    BY <2>1 DEF SamePapers
  <2> QED BY <1>p, <2>2, <2>4, <2>5, <2>6, <2>7 DEF Printed
<1>11. ASSUME NEW d \in DOMAIN docs, DownloadInvoicePDF(d) PROVE Printed'
  <2>1. /\ docs' = docs /\ files' = files /\ printing' = printing /\ Visible(d)
        /\ held' = held \union {f \in files : f.number = docs[d].number}
    BY <1>11 DEF DownloadInvoicePDF
  <2>2. ASSUME NEW f \in held' PROVE \E e \in DOMAIN docs : Visible(e) /\ Of(f, e)
    <3>1. CASE f \in held
      BY <3>1 DEF Printed
    <3>2. CASE f \in files /\ f.number = docs[d].number
      <4>1. PICK e \in DOMAIN docs : Of(f, e)
        BY <3>2 DEF Printed
      <4>2. e = d
        BY <3>2, <4>1 DEF Of, Numbered
      <4> QED BY <2>1, <4>1, <4>2
    <3> QED BY <2>1, <2>2, <3>1, <3>2
  <2> QED BY <2>1, <2>2 DEF Printed, Of, Body, Sections, Visible
<1>12. CASE Reading
  <2>1. SameDocs /\ UNCHANGED <<printing, files, held>>
    BY <1>12
       DEF Reading, Statement, ReadMovements, StatementUsage, EachStatementLine, Finish, SameDocs
  <2> QED BY <1>u, <2>1
<1> QED BY <1>1, <1>2, <1>3, <1>4, <1>5, <1>6, <1>7, <1>8, <1>9, <1>10, <1>11, <1>12
        DEF DocumentsNext, Accounting, Papers, Writes

LEMMA PrintedIsTrue == Printed => HeldIsTrue
BY DEF Printed, HeldIsTrue, Of

\* What a step does to the ledger.
ExpiryRow      == [stamp |-> 1, kind |-> "expiry", of |-> 0]
PurchaseRow(c) == [stamp |-> clerk[c].stamp, kind |-> "purchase", of |-> Len(docs) + 1]
DrawRow(c)     == [stamp |-> clerk[c].stamp, kind |-> "consumption",
                   of |-> CHOOSE r \in clerk[c].lines : TRUE]

Buys(c)   == CommitDocument(c) /\ clerk[c].task = "purchase"
Spends(c) == \E lots \in 1 .. 2 : CommitDraw(c, lots)

NewRows == DOMAIN entries' \ DOMAIN entries

Grown ==
  /\ DOMAIN entries \subseteq DOMAIN entries'
  /\ \A i \in DOMAIN entries : entries'[i] = entries[i]

Explained ==
  \A i \in NewRows :
     \/ ExpireCredits /\ entries'[i] = ExpiryRow
     \/ \E c \in Clerks : Buys(c) /\ entries'[i] = PurchaseRow(c)
     \/ \E c \in Clerks : Spends(c) /\ entries'[i] = DrawRow(c)

LEMMA GrownBy ==
  ASSUME DocumentsTypeOK, NEW rows \in Seq(Entry), entries' = entries \o rows
  PROVE  /\ Grown
         /\ \A i \in NewRows : \E j \in DOMAIN rows : entries'[i] = rows[j]
         /\ Len(rows) > 0 => Len(entries) + 1 \in NewRows
<1>1. entries \in Seq(Entry)
  BY DEF DocumentsTypeOK
<1> HIDE DEF Entry
<1>2. /\ Len(entries) \in Nat /\ Len(rows) \in Nat
      /\ DOMAIN entries = 1 .. Len(entries) /\ DOMAIN rows = 1 .. Len(rows)
      /\ DOMAIN entries' = 1 .. (Len(entries) + Len(rows))
  BY <1>1
<1>3. \A i \in 1 .. (Len(entries) + Len(rows)) :
         entries'[i] = IF i <= Len(entries) THEN entries[i] ELSE rows[i - Len(entries)]
  BY <1>1
<1>4. \A i \in NewRows : i - Len(entries) \in DOMAIN rows
  BY <1>2 DEF NewRows
<1>5. \A i \in NewRows : entries'[i] = rows[i - Len(entries)]
  BY <1>2, <1>3 DEF NewRows
<1>6. Grown
  BY <1>2, <1>3 DEF Grown
<1>7. Len(rows) > 0 => Len(entries) + 1 \in NewRows
  BY <1>2 DEF NewRows
<1> QED BY <1>4, <1>5, <1>6, <1>7

LEMMA BuyingGrows ==
  ASSUME DocumentsTypeOK, NEW c \in Clerks, CommitDocument(c)
  PROVE  /\ Grown
         /\ \A i \in NewRows : clerk[c].task = "purchase" /\ entries'[i] = PurchaseRow(c)
         /\ clerk[c].task = "purchase" => Len(entries) + 1 \in NewRows
<1>1. PurchaseRows(c) \in Seq(Entry) /\ entries' = entries \o PurchaseRows(c)
  BY PaperTyped DEF CommitDocument
<1>2. /\ Grown
      /\ \A i \in NewRows : \E j \in DOMAIN PurchaseRows(c) : entries'[i] = PurchaseRows(c)[j]
      /\ Len(PurchaseRows(c)) > 0 => Len(entries) + 1 \in NewRows
  BY <1>1, GrownBy
<1>3. /\ clerk[c].task = "purchase" => Len(PurchaseRows(c)) > 0
      /\ \A j \in DOMAIN PurchaseRows(c) :
            clerk[c].task = "purchase" /\ PurchaseRows(c)[j] = PurchaseRow(c)
  BY DEF PurchaseRows, PurchaseRow
<1> QED BY <1>2, <1>3

LEMMA SpendingGrows ==
  ASSUME DocumentsTypeOK, NEW c \in Clerks, Spends(c)
  PROVE  /\ Grown
         /\ \A i \in NewRows : entries'[i] = DrawRow(c)
<1>1. PICK lots \in 1 .. 2 : CommitDraw(c, lots)
  BY DEF Spends
<1>2. clerk[c] \in Spending
  BY <1>1, ClerkWell DEF CommitDraw, Draws
<1>3. DrawRow(c) \in Entry
  <2>1. (CHOOSE r \in clerk[c].lines : TRUE) \in Nat
    BY <1>2 DEF Spending
  <2> QED BY <1>2, <2>1 DEF DrawRow, Spending, Entry, Kinds
<1>4. entries' = entries \o [i \in 1 .. lots |-> DrawRow(c)]
  BY <1>1 DEF CommitDraw, DrawRow
<1> DEFINE rows == [i \in 1 .. lots |-> DrawRow(c)]
<1>5. rows \in Seq(Entry)
  BY <1>3, RowsTyped
<1>6. \A j \in DOMAIN rows : rows[j] = DrawRow(c)
  OBVIOUS
<1> HIDE DEF rows
<1> QED BY <1>4, <1>5, <1>6, GrownBy DEF rows

LEMMA EntriesStep ==
  ASSUME DocumentsTypeOK, [DocumentsNext]_documentVars
  PROVE  Grown /\ Explained
<1>0. ASSUME entries' = entries PROVE Grown /\ Explained
  BY <1>0 DEF Grown, Explained, NewRows
<1>1. CASE ExpireCredits
  <2>1. ExpiryRow \in Entry
    BY DocumentsAssumption DEF ExpiryRow, Entry, Kinds, Months
  <2>2. /\ <<ExpiryRow>> \in Seq(Entry) /\ entries' = entries \o <<ExpiryRow>>
        /\ \A j \in DOMAIN <<ExpiryRow>> : <<ExpiryRow>>[j] = ExpiryRow
    <3>1. entries' = Append(entries, ExpiryRow)
      BY <1>1 DEF ExpireCredits, ExpiryRow
    <3> QED BY <2>1, <3>1 DEF DocumentsTypeOK
  <2> QED BY <1>1, <2>2, GrownBy DEF Explained
<1>2. ASSUME NEW c \in Clerks, CommitDocument(c) PROVE Grown /\ Explained
  BY <1>2, BuyingGrows DEF Explained, Buys
<1>3. ASSUME NEW c \in Clerks, Spends(c) PROVE Grown /\ Explained
  BY <1>3, SpendingGrows DEF Explained
<1>4. CASE NextMonth \/ Rename \/ RecordUsage \/ UNCHANGED documentVars
  BY <1>0, <1>4 DEF NextMonth, Rename, RecordUsage, documentVars
<1>5. ASSUME NEW c \in Clerks,
             \/ SettleTopUp(c) \/ CreateAccountUsageInvoice(c) \/ CreateManualInvoice(c)
             \/ CreateInvoice(c) \/ ConsumeCredit(c) \/ BeginTx(c) \/ AllocateDocumentNumber(c)
             \/ RollBack(c)
      PROVE  Grown /\ Explained
  BY <1>0, <1>5
     DEF SettleTopUp, CreateAccountUsageInvoice, CreateManualInvoice, CreateInvoice, Prepare,
         ConsumeCredit, BeginTx, AllocateDocumentNumber, RollBack
<1>6. ASSUME NEW d \in DOMAIN docs,
             \/ IssueInvoice(d) \/ VoidInvoice(d) \/ MarkInvoicePaid(d)
             \/ LoadForPDF(d) \/ PutObject(d) \/ RecordKey(d) \/ PrintFails(d)
             \/ DownloadInvoicePDF(d)
      PROVE  Grown /\ Explained
  BY <1>0, <1>6
     DEF IssueInvoice, VoidInvoice, MarkInvoicePaid, LoadForPDF, PutObject, RecordKey,
         PrintFails, DownloadInvoicePDF
<1>7. CASE Reading
  <2>1. entries' = entries
    BY <1>7 DEF Reading, Statement, ReadMovements, StatementUsage, EachStatementLine
  <2> QED BY <1>0, <2>1
<1> QED BY <1>1, <1>2, <1>3, <1>4, <1>5, <1>6, <1>7
        DEF DocumentsNext, Accounting, Papers, Writes, Spends

LEMMA ReceiptedStays == DocumentsTypeOK /\ Receipted /\ [DocumentsNext]_documentVars => Receipted'
<1> SUFFICES ASSUME DocumentsTypeOK, Receipted, [DocumentsNext]_documentVars PROVE Receipted'
  OBVIOUS
<1>1. Grown /\ Explained
  BY EntriesStep
<1>2. \A i \in DOMAIN entries' : i \in DOMAIN entries \/ i \in NewRows
  BY DEF NewRows
<1>3. CASE SamePapers /\ ~\E c \in Clerks : CommitDocument(c)
  <2>1. \A i \in NewRows : entries'[i].kind # "purchase"
    <3>1. /\ ExpiryRow.kind # "purchase"
          /\ \A c \in Clerks : DrawRow(c).kind # "purchase"
      BY DEF ExpiryRow, DrawRow
    <3>2. \A c \in Clerks : ~Buys(c)
      BY <1>3 DEF Buys
    <3> QED BY <1>1, <3>1, <3>2 DEF Explained
  <2>2. /\ \A i \in DOMAIN entries' :
              entries'[i].kind = "purchase" => i \in DOMAIN entries
        /\ \A i \in DOMAIN entries : i \in DOMAIN entries' /\ entries'[i] = entries[i]
    BY <1>1, <1>2, <2>1 DEF Grown
  <2>3. /\ DOMAIN docs' = DOMAIN docs
        /\ \A d \in DOMAIN docs : docs'[d].task = docs[d].task
    BY <1>3 DEF SamePapers
  <2> QED BY <2>2, <2>3 DEF Receipted, ReceiptForPurchase
<1>4. ASSUME NEW c \in Clerks, CommitDocument(c) PROVE Receipted'
  <2> DEFINE x == Len(docs) + 1
  <2>1. /\ DOMAIN docs' = DOMAIN docs \union {x} /\ x \notin DOMAIN docs
        /\ \A d \in DOMAIN docs : docs'[d] = docs[d]
        /\ docs'[x] = Document(c)
    BY <1>4, Added
  <2>2. docs'[x].task = clerk[c].task
    BY <2>1 DEF Document
  <2>3. /\ \A i \in NewRows : clerk[c].task = "purchase" /\ entries'[i] = PurchaseRow(c)
        /\ clerk[c].task = "purchase" => Len(entries) + 1 \in NewRows
    BY <1>4, BuyingGrows
  <2>4. PurchaseRow(c).kind = "purchase" /\ PurchaseRow(c).of = x
    BY DEF PurchaseRow
  <2> HIDE DEF x
  <2>5. ASSUME NEW i \in DOMAIN entries', entries'[i].kind = "purchase"
        PROVE  entries'[i].of \in DOMAIN docs'
    <3>1. CASE i \in DOMAIN entries
      BY <1>1, <2>1, <2>5, <3>1 DEF Grown, Receipted
    <3>2. CASE i \in NewRows
      BY <2>1, <2>3, <2>4, <3>2
    <3> QED BY <1>2, <3>1, <3>2
  <2>6. ASSUME NEW d \in DOMAIN docs'
        PROVE  docs'[d].task = "purchase" <=>
                 \E i \in DOMAIN entries' : entries'[i].kind = "purchase" /\ entries'[i].of = d
    <3>1. CASE d \in DOMAIN docs
      <4>1. docs'[d].task = "purchase" <=>
               \E i \in DOMAIN entries : entries[i].kind = "purchase" /\ entries[i].of = d
        BY <2>1, <3>1 DEF Receipted, ReceiptForPurchase
      <4>2. \A i \in NewRows : entries'[i].of # d
        BY <2>1, <2>3, <2>4, <3>1
      <4> QED BY <1>1, <1>2, <4>1, <4>2 DEF Grown
    <3>2. CASE d = x
      <4>1. \A i \in DOMAIN entries : ~(entries[i].kind = "purchase" /\ entries[i].of = x)
        BY <2>1 DEF Receipted
      <4>2. CASE clerk[c].task = "purchase"
        BY <2>2, <2>3, <2>4, <3>2, <4>2 DEF NewRows
      <4>3. CASE clerk[c].task # "purchase"
        BY <1>1, <1>2, <2>2, <2>3, <3>2, <4>1, <4>3 DEF Grown
      <4> QED BY <4>2, <4>3
    <3> QED BY <2>1, <3>1, <3>2
  <2> QED BY <2>5, <2>6 DEF Receipted, ReceiptForPurchase
<1> QED BY <1>3, <1>4, DocumentsStep

LEMMA MonthStep ==
  ASSUME [DocumentsNext]_documentVars
  PROVE  (month' = month \/ month' = month + 1) /\ (lapsing' => lapsing)
<1>1. CASE NextMonth \/ Rename \/ RecordUsage \/ ExpireCredits \/ UNCHANGED documentVars
  BY <1>1 DEF NextMonth, Rename, RecordUsage, ExpireCredits, documentVars
<1>2. ASSUME NEW c \in Clerks,
             \/ Writes(c) \/ CreateAccountUsageInvoice(c) \/ CreateManualInvoice(c)
             \/ CreateInvoice(c) \/ ConsumeCredit(c) \/ Spends(c)
      PROVE  UNCHANGED <<month, lapsing>>
  BY <1>2
     DEF Writes, SettleTopUp, CreateAccountUsageInvoice, CreateManualInvoice, CreateInvoice,
         Prepare, ConsumeCredit, BeginTx, AllocateDocumentNumber, CommitDocument, RollBack,
         Spends, CommitDraw
<1>3. ASSUME NEW d \in DOMAIN docs,
             \/ IssueInvoice(d) \/ VoidInvoice(d) \/ MarkInvoicePaid(d)
             \/ LoadForPDF(d) \/ PutObject(d) \/ RecordKey(d) \/ PrintFails(d)
             \/ DownloadInvoicePDF(d)
      PROVE  UNCHANGED <<month, lapsing>>
  BY <1>3
     DEF IssueInvoice, VoidInvoice, MarkInvoicePaid, LoadForPDF, PutObject, RecordKey,
         PrintFails, DownloadInvoicePDF
<1>4. CASE Reading
  BY <1>4 DEF Reading, Statement, ReadMovements, StatementUsage, EachStatementLine
<1> QED BY <1>1, <1>2, <1>3, <1>4 DEF DocumentsNext, Accounting, Papers, Spends

\* Who changes the state of a clerk.
LEMMA ClerkUntouched ==
  ASSUME [DocumentsNext]_documentVars,
         \A c \in Clerks : ~Spends(c) /\ ~ConsumeCredit(c)
  PROVE  UNCHANGED clerk \/ \E c \in Clerks : Writes(c) \/ CreateAccountUsageInvoice(c)
                                            \/ CreateManualInvoice(c) \/ CreateInvoice(c)
<1>1. CASE NextMonth \/ Rename \/ RecordUsage \/ ExpireCredits \/ UNCHANGED documentVars
  BY <1>1 DEF NextMonth, Rename, RecordUsage, ExpireCredits, documentVars
<1>2. ASSUME NEW d \in DOMAIN docs,
             \/ IssueInvoice(d) \/ VoidInvoice(d) \/ MarkInvoicePaid(d)
             \/ LoadForPDF(d) \/ PutObject(d) \/ RecordKey(d) \/ PrintFails(d)
             \/ DownloadInvoicePDF(d)
      PROVE  UNCHANGED clerk
  BY <1>2
     DEF IssueInvoice, VoidInvoice, MarkInvoicePaid, LoadForPDF, PutObject, RecordKey,
         PrintFails, DownloadInvoicePDF
<1>3. CASE Reading
  BY <1>3 DEF Reading, Statement, ReadMovements, StatementUsage, EachStatementLine
<1> QED BY <1>1, <1>2, <1>3 DEF DocumentsNext, Accounting, Papers, Spends

LEMMA DrawnOnceStays == DocumentsTypeOK /\ DrawnOnce /\ [DocumentsNext]_documentVars => DrawnOnce'
<1> SUFFICES ASSUME DocumentsTypeOK, DrawnOnce, [DocumentsNext]_documentVars PROVE DrawnOnce'
  OBVIOUS
<1>1. Grown /\ Explained
  BY EntriesStep
<1>2. \A i \in DOMAIN entries' : i \in DOMAIN entries \/ i \in NewRows
  BY DEF NewRows
<1>3. ASSUME \A c \in Clerks : ~Spends(c),
             \A c \in Clerks : Draws(c)' => Draws(c) /\ clerk'[c].lines = clerk[c].lines
      PROVE  DrawnOnce'
  <2>1. \A i \in NewRows : entries'[i].kind # "consumption"
    <3>1. /\ ExpiryRow.kind # "consumption"
          /\ \A c \in Clerks : PurchaseRow(c).kind # "consumption"
      BY DEF ExpiryRow, PurchaseRow
    <3> QED BY <1>1, <1>3, <3>1 DEF Explained
  <2>2. /\ \A i \in DOMAIN entries' :
              entries'[i].kind = "consumption" => i \in DOMAIN entries
        /\ \A i \in DOMAIN entries : i \in DOMAIN entries' /\ entries'[i] = entries[i]
    BY <1>1, <1>2, <2>1 DEF Grown
  <2>3. \A r : Drawn(r)' <=> Drawn(r)
    BY <2>2 DEF Drawn
  <2> QED BY <1>3, <2>2, <2>3 DEF DrawnOnce
<1>4. ASSUME NEW c \in Clerks, Spends(c) PROVE DrawnOnce'
  <2> DEFINE r == CHOOSE r \in clerk[c].lines : TRUE
  <2>1. Draws(c) /\ clerk' = [clerk EXCEPT ![c] = Idle]
    BY <1>4 DEF Spends, CommitDraw, Draws
  <2>2. clerk[c].lines = {r}
    BY <2>1, ClerkWell DEF Spending
  <2>3. /\ \A i \in NewRows : entries'[i] = DrawRow(c)
        /\ \A i \in DOMAIN entries : i \in DOMAIN entries' /\ entries'[i] = entries[i]
    BY <1>1, <1>4, SpendingGrows DEF Grown
  <2>4. DrawRow(c).of = r
    BY DEF DrawRow
  <2>5. ~Drawn(r)
    BY <2>1, <2>2 DEF DrawnOnce
  <2>6. /\ ~Draws(c)'
        /\ \A k \in Clerks : k # c => clerk'[k] = clerk[k]
    BY <2>1 DEF DocumentsTypeOK, Draws, Idle
  <2> HIDE DEF r
  <2>7. \A q : Drawn(q)' => Drawn(q) \/ q = r
    BY <1>2, <2>3, <2>4 DEF Drawn
  <2>8. ASSUME NEW k \in Clerks, Draws(k)'
        PROVE  Draws(k) /\ clerk'[k] = clerk[k] /\ r \notin clerk[k].lines
    <3>1. k # c /\ clerk'[k] = clerk[k] /\ Draws(k)
      BY <2>6, <2>8 DEF Draws
    <3>2. clerk[k] \in Spending
      BY <3>1, ClerkWell
    <3>3. clerk[k].lines # {r}
      BY <2>1, <2>2, <3>1 DEF DrawnOnce
    <3> QED BY <3>1, <3>2, <3>3 DEF Spending
  <2>9. \A k \in Clerks : Draws(k)' => \A q \in clerk'[k].lines : ~Drawn(q)'
    BY <2>7, <2>8 DEF DrawnOnce
  <2>10. \A k, j \in Clerks : Draws(k)' /\ Draws(j)' /\ clerk'[k].lines = clerk'[j].lines => k = j
    BY <2>8 DEF DrawnOnce
  <2>11. ASSUME NEW i \in DOMAIN entries', NEW j \in DOMAIN entries',
                entries'[i].kind = "consumption", entries'[j].kind = "consumption",
                entries'[i].of = entries'[j].of
         PROVE  entries'[i].stamp = entries'[j].stamp
    <3>1. \A k \in DOMAIN entries : entries[k].kind = "consumption" => entries[k].of # r
      BY <2>5 DEF Drawn
    <3>2. CASE i \in DOMAIN entries /\ j \in DOMAIN entries
      BY <2>3, <2>11, <3>2 DEF DrawnOnce
    <3>3. CASE i \in NewRows /\ j \in NewRows
      BY <2>3, <3>3
    <3>4. CASE i \in NewRows /\ j \in DOMAIN entries
      BY <2>3, <2>4, <2>11, <3>1, <3>4
    <3>5. CASE j \in NewRows /\ i \in DOMAIN entries
      BY <2>3, <2>4, <2>11, <3>1, <3>5
    <3> QED BY <1>2, <3>2, <3>3, <3>4, <3>5
  <2> QED BY <2>9, <2>10, <2>11 DEF DrawnOnce
<1>5. ASSUME NEW c \in Clerks, ConsumeCredit(c) PROVE DrawnOnce'
  <2>1. PICK r \in DOMAIN usage :
           /\ ~Drawn(r) /\ ~Drawing(r)
           /\ clerk' = [clerk EXCEPT ![c] =
                          [at |-> "begun", task |-> "draw", lines |-> {r}, stamp |-> month]]
    BY <1>5 DEF ConsumeCredit
  <2>2. entries' = entries
    BY <1>5 DEF ConsumeCredit
  <2>3. \A q : Drawn(q)' <=> Drawn(q)
    BY <2>2 DEF Drawn
  <2>4. /\ clerk'[c].lines = {r}
        /\ \A k \in Clerks : k # c => clerk'[k] = clerk[k]
    BY <2>1 DEF DocumentsTypeOK
  <2>5. \A k \in Clerks : Draws(k) => clerk[k].lines # {r}
    BY <2>1 DEF Drawing, Draws
  <2> QED BY <2>1, <2>2, <2>3, <2>4, <2>5 DEF DrawnOnce, Draws
<1>6. CASE \A c \in Clerks : ~Spends(c) /\ ~ConsumeCredit(c)
  <2>1. CASE UNCHANGED clerk
    BY <1>3, <1>6, <2>1 DEF Draws
  <2>2. ASSUME NEW c \in Clerks, NEW k, clerk' = [clerk EXCEPT ![c] = k],
               k.at # "begun" \/ k.task # "draw"
        PROVE  DrawnOnce'
    <3>1. clerk'[c] = k /\ \A j \in Clerks : j # c => clerk'[j] = clerk[j]
      BY <2>2 DEF DocumentsTypeOK
    <3>2. \A j \in Clerks : Draws(j)' => j # c /\ clerk'[j] = clerk[j]
      BY <2>2, <3>1 DEF Draws
    <3>3. \A j \in Clerks : Draws(j)' => Draws(j) /\ clerk'[j].lines = clerk[j].lines
      BY <3>2 DEF Draws
    <3> QED BY <1>3, <1>6, <3>3
  <2>3. UNCHANGED clerk \/ \E c \in Clerks : Writes(c) \/ CreateAccountUsageInvoice(c)
                                           \/ CreateManualInvoice(c) \/ CreateInvoice(c)
    BY <1>6, ClerkUntouched
  <2>4. ASSUME NEW c \in Clerks, \/ SettleTopUp(c) \/ CreateAccountUsageInvoice(c)
                                 \/ CreateManualInvoice(c) \/ CreateInvoice(c)
        PROVE  DrawnOnce'
    <3>1. PICK task, m, lines : Prepare(c, task, m, lines)
      BY <2>4 DEF SettleTopUp, CreateAccountUsageInvoice, CreateManualInvoice, CreateInvoice
    <3> DEFINE k == [at |-> "prepared", task |-> task, month |-> m, who |-> BillTo,
                     lines |-> lines]
    <3>2. clerk' = [clerk EXCEPT ![c] = k] /\ k.at # "begun"
      BY <3>1 DEF Prepare
    <3> HIDE DEF k
    <3> QED BY <2>2, <3>2
  <2>5. ASSUME NEW c \in Clerks, BeginTx(c) PROVE DrawnOnce'
    <3> DEFINE k == [at |-> "begun", task |-> clerk[c].task, month |-> clerk[c].month,
                     who |-> clerk[c].who, lines |-> clerk[c].lines, stamp |-> month]
    <3>1. clerk' = [clerk EXCEPT ![c] = k]
      BY <2>5 DEF BeginTx
    <3>2. clerk[c] \in Asking
      BY <2>5, ClerkWell DEF BeginTx
    <3>3. k.task # "draw"
      BY <3>2 DEF Asking, Tasks
    <3> HIDE DEF k
    <3> QED BY <2>2, <3>1, <3>3
  <2>6. ASSUME NEW c \in Clerks, AllocateDocumentNumber(c) PROVE DrawnOnce'
    <3> DEFINE k == [clerk[c] EXCEPT !.at = "numbered"]
    <3>1. clerk' = [clerk EXCEPT ![c] = k]
      BY <2>6 DEF AllocateDocumentNumber
    <3>2. clerk[c] \in Writing
      BY <2>6, ClerkWell DEF AllocateDocumentNumber
    <3>3. k.at # "begun"
      BY <3>2 DEF Writing
    <3> HIDE DEF k
    <3> QED BY <2>2, <3>1, <3>3
  <2>7. ASSUME NEW c \in Clerks, CommitDocument(c) \/ RollBack(c) PROVE DrawnOnce'
    <3>1. clerk' = [clerk EXCEPT ![c] = Idle] /\ Idle.at # "begun"
      BY <2>7 DEF CommitDocument, RollBack, Idle
    <3> QED BY <2>2, <3>1
  <2> QED BY <2>1, <2>3, <2>4, <2>5, <2>6, <2>7 DEF Writes
<1> QED BY <1>4, <1>5, <1>6

\* Rows that come when a month is over bear a later one.
LEMMA OverStays ==
  ASSUME DocumentsTypeOK, [DocumentsNext]_documentVars, NEW m \in Months, Over(m)
  PROVE  /\ Over(m)'
         /\ \A i \in NewRows : entries'[i].stamp > m
<1>1. Grown /\ Explained
  BY EntriesStep
<1>t. month \in Int /\ m \in Int
  BY DEF DocumentsTypeOK, Months
<1>2. \A i \in NewRows : entries'[i].stamp > m
  <2>1. ~ExpireCredits
    BY DEF Over, ExpireCredits
  <2>2. ASSUME NEW c \in Clerks, Buys(c) \/ Spends(c) PROVE clerk[c].stamp > m
    BY <2>2 DEF Over, Buys, CommitDocument, Spends, CommitDraw
  <2>3. \A c \in Clerks : /\ PurchaseRow(c).stamp = clerk[c].stamp
                          /\ DrawRow(c).stamp = clerk[c].stamp
    BY DEF PurchaseRow, DrawRow
  <2> QED BY <1>1, <2>1, <2>2, <2>3 DEF Explained
<1>3. m < month' /\ ~lapsing'
  <2>1. month' = month \/ month' = month + 1
    BY MonthStep
  <2>2. lapsing' => lapsing
    BY MonthStep
  <2> QED BY <1>t, <2>1, <2>2 DEF Over
<1>4. \A c \in Clerks : clerk'[c].at \in {"begun", "numbered"} => clerk'[c].stamp > m
  <2>1. \A c \in Clerks : clerk[c].at \in {"begun", "numbered"} => clerk[c].stamp > m
    BY DEF Over
  <2>2. CASE UNCHANGED clerk
    BY <2>1, <2>2
  <2>3. ASSUME NEW c \in Clerks, NEW k, clerk' = [clerk EXCEPT ![c] = k],
               k.at \in {"begun", "numbered"} => k.stamp > m
        PROVE  \A j \in Clerks : clerk'[j].at \in {"begun", "numbered"} => clerk'[j].stamp > m
    BY <2>1, <2>3 DEF DocumentsTypeOK
  <2>4. ASSUME NEW c \in Clerks, \/ SettleTopUp(c) \/ CreateAccountUsageInvoice(c)
                                 \/ CreateManualInvoice(c) \/ CreateInvoice(c)
        PROVE  \A j \in Clerks : clerk'[j].at \in {"begun", "numbered"} => clerk'[j].stamp > m
    <3>1. PICK task, n, lines : Prepare(c, task, n, lines)
      BY <2>4 DEF SettleTopUp, CreateAccountUsageInvoice, CreateManualInvoice, CreateInvoice
    <3> DEFINE k == [at |-> "prepared", task |-> task, month |-> n, who |-> BillTo,
                     lines |-> lines]
    <3>2. clerk' = [clerk EXCEPT ![c] = k] /\ k.at = "prepared"
      BY <3>1 DEF Prepare
    <3> HIDE DEF k
    <3> QED BY <2>3, <3>2
  <2>5. ASSUME NEW c \in Clerks, BeginTx(c)
        PROVE  \A j \in Clerks : clerk'[j].at \in {"begun", "numbered"} => clerk'[j].stamp > m
    <3> DEFINE k == [at |-> "begun", task |-> clerk[c].task, month |-> clerk[c].month,
                     who |-> clerk[c].who, lines |-> clerk[c].lines, stamp |-> month]
    <3>1. clerk' = [clerk EXCEPT ![c] = k]
      BY <2>5 DEF BeginTx
    <3>2. k.stamp > m
      BY <1>t DEF Over
    <3> HIDE DEF k
    <3> QED BY <2>3, <3>1, <3>2
  <2>6. ASSUME NEW c \in Clerks, ConsumeCredit(c)
        PROVE  \A j \in Clerks : clerk'[j].at \in {"begun", "numbered"} => clerk'[j].stamp > m
    <3>1. PICK r \in DOMAIN usage :
             clerk' = [clerk EXCEPT ![c] =
                         [at |-> "begun", task |-> "draw", lines |-> {r}, stamp |-> month]]
      BY <2>6 DEF ConsumeCredit
    <3> DEFINE k == [at |-> "begun", task |-> "draw", lines |-> {r}, stamp |-> month]
    <3>2. clerk' = [clerk EXCEPT ![c] = k] /\ k.stamp > m
      BY <1>t, <3>1 DEF Over
    <3> HIDE DEF k
    <3> QED BY <2>3, <3>2
  <2>7. ASSUME NEW c \in Clerks, AllocateDocumentNumber(c)
        PROVE  \A j \in Clerks : clerk'[j].at \in {"begun", "numbered"} => clerk'[j].stamp > m
    <3> DEFINE k == [clerk[c] EXCEPT !.at = "numbered"]
    <3>1. clerk' = [clerk EXCEPT ![c] = k] /\ clerk[c].at = "begun"
      BY <2>7 DEF AllocateDocumentNumber
    <3>2. clerk[c] \in Writing
      BY <2>7, ClerkWell DEF AllocateDocumentNumber
    <3>3. k.stamp = clerk[c].stamp
      BY <3>2 DEF Writing
    <3> HIDE DEF k
    <3> QED BY <2>1, <2>3, <3>1, <3>3
  <2>8. ASSUME NEW c \in Clerks, CommitDocument(c) \/ RollBack(c) \/ Spends(c)
        PROVE  \A j \in Clerks : clerk'[j].at \in {"begun", "numbered"} => clerk'[j].stamp > m
    <3>1. clerk' = [clerk EXCEPT ![c] = Idle] /\ Idle.at = "idle"
      BY <2>8 DEF CommitDocument, RollBack, Spends, CommitDraw, Idle
    <3> QED BY <2>3, <3>1
  <2>9. \/ \E c \in Clerks : Spends(c) \/ ConsumeCredit(c)
        \/ UNCHANGED clerk
        \/ \E c \in Clerks : Writes(c) \/ CreateAccountUsageInvoice(c)
                             \/ CreateManualInvoice(c) \/ CreateInvoice(c)
    BY ClerkUntouched
  <2> QED BY <2>2, <2>4, <2>5, <2>6, <2>7, <2>8, <2>9 DEF Writes
<1> QED BY <1>2, <1>3, <1>4 DEF Over

\* The rows of a month that is over, and those before it, are there for good.
LEMMA PageStays ==
  ASSUME DocumentsTypeOK, [DocumentsNext]_documentVars, NEW m \in Months, Over(m)
  PROVE  /\ Over(m)' /\ Page(m)' = Page(m)
         /\ Sum(Before(m))' = Sum(Before(m))
<1>1. /\ Over(m)' /\ Grown
      /\ \A i \in NewRows : entries'[i].stamp > m
  BY OverStays, EntriesStep
<1>2. \A i \in DOMAIN entries' : i \in DOMAIN entries \/ i \in NewRows
  BY DEF NewRows
<1>t. /\ m \in Int
      /\ \A i \in DOMAIN entries' : entries'[i].stamp \in Int
  <2>1. DocumentsTypeOK'
    BY DocumentsTyped
  <2>2. \A i \in DOMAIN entries' : entries'[i] \in Entry
    BY <2>1 DEF DocumentsTypeOK
  <2> QED BY <2>2 DEF Entry, Months
<1>3. Before(m)' = Before(m) /\ Before(m + 1)' = Before(m + 1) /\ During(m)' = During(m)
  BY <1>1, <1>2, <1>t DEF Grown, Before, During
<1>4. ASSUME NEW S \in SUBSET DOMAIN entries PROVE Sum(S)' = Sum(S)
  <2>1. \A p : {i \in S : entries'[i].kind \in p} = {i \in S : entries[i].kind \in p}
    BY <1>1 DEF Grown
  <2> QED BY <2>1 DEF Sum
<1>5. /\ Sum(Before(m))' = Sum(Before(m))
      /\ Sum(Before(m + 1))' = Sum(Before(m + 1))
  BY <1>3, <1>4 DEF Before
<1>6. DrawsOf(m)' = DrawsOf(m)
  BY <1>1, <1>3 DEF DrawsOf, Grown, During
<1>7. {entries'[i].of : i \in DrawsOf(m)} = {entries[i].of : i \in DrawsOf(m)}
  BY <1>1 DEF DrawsOf, Grown, During
<1> QED BY <1>1, <1>5, <1>6, <1>7 DEF Page

\* Only reading changes what has been read.
LEMMA ReaderStep ==
  ASSUME [DocumentsNext]_documentVars
  PROVE  UNCHANGED <<reader, settled>> \/ Reading
<1>1. CASE NextMonth \/ Rename \/ RecordUsage \/ ExpireCredits \/ UNCHANGED documentVars
  BY <1>1 DEF NextMonth, Rename, RecordUsage, ExpireCredits, documentVars
<1>2. ASSUME NEW c \in Clerks,
             \/ Writes(c) \/ CreateAccountUsageInvoice(c) \/ CreateManualInvoice(c)
             \/ CreateInvoice(c) \/ ConsumeCredit(c) \/ Spends(c)
      PROVE  UNCHANGED <<reader, settled>>
  BY <1>2
     DEF Writes, SettleTopUp, CreateAccountUsageInvoice, CreateManualInvoice, CreateInvoice,
         Prepare, ConsumeCredit, BeginTx, AllocateDocumentNumber, CommitDocument, RollBack,
         Spends, CommitDraw
<1>3. ASSUME NEW d \in DOMAIN docs,
             \/ IssueInvoice(d) \/ VoidInvoice(d) \/ MarkInvoicePaid(d)
             \/ LoadForPDF(d) \/ PutObject(d) \/ RecordKey(d) \/ PrintFails(d)
             \/ DownloadInvoicePDF(d)
      PROVE  UNCHANGED <<reader, settled>>
  BY <1>3
     DEF IssueInvoice, VoidInvoice, MarkInvoicePaid, LoadForPDF, PutObject, RecordKey,
         PrintFails, DownloadInvoicePDF
<1> QED BY <1>1, <1>2, <1>3 DEF DocumentsNext, Accounting, Papers, Spends

\* A statement adds up.
LEMMA Reconciles ==
  ASSUME DocumentsTypeOK, NEW m \in Months
  PROVE  /\ Sum(Before(m + 1)) = Sum(Before(m)) + Sum(During(m))
         /\ Sum(During(m)) = Movement(m, "purchase") + Movement(m, "grant")
                             - Movement(m, "consumption") - Movement(m, "expiry")
<1> DEFINE Of2(S, a, b) == {i \in S : entries[i].kind \in {a, b}}
           Of1(S, a) == {i \in S : entries[i].kind = a}
<1>t. /\ m \in Int
      /\ \A i \in DOMAIN entries : entries[i].stamp \in Int
  <2>1. \A i \in DOMAIN entries : entries[i] \in Entry
    BY DEF DocumentsTypeOK
  <2> QED BY <2>1 DEF Entry, Months
<1>1. /\ Before(m + 1) = Before(m) \union During(m)
      /\ Before(m) \cap During(m) = {}
  BY <1>t DEF Before, During
<1>2. /\ Before(m) \in SUBSET DOMAIN entries /\ During(m) \in SUBSET DOMAIN entries
      /\ Before(m + 1) \in SUBSET DOMAIN entries
  BY DEF Before, During
<1>3. \A S \in SUBSET DOMAIN entries : IsFiniteSet(S) /\ Cardinality(S) \in Nat
  BY CountIsNat
<1>4. ASSUME NEW S \in SUBSET DOMAIN entries, NEW T \in SUBSET DOMAIN entries, S \cap T = {}
      PROVE  Cardinality(S \union T) = Cardinality(S) + Cardinality(T)
  <2>1. Cardinality(S \union T) = Cardinality(S) + Cardinality(T) - Cardinality(S \cap T)
    BY <1>3, FS_Union
  <2>2. Cardinality(S \cap T) = 0
    BY <1>4, FS_EmptySet
  <2>3. Cardinality(S) \in Nat /\ Cardinality(T) \in Nat
    BY <1>3
  <2> QED BY <2>1, <2>2, <2>3
<1>5. \A a, b : Cardinality(Of2(Before(m + 1), a, b))
                  = Cardinality(Of2(Before(m), a, b)) + Cardinality(Of2(During(m), a, b))
  <2> TAKE a, b
  <2>1. /\ Of2(Before(m + 1), a, b) = Of2(Before(m), a, b) \union Of2(During(m), a, b)
        /\ Of2(Before(m), a, b) \cap Of2(During(m), a, b) = {}
        /\ Of2(Before(m), a, b) \in SUBSET DOMAIN entries
        /\ Of2(During(m), a, b) \in SUBSET DOMAIN entries
    BY <1>1, <1>2
  <2> HIDE DEF Of2
  <2> QED BY <1>4, <2>1
<1>6. \A a, b : a # b => Cardinality(Of2(During(m), a, b))
                           = Cardinality(Of1(During(m), a)) + Cardinality(Of1(During(m), b))
  <2> SUFFICES ASSUME NEW a, NEW b, a # b
               PROVE  Cardinality(Of2(During(m), a, b))
                        = Cardinality(Of1(During(m), a)) + Cardinality(Of1(During(m), b))
    OBVIOUS
  <2>1. /\ Of2(During(m), a, b) = Of1(During(m), a) \union Of1(During(m), b)
        /\ Of1(During(m), a) \cap Of1(During(m), b) = {}
        /\ Of1(During(m), a) \in SUBSET DOMAIN entries
        /\ Of1(During(m), b) \in SUBSET DOMAIN entries
    BY <1>2
  <2> HIDE DEF Of1, Of2
  <2> QED BY <1>4, <2>1
<1>7. \A S \in SUBSET DOMAIN entries : \A a, b :
         Cardinality(Of2(S, a, b)) \in Nat /\ Cardinality(Of1(S, a)) \in Nat
  BY <1>3
<1>8. \A S : Sum(S) = Cardinality(Of2(S, "grant", "purchase"))
                      - Cardinality(Of2(S, "consumption", "expiry"))
  BY DEF Sum
<1>9. \A a : Movement(m, a) = Cardinality(Of1(During(m), a))
  BY DEF Movement
<1> HIDE DEF Of1, Of2
<1>10. /\ Cardinality(Of2(During(m), "grant", "purchase"))
            = Movement(m, "grant") + Movement(m, "purchase")
       /\ Cardinality(Of2(During(m), "consumption", "expiry"))
            = Movement(m, "consumption") + Movement(m, "expiry")
  BY <1>6, <1>9
<1>11. /\ Movement(m, "grant") \in Nat /\ Movement(m, "purchase") \in Nat
       /\ Movement(m, "consumption") \in Nat /\ Movement(m, "expiry") \in Nat
  BY <1>2, <1>7, <1>9
<1>12. Sum(During(m)) = Movement(m, "purchase") + Movement(m, "grant")
                        - Movement(m, "consumption") - Movement(m, "expiry")
  BY <1>8, <1>10, <1>11
<1>13. Sum(Before(m + 1)) = Sum(Before(m)) + Sum(During(m))
  <2>1. /\ Cardinality(Of2(Before(m + 1), "grant", "purchase"))
             = Cardinality(Of2(Before(m), "grant", "purchase"))
               + Cardinality(Of2(During(m), "grant", "purchase"))
        /\ Cardinality(Of2(Before(m + 1), "consumption", "expiry"))
             = Cardinality(Of2(Before(m), "consumption", "expiry"))
               + Cardinality(Of2(During(m), "consumption", "expiry"))
    BY <1>5
  <2>2. /\ Cardinality(Of2(Before(m), "grant", "purchase")) \in Nat
        /\ Cardinality(Of2(Before(m), "consumption", "expiry")) \in Nat
        /\ Cardinality(Of2(During(m), "grant", "purchase")) \in Nat
        /\ Cardinality(Of2(During(m), "consumption", "expiry")) \in Nat
    BY <1>2, <1>7
  <2> QED BY <1>8, <2>1, <2>2
<1> QED BY <1>12, <1>13

\* Reading changes nothing that a page is made of.
LEMMA ReadingStays ==
  ASSUME UNCHANGED <<month, lapsing, clerk, entries>>
  PROVE  \A m : Over(m)' = Over(m) /\ Page(m)' = Page(m)
BY DEF Over, Page, Sum, Before, During, DrawsOf

LEMMA TrulyStays == DocumentsTypeOK /\ Truly /\ [DocumentsNext]_documentVars => Truly'
<1> SUFFICES ASSUME DocumentsTypeOK, Truly, [DocumentsNext]_documentVars PROVE Truly'
  OBVIOUS
<1>r. reader \in {Idle} \union Opened \union Closed
  BY DEF DocumentsTypeOK
<1>1. CASE UNCHANGED <<reader, settled>>
  <2>1. ASSUME NEW m \in Months, Over(m) PROVE Over(m)' /\ Page(m)' = Page(m)
    BY <2>1, PageStays
  <2>2. reader.at # "idle" => reader.month \in Months
    BY <1>r DEF Idle, Opened, Closed
  <2>3. \A m \in Months : \A p \in settled[m] : Over(m)' /\ p = Page(m)'
    BY <2>1 DEF Truly
  <2>4. \A m : reader.at # "idle" /\ reader.over /\ reader.month = m =>
                 Over(m)' /\ Page(m)' = Page(m)
    BY <2>1, <2>2 DEF Truly
  <2> QED BY <1>1, <2>3, <2>4 DEF Truly
<1>2. ASSUME NEW m \in Months, NEW csv \in BOOLEAN, Statement(m, csv) PROVE Truly'
  <2>1. \A n : Over(n)' = Over(n) /\ Page(n)' = Page(n)
    BY <1>2, ReadingStays DEF Statement
  <2>2. settled' = settled
    BY <1>2 DEF Statement
  <2>3. /\ reader'.at = "opened" /\ reader'.month = m /\ reader'.over = Over(m)
        /\ reader'.opening = Page(m).opening
    BY <1>2 DEF Statement, Page
  <2> QED BY <2>1, <2>2, <2>3 DEF Truly
<1>3. CASE ReadMovements
  <2> DEFINE m == reader.month
  <2>0. reader \in Opened
    BY <1>3, <1>r DEF ReadMovements, Idle, Closed
  <2>1. \A n : Over(n)' = Over(n) /\ Page(n)' = Page(n)
    BY <1>3, ReadingStays DEF ReadMovements
  <2>2. settled' = settled
    BY <1>3 DEF ReadMovements
  <2>3. /\ reader'.at = "closed" /\ reader'.month = m /\ reader'.over = reader.over
        /\ reader'.opening = reader.opening
        /\ reader'.closing = reader.opening + Movement(m, "purchase") + Movement(m, "grant")
                             - Movement(m, "consumption") - Movement(m, "expiry")
        /\ reader'.used = Movement(m, "consumption")
    BY <1>3 DEF ReadMovements
  <2>4. m \in Months /\ reader.at = "opened"
    BY <2>0 DEF Opened
  <2>5. Page(m).used = Movement(m, "consumption")
    BY DEF Page, DrawsOf, Movement
  <2>6. Page(m).opening = Sum(Before(m)) /\ Page(m).closing = Sum(Before(m + 1))
    BY DEF Page
  <2>7. /\ Sum(Before(m)) \in Int
        /\ \A kind : Movement(m, kind) \in Nat
    BY SumIsInt, CountIsNat DEF Before, During, Movement
  <2>8. ASSUME reader.over
        PROVE  Over(m) /\ reader'.opening = Page(m).opening /\ reader'.closing = Page(m).closing
               /\ reader'.used = Page(m).used
    <3>1. Over(m) /\ reader.opening = Page(m).opening
      BY <2>4, <2>8 DEF Truly
    <3>2. Page(m).closing
            = Page(m).opening + (Movement(m, "purchase") + Movement(m, "grant")
                                 - Movement(m, "consumption") - Movement(m, "expiry"))
      BY <2>4, <2>6, Reconciles
    <3>3. /\ Movement(m, "purchase") \in Nat /\ Movement(m, "grant") \in Nat
          /\ Movement(m, "consumption") \in Nat /\ Movement(m, "expiry") \in Nat
          /\ Page(m).opening \in Int
      BY <2>6, <2>7
    <3>4. reader'.closing = Page(m).closing
      BY <2>3, <3>1, <3>2, <3>3
    <3> QED BY <2>3, <2>5, <3>1, <3>4
  <2> HIDE DEF m
  <2> QED BY <2>1, <2>2, <2>3, <2>8 DEF Truly
<1>4. ASSUME NEW page, Finish(page), reader.over => page = Page(reader.month),
             UNCHANGED <<month, lapsing, clerk, entries>>, reader.at # "idle"
      PROVE  Truly'
  <2>1. \A n : Over(n)' = Over(n) /\ Page(n)' = Page(n)
    BY <1>4, ReadingStays
  <2>2. reader' = Idle
    BY <1>4 DEF Finish
  <2>3. CASE ~reader.over
    BY <1>4, <2>1, <2>2, <2>3 DEF Finish, Truly, Idle
  <2>4. CASE reader.over
    <3>1. Over(reader.month)
      BY <1>4, <2>4 DEF Truly
    <3>2. settled' = [settled EXCEPT ![reader.month] = @ \union {page}]
      BY <1>4, <2>4 DEF Finish
    <3>3. \A m \in Months : \A p \in settled'[m] : Over(m) /\ p = Page(m)
      BY <1>4, <2>4, <3>1, <3>2 DEF Truly
    <3>4. DOMAIN settled' = Months
      BY <3>2 DEF Truly
    <3> QED BY <2>1, <2>2, <3>3, <3>4 DEF Truly, Idle
  <2>5. reader.over \in BOOLEAN
    BY <1>4, <1>r DEF Idle, Opened, Closed
  <2> QED BY <2>3, <2>4, <2>5
<1>5. CASE StatementUsage
  <2>1. reader.at = "closed" /\ UNCHANGED <<month, lapsing, clerk, entries>>
    BY <1>5 DEF StatementUsage
  <2> DEFINE page == [opening |-> reader.opening, closing |-> reader.closing,
                      used |-> reader.used,
                      records |-> {entries[i].of : i \in DrawsOf(reader.month)},
                      drawn |-> Cardinality(DrawsOf(reader.month))]
  <2>2. Finish(page)
    BY <1>5 DEF StatementUsage, DrawsOf
  <2>3. reader.over => page = Page(reader.month)
    <3>1. reader.over => /\ reader.opening = Page(reader.month).opening
                         /\ reader.closing = Page(reader.month).closing
                         /\ reader.used = Page(reader.month).used
      BY <2>1 DEF Truly
    <3> QED BY <3>1 DEF Page
  <2> HIDE DEF page
  <2> QED BY <1>4, <2>1, <2>2, <2>3
<1>6. CASE EachStatementLine
  <2>1. reader.at = "opened" /\ UNCHANGED <<month, lapsing, clerk, entries>>
    BY <1>6 DEF EachStatementLine
  <2> DEFINE page == [opening |-> reader.opening,
                      closing |-> reader.opening + Sum(During(reader.month)),
                      used |-> Cardinality(DrawsOf(reader.month)),
                      records |-> {entries[i].of : i \in DrawsOf(reader.month)},
                      drawn |-> Cardinality(DrawsOf(reader.month))]
  <2>2. Finish(page)
    BY <1>6 DEF EachStatementLine, DrawsOf
  <2>3. reader.over => page = Page(reader.month)
    <3>0. reader \in Opened
      BY <2>1, <1>r DEF Idle, Closed
    <3>1. reader.over => reader.opening = Sum(Before(reader.month))
      BY <2>1 DEF Truly, Page
    <3>2. Sum(Before(reader.month + 1)) = Sum(Before(reader.month)) + Sum(During(reader.month))
      BY <3>0, Reconciles DEF Opened
    <3> QED BY <3>1, <3>2 DEF Page
  <2> HIDE DEF page
  <2> QED BY <1>4, <2>1, <2>2, <2>3
<1>7. \/ UNCHANGED <<reader, settled>> \/ Reading
  BY ReaderStep
<1> QED BY <1>1, <1>2, <1>3, <1>5, <1>6, <1>7 DEF Reading

LEMMA TrulyAgree == DocumentsTypeOK /\ DrawnOnce /\ Truly => StatementsAgree
<1> SUFFICES ASSUME DocumentsTypeOK, DrawnOnce, Truly, NEW m \in Months
             PROVE  /\ Cardinality(settled[m]) <= 1
                    /\ \A p \in settled[m] :
                          /\ p.used = p.drawn
                          /\ p.closing = Sum(Before(m + 1))
                          /\ m < MaxMonth => \A q \in settled[m + 1] :
                                q.opening = p.closing /\ p.records \cap q.records = {}
  BY DEF StatementsAgree
<1>1. Cardinality(settled[m]) <= 1
  <2>1. settled[m] \in SUBSET {Page(m)}
    BY DEF Truly
  <2>2. IsFiniteSet({Page(m)}) /\ Cardinality({Page(m)}) = 1
    BY FS_Singleton
  <2> QED BY <2>1, <2>2, FS_Subset
<1>2. ASSUME NEW p \in settled[m]
      PROVE  p.used = p.drawn /\ p.closing = Sum(Before(m + 1))
  BY DEF Truly, Page
<1>3. ASSUME NEW p \in settled[m], m < MaxMonth, NEW q \in settled[m + 1]
      PROVE  q.opening = p.closing /\ p.records \cap q.records = {}
  <2>1. m + 1 \in Months /\ m \in Int
    BY <1>3, DocumentsAssumption DEF Months
  <2>2. p = Page(m) /\ q = Page(m + 1)
    BY <2>1 DEF Truly
  <2>3. q.opening = p.closing
    BY <2>2 DEF Page
  <2>4. ASSUME NEW i \in DrawsOf(m), NEW j \in DrawsOf(m + 1), entries[i].of = entries[j].of
        PROVE  FALSE
    BY <2>1, <2>4 DEF DrawsOf, During, DrawnOnce
  <2>5. p.records \cap q.records = {}
    BY <2>2, <2>4 DEF Page
  <2> QED BY <2>3, <2>5
<1> QED BY <1>1, <1>2, <1>3

LEMMA DocumentsStart == DocumentsInit => DocumentsInv
<1> SUFFICES ASSUME DocumentsInit PROVE DocumentsInv
  OBVIOUS
<1>m. MaxMonth \in Nat /\ 1 \in Months
  BY DocumentsAssumption DEF Months
<1>1. DocumentsTypeOK
  <2>1. [stamp |-> 1, kind |-> "grant", of |-> 0] \in Entry
    BY <1>m DEF Entry, Kinds
  <2> QED BY <1>m, <2>1 DEF DocumentsInit, DocumentsTypeOK
<1>2. Numbered
  <2>1. DOMAIN docs = {} /\ \A s \in Series : counter[s] = 0
    BY DEF DocumentsInit
  <2> QED BY <2>1 DEF Numbered
<1>3. Printed
  BY DEF DocumentsInit, Printed
<1>4. Receipted
  <2>1. /\ DOMAIN docs = {}
        /\ \A i \in DOMAIN entries : entries[i].kind = "grant"
    BY DEF DocumentsInit
  <2> QED BY <2>1 DEF Receipted, ReceiptForPurchase
<1>5. DrawnOnce
  <2>1. /\ \A c \in Clerks : ~Draws(c)
        /\ \A i \in DOMAIN entries : entries[i].kind = "grant"
    BY DEF DocumentsInit, Draws, Idle
  <2> QED BY <2>1 DEF DrawnOnce
<1>6. Truly
  BY DEF DocumentsInit, Truly, Idle
<1> QED BY <1>1, <1>2, <1>3, <1>4, <1>5, <1>6 DEF DocumentsInv

\* Numbers, PDFs, receipts and statements (billing service.go, statement.go):
\* whatever is rolled back, and in whatever order clerks, jobs and readers
\* come, the numbers of a series have no gap, a customer holds documents of
\* theirs as they are stored, a payment is there with its receipt, and all
\* statements of a month that is over are the same page.
THEOREM DocumentsAreSound == DocumentsSpec => []DocumentsSound
<1>1. DocumentsInit => DocumentsInv
  BY DocumentsStart
<1>2. DocumentsInv /\ [DocumentsNext]_documentVars => DocumentsInv'
  BY DocumentsTyped, NumberedStays, PrintedStays, ReceiptedStays, DrawnOnceStays, TrulyStays
     DEF DocumentsInv
<1>3. DocumentsInv => DocumentsSound
  BY NumberedIsGapless, PrintedIsTrue, TrulyAgree DEF DocumentsInv, DocumentsSound, Receipted
<1> QED BY <1>1, <1>2, <1>3, PTL DEF DocumentsSpec

-----------------------------------------------------------------------------
(* A MODEL OF THE CATALOG.  What is offered is priced, a key the row names *)
(* is in the vault, and a report of a backend the row no longer has is     *)
(* owed by the call that changed it.                                       *)

Models      == [backend : Backends, on : BOOLEAN, priced : BOOLEAN, slipped : BOOLEAN,
                ref : 0 .. MaxEdits]
Evidence    == [of : Backends \union {"nothing"}, late : BOOLEAN]
Steps       == {"price", "save", "offer", "ref", "key", "set", "saved", "forget", "start"}
Registering == [at : Steps, wish : Asked, prev : Backends \union {"none"}, relied : BOOLEAN,
                ref : 0 .. MaxEdits, key : Refs]
Deleting    == [at : {"delete", "unkey"}, ref : 0 .. MaxEdits]
CallsMade   == {NoCall} \union Registering \union Deleting
Tests       == [at : {"test"}, of : Backends, late : BOOLEAN]
Puts        == [at : {"put"}, merged : Evidence, late : BOOLEAN]

CatalogTypeOK ==
  /\ row \in Models \union {NoModel}
  /\ vault \in [Refs -> Nat]
  /\ report \in Evidence \union {NoReport}
  /\ check \in {NoCheck, [at |-> "read"]} \union Tests \union Puts
  /\ call \in [Editors -> CallsMade]
  /\ built \in [backend : Backends \union {"none"}, key : Nat]
  /\ edits \in Nat

\* A registration that enables a model was given its price or has read it.
PricesRead ==
  \A e \in Editors : Is(e, "save") /\ call[e].wish.on =>
    call[e].wish.price = "full" \/ (call[e].wish.price = "keep" /\ call[e].relied)

\* A secret has its key before the row names it, and goes after the row.
KeysInOrder ==
  \A e \in Editors :
    /\ call[e].at \in {"key", "set"} => call[e].ref \in Refs
    /\ Is(e, "set") /\ call[e].ref \notin dropped => vault[call[e].ref] # 0
    /\ Is(e, "unkey") => call[e].ref \in Refs \intersect dropped

\* The call k is a registration that has changed the backend b and will drop
\* what is known of it, or leave it behind.
Owes(k, b) == k.at \in AfterSave /\ k.prev = b /\ k.wish.backend # b

ExcusedBy(calls, now, of, late) ==
  of \in {"nothing", now} \/ late \/ \E e \in Editors : Owes(calls[e], of)
Excused(of, late) == ExcusedBy(call, row.backend, of, late)

EvidenceOwed ==
  /\ report # NoReport => Exists /\ Excused(report.of, report.late)
  /\ check.at = "test" /\ Exists => check.of = row.backend \/ check.late
  /\ check.at = "put" /\ Exists => Excused(check.merged.of, check.merged.late \/ check.late)

CatalogInv ==
  /\ CatalogTypeOK /\ PricesRead /\ KeysInOrder /\ EvidenceOwed
  /\ EnabledIsPriced /\ KeyIsThere /\ ~misserved

\* What distinguishes the records.
LEMMA ModelsAre ==
  /\ NoModel.backend = "none" /\ NoModel \notin Models
  /\ NoReport.of = "none" /\ NoReport \notin Evidence
  /\ NoCall.at = "idle" /\ NoCheck.at = "off"
<1>1. NoModel.backend = "none" /\ NoReport.of = "none" /\ NoCall.at = "idle" /\ NoCheck.at = "off"
  BY DEF NoModel, NoReport, NoCall, NoCheck
<1>2. \A m \in Models : m.backend \in Backends
  BY DEF Models
<1>3. \A r \in Evidence : r.of \in Backends \union {"nothing"}
  BY DEF Evidence
<1> QED BY <1>1, <1>2, <1>3, CatalogAssumption DEF CatalogAssumption

LEMMA RowIs ==
  ASSUME CatalogTypeOK
  PROVE  /\ Exists => row \in Models /\ row.backend \in Backends
         /\ ~Exists => row.backend = "none"
BY ModelsAre DEF CatalogTypeOK, Exists, Models

LEMMA CallIs ==
  ASSUME CatalogTypeOK, NEW e \in Editors
  PROVE  /\ call[e] \in CallsMade
         /\ call[e].at \in Steps => call[e] \in Registering
         /\ call[e].at \in {"delete", "unkey"} => call[e] \in Deleting
         /\ call[e].at = "idle" => call[e] = NoCall
<1>1. call[e] \in CallsMade
  BY DEF CatalogTypeOK
<1>2. \A k \in Registering : k.at \in Steps
  BY DEF Registering
<1>3. \A k \in Deleting : k.at \in {"delete", "unkey"}
  BY DEF Deleting
<1> QED BY <1>1, <1>2, <1>3, ModelsAre DEF CallsMade, Steps

LEMMA CheckIs ==
  ASSUME CatalogTypeOK
  PROVE  /\ check.at = "test" => check \in Tests
         /\ check.at = "put" => check \in Puts
         /\ check.at \in {"off", "read", "test", "put"}
<1>1. \A k \in Tests : k.at = "test"
  BY DEF Tests
<1>2. \A k \in Puts : k.at = "put"
  BY DEF Puts
<1>3. [at |-> "read"].at = "read"
  OBVIOUS
<1> QED BY <1>1, <1>2, <1>3, ModelsAre DEF CatalogTypeOK

LEMMA WishIs ==
  ASSUME NEW w \in Asked
  PROVE  /\ w.backend \in Backends /\ w.backend # "none" /\ w.on \in BOOLEAN /\ w.key \in BOOLEAN
         /\ w.price \in {"keep", "none", "full"} /\ w.offer \in {"keep", "no", "yes"}
BY CatalogAssumption DEF CatalogAssumption

Alone(e) == \A x \in Editors : x # e => call'[x] = call[x]

LEMMA CallTo ==
  ASSUME CatalogTypeOK, NEW e \in Editors, NEW k \in CallsMade, call' = [call EXCEPT ![e] = k]
  PROVE  call' \in [Editors -> CallsMade] /\ call'[e] = k /\ Alone(e)
BY DEF CatalogTypeOK, Alone

LEMMA GoesOn ==
  ASSUME CatalogTypeOK, NEW e \in Editors, call[e].at \in Steps, NEW at \in Steps, Go(e, at)
  PROVE  /\ call' \in [Editors -> CallsMade] /\ Alone(e) /\ call'[e].at = at
         /\ call'[e].wish = call[e].wish /\ call'[e].prev = call[e].prev
         /\ call'[e].ref = call[e].ref /\ call'[e].relied = call[e].relied
<1> DEFINE k == [call[e] EXCEPT !.at = at]
<1>1. call[e] \in Registering
  BY CallIs
<1>2. k \in Registering /\ k.at = at /\ k.wish = call[e].wish /\ k.prev = call[e].prev
      /\ k.ref = call[e].ref /\ k.relied = call[e].relied
  BY <1>1 DEF Registering
<1>3. call' = [call EXCEPT ![e] = k]
  BY DEF Go
<1> HIDE DEF k
<1> QED BY <1>2, <1>3, CallTo DEF CallsMade

LEMMA AnswersIt ==
  ASSUME CatalogTypeOK, NEW e \in Editors, Answer(e)
  PROVE  /\ call' \in [Editors -> CallsMade] /\ Alone(e) /\ call'[e].at = "idle"
BY CallTo, ModelsAre DEF Answer, CallsMade

\* A registration that has read what it needs.
LEMMA PriceReadTo ==
  ASSUME CatalogTypeOK, NEW e \in Editors, Is(e, "price"),
         call' = [call EXCEPT ![e].at = "save", ![e].relied = TRUE]
  PROVE  /\ call' \in [Editors -> CallsMade] /\ Alone(e) /\ call'[e].at = "save"
         /\ call'[e].wish = call[e].wish /\ call'[e].prev = call[e].prev /\ call'[e].relied
<1> DEFINE k == [call[e] EXCEPT !.at = "save", !.relied = TRUE]
<1>1. call[e] \in Registering
  BY CallIs DEF Is, Steps
<1>2. k \in Registering /\ k.at = "save" /\ k.wish = call[e].wish /\ k.prev = call[e].prev /\ k.relied
  BY <1>1 DEF Registering, Steps
<1>3. call' = [call EXCEPT ![e] = k]
  OBVIOUS
<1> HIDE DEF k
<1> QED BY <1>2, <1>3, CallTo DEF CallsMade

LEMMA RefReadTo ==
  ASSUME CatalogTypeOK, NEW e \in Editors, Is(e, "ref"), Exists,
         call' = [call EXCEPT ![e].at = "key",
                              ![e].ref = IF row.ref # 0 THEN row.ref ELSE call[e].key]
  PROVE  /\ call' \in [Editors -> CallsMade] /\ Alone(e) /\ call'[e].at = "key"
         /\ call'[e].wish = call[e].wish /\ call'[e].prev = call[e].prev /\ call'[e].ref \in Refs
<1> DEFINE r == IF row.ref # 0 THEN row.ref ELSE call[e].key
           k == [call[e] EXCEPT !.at = "key", !.ref = r]
<1>1. call[e] \in Registering
  BY CallIs DEF Is, Steps
<1>2. r \in Refs /\ r \in 0 .. MaxEdits
  <2>1. call[e].key \in Refs
    BY <1>1 DEF Registering
  <2>2. row.ref \in 0 .. MaxEdits
    BY RowIs DEF Models
  <2>3. MaxEdits \in Nat
    BY CatalogAssumption DEF CatalogAssumption
  <2> QED BY <2>1, <2>2, <2>3 DEF Refs
<1>3. call' = [call EXCEPT ![e] = k]
  OBVIOUS
<1> HIDE DEF r
<1>4. k \in Registering /\ k.at = "key" /\ k.wish = call[e].wish /\ k.prev = call[e].prev
      /\ k.ref = r
  BY <1>1, <1>2 DEF Registering, Steps
<1> HIDE DEF k
<1> QED BY <1>2, <1>3, <1>4, CallTo DEF CallsMade

LEMMA RegisterTo ==
  ASSUME CatalogTypeOK, NEW e \in Editors, Register(e)
  PROVE  call' \in [Editors -> CallsMade] /\ Alone(e) /\ call'[e].at = "price"
<1>1. PICK w \in Asked, seen \in BOOLEAN :
        call' = [call EXCEPT ![e] =
                   [at |-> "price", wish |-> w, prev |-> IF seen THEN row.backend ELSE "none",
                    relied |-> FALSE, ref |-> 0, key |-> edits']]
  BY DEF Register
<1> DEFINE p == IF seen THEN row.backend ELSE "none"
           k == [at |-> "price", wish |-> w, prev |-> p, relied |-> FALSE, ref |-> 0, key |-> edits']
<1>2. p \in Backends \union {"none"}
  BY RowIs
<1>3. edits' \in Refs /\ 0 \in 0 .. MaxEdits
  BY CatalogAssumption DEF CatalogTypeOK, Register, Edit, CatalogAssumption, Refs
<1> HIDE DEF p
<1>4. k \in Registering /\ k.at = "price"
  BY <1>2, <1>3 DEF Registering, Steps
<1>5. call' = [call EXCEPT ![e] = k]
  BY <1>1 DEF p
<1> HIDE DEF k
<1> QED BY <1>4, <1>5, CallTo DEF CallsMade

\* Where a call is after its step, and what it then has in hand.
Moved(e) ==
  /\ call' \in [Editors -> CallsMade] /\ Alone(e)
  /\ call'[e].at = "save" /\ call'[e].wish.on =>
       call'[e].wish.price = "full" \/ (call'[e].wish.price = "keep" /\ call'[e].relied)
  /\ call'[e].at \in {"key", "set"} => call'[e].ref \in Refs
  /\ call'[e].at = "set" => PutKey(e) /\ call'[e].ref = call[e].ref
  /\ call'[e].at = "unkey" => DeleteRow(e) /\ call'[e].ref = call[e].ref /\ call[e].ref # 0

LEMMA DeletingTo ==
  ASSUME CatalogTypeOK, NEW e \in Editors, DeleteModel(e) \/ DeleteRow(e) \/ DeleteKey(e)
  PROVE  /\ call' \in [Editors -> CallsMade] /\ Alone(e)
         /\ call'[e].at \in {"delete", "unkey", "idle"}
         /\ call'[e].at = "unkey" => /\ DeleteRow(e) /\ call'[e].ref = call[e].ref
                                     /\ call[e].ref # 0 /\ call[e].ref \in Refs
<1>1. CASE DeleteModel(e)
  <2> DEFINE k == [at |-> "delete", ref |-> row.ref]
  <2>1. call' = [call EXCEPT ![e] = k]
    BY <1>1 DEF DeleteModel
  <2>2. k \in Deleting /\ k.at = "delete"
    BY <1>1, RowIs DEF Deleting, Models, DeleteModel
  <2> HIDE DEF k
  <2> QED BY <2>1, <2>2, CallTo DEF CallsMade
<1>2. CASE Answer(e)
  BY <1>2, AnswersIt
<1>3. CASE DeleteRow(e) /\ call[e].ref # 0 /\ Go(e, "unkey")
  <2> DEFINE k == [call[e] EXCEPT !.at = "unkey"]
  <2>1. call[e] \in Deleting
    BY <1>3, CallIs DEF DeleteRow, Is
  <2>2. k \in Deleting /\ k.at = "unkey" /\ k.ref = call[e].ref
    BY <2>1 DEF Deleting
  <2>3. call[e].ref \in Refs
    BY <1>3, <2>1, CatalogAssumption DEF Deleting, Refs, CatalogAssumption
  <2>4. call' = [call EXCEPT ![e] = k]
    BY <1>3 DEF Go
  <2> HIDE DEF k
  <2> QED BY <1>3, <2>2, <2>3, <2>4, CallTo DEF CallsMade
<1> QED BY <1>1, <1>2, <1>3 DEF DeleteRow, DeleteKey

LEMMA RegisteringMoves ==
  ASSUME CatalogTypeOK, KeysInOrder, NEW e \in Editors, RegisterStep(e)
  PROVE  Moved(e)
<1>a. ASSUME Answer(e) PROVE Moved(e)
  BY <1>a, AnswersIt DEF Moved
<1>g. ASSUME call[e].at \in Steps,
             NEW at \in {"offer", "ref", "saved", "forget", "start"}, Go(e, at)
      PROVE  Moved(e)
  <2>1. at \in Steps
    BY DEF Steps
  <2> QED BY <1>g, <2>1, GoesOn DEF Moved
<1>1. CASE Register(e)
  BY <1>1, RegisterTo DEF Moved
<1>2. CASE ReadPrice(e)
  <2>1. Is(e, "price") /\ call[e].at \in Steps /\ call[e] \in Registering
    BY <1>2, CallIs DEF ReadPrice, Is, Steps
  <2>2. CASE Go(e, "save") /\ (~call[e].wish.on \/ call[e].wish.price = "full")
    <3>1. "save" \in Steps
      BY DEF Steps
    <3> QED BY <2>1, <2>2, <3>1, GoesOn DEF Moved
  <2>3. CASE /\ call' = [call EXCEPT ![e].at = "save", ![e].relied = TRUE]
             /\ call[e].wish.price = "keep"
    BY <2>1, <2>3, PriceReadTo DEF Moved
  <2> QED BY <1>2, <1>a, <2>2, <2>3 DEF ReadPrice
<1>3. CASE SaveModel(e)
  <2>1. call[e].at \in Steps
    BY <1>3 DEF SaveModel, Is, Steps
  <2> QED BY <1>3, <1>g, <2>1 DEF SaveModel, AfterOffer
<1>4. CASE SaveOffer(e)
  <2>1. call[e].at \in Steps
    BY <1>4 DEF SaveOffer, Is, Steps
  <2>2. \/ \E at \in {"offer", "ref", "saved", "forget", "start"} : Go(e, at)
        \/ Answer(e)
    BY <1>4 DEF SaveOffer, AfterOffer
  <2> QED BY <1>a, <1>g, <2>1, <2>2
<1>5. CASE ReadRef(e)
  <2>1. Is(e, "ref") /\ call[e].at \in Steps
    BY <1>5 DEF ReadRef, Is, Steps
  <2>2. CASE /\ Exists
             /\ call' = [call EXCEPT ![e].at = "key",
                              ![e].ref = IF row.ref # 0 THEN row.ref ELSE call[e].key]
    BY <2>1, <2>2, RefReadTo DEF Moved
  <2> QED BY <1>5, <1>g, <2>1, <2>2 DEF ReadRef
<1>6. CASE PutKey(e)
  <2>1. call[e].at \in Steps /\ call[e].ref \in Refs /\ "set" \in Steps
    BY <1>6 DEF PutKey, Is, Steps, KeysInOrder
  <2>2. Go(e, "set")
    BY <1>6 DEF PutKey
  <2> QED BY <1>6, <2>1, <2>2, GoesOn DEF Moved
<1>7. CASE SetAPIKeyRef(e) \/ ReadBack(e) \/ Invalidate(e) \/ StartCheck(e) \/ StatementFails(e)
  <2>1. Answer(e) \/ call[e].at \in Steps
    BY <1>7 DEF SetAPIKeyRef, ReadBack, Invalidate, StartCheck, StatementFails, Is, Steps
  <2>2. \/ \E at \in {"offer", "ref", "saved", "forget", "start"} : Go(e, at)
        \/ Answer(e)
    BY <1>7 DEF SetAPIKeyRef, ReadBack, Invalidate, StartCheck, StatementFails
  <2> QED BY <1>a, <1>g, <2>1, <2>2
<1> QED BY <1>1, <1>2, <1>3, <1>4, <1>5, <1>6, <1>7 DEF RegisterStep

LEMMA OthersMove ==
  ASSUME CatalogTypeOK, NEW e \in Editors, DeleteModel(e) \/ DeleteRow(e) \/ DeleteKey(e)
  PROVE  Moved(e)
BY DeletingTo DEF Moved

\* A call that is one statement, and whatever is no call.
Aside == call' = call \/ call' = [e \in Editors |-> NoCall]

LEMMA NextIs ==
  ASSUME CatalogTypeOK, KeysInOrder, CatalogNext
  PROVE  Aside \/ \E e \in Editors : Moved(e)
<1>1. ASSUME NEW e \in Editors, RegisterStep(e) PROVE Moved(e)
  BY <1>1, RegisteringMoves
<1>2. ASSUME NEW e \in Editors, OtherCall(e) PROVE Aside \/ Moved(e)
  <2>1. CASE DeleteModel(e) \/ DeleteRow(e) \/ DeleteKey(e)
    BY <2>1, OthersMove
  <2>2. CASE CheckModel(e) \/ \E b \in BOOLEAN : SetPricing(e, b) \/ SetEnabled(e, b)
    BY <2>2 DEF CheckModel, SetPricing, SetEnabled, Aside
  <2> QED BY <1>2, <2>1, <2>2 DEF OtherCall
<1>3. CASE Request \/ CheckStep
  BY <1>3 DEF Request, CheckStep, CheckReads, CheckMerges, CheckSaves, CheckGivesUp, CheckMissing,
              Aside
<1>4. CASE Restart
  BY <1>4 DEF Restart, Aside
<1> QED BY <1>1, <1>2, <1>3, <1>4 DEF CatalogNext

LEMMA PricesReadStays ==
  ASSUME CatalogTypeOK, KeysInOrder, PricesRead, CatalogNext
  PROVE  PricesRead'
<1>1. CASE call' = call
  BY <1>1 DEF PricesRead, Is
<1>2. CASE call' = [e \in Editors |-> NoCall]
  BY <1>2, ModelsAre DEF PricesRead, Is
<1>3. ASSUME NEW e \in Editors, Moved(e) PROVE PricesRead'
  BY <1>3 DEF PricesRead, Is, Moved, Alone
<1> QED BY <1>1, <1>2, <1>3, NextIs DEF Aside

\* The calls that write the row, and those that write secrets.
RowWrites(e) == \/ SaveModel(e) \/ SetAPIKeyRef(e) \/ DeleteRow(e)
                \/ \E b \in BOOLEAN : SetPricing(e, b) \/ SetEnabled(e, b)

LEMMA NextRow == ASSUME CatalogNext PROVE row' = row \/ \E e \in Editors : RowWrites(e)
<1>1. ASSUME NEW e \in Editors, RegisterStep(e) PROVE row' = row \/ RowWrites(e)
  BY <1>1 DEF RegisterStep, Register, ReadPrice, SaveOffer, ReadRef, PutKey, ReadBack, Invalidate,
              StartCheck, StatementFails, RowWrites
<1>2. ASSUME NEW e \in Editors, OtherCall(e) PROVE row' = row \/ RowWrites(e)
  BY <1>2 DEF OtherCall, CheckModel, DeleteModel, DeleteKey, RowWrites
<1>3. CASE Request \/ CheckStep \/ Restart
  BY <1>3 DEF Request, CheckStep, CheckReads, CheckMerges, CheckSaves, CheckGivesUp, CheckMissing,
              Restart
<1> QED BY <1>1, <1>2, <1>3 DEF CatalogNext

LEMMA NextKeys ==
  ASSUME CatalogNext
  PROVE  UNCHANGED <<vault, dropped>> \/ \E e \in Editors : PutKey(e) \/ DeleteRow(e) \/ DeleteKey(e)
<1>1. ASSUME NEW e \in Editors, RegisterStep(e) PROVE UNCHANGED <<vault, dropped>> \/ PutKey(e)
  BY <1>1 DEF RegisterStep, Register, ReadPrice, SaveModel, SaveOffer, ReadRef, SetAPIKeyRef, ReadBack,
              Invalidate, StartCheck, StatementFails, keys
<1>2. ASSUME NEW e \in Editors, OtherCall(e)
      PROVE  UNCHANGED <<vault, dropped>> \/ DeleteRow(e) \/ DeleteKey(e)
  BY <1>2 DEF OtherCall, CheckModel, DeleteModel, SetPricing, SetEnabled, keys
<1>3. CASE Request \/ CheckStep \/ Restart
  BY <1>3 DEF Request, CheckStep, CheckReads, CheckMerges, CheckSaves, CheckGivesUp, CheckMissing,
              Restart, keys
<1> QED BY <1>1, <1>2, <1>3 DEF CatalogNext

LEMMA SavedIs ==
  ASSUME CatalogTypeOK, NEW e \in Editors, SaveModel(e)
  PROVE  LET w == call[e].wish
         IN  /\ row' \in Models /\ row'.backend = w.backend /\ row'.on = w.on
             /\ row'.priced = (w.price = "full" \/ (w.price = "keep" /\ PriceStored))
             /\ row'.slipped = (call[e].relied /\ ~PriceStored)
             /\ row'.ref = IF Exists THEN row.ref ELSE 0
             /\ w \in Asked
<1> DEFINE w == call[e].wish
           r == IF Exists THEN row.ref ELSE 0
           p == w.price = "full" \/ (w.price = "keep" /\ PriceStored)
           s == call[e].relied /\ ~PriceStored
           new == [backend |-> w.backend, on |-> w.on, priced |-> p, ref |-> r, slipped |-> s]
<1>1. call[e] \in Registering
  BY CallIs DEF SaveModel, Is, Steps
<1>2. w \in Asked /\ w.backend \in Backends /\ w.on \in BOOLEAN
  BY <1>1, WishIs DEF Registering
<1>3. r \in 0 .. MaxEdits
  BY RowIs, CatalogAssumption DEF Models, CatalogAssumption
<1>4. row' = new
  BY DEF SaveModel, Saved
<1>5. p \in BOOLEAN /\ s \in BOOLEAN
  OBVIOUS
<1> HIDE DEF w, r, p, s
<1>6. new \in Models /\ new.backend = w.backend /\ new.on = w.on /\ new.priced = p
      /\ new.slipped = s /\ new.ref = r
  BY <1>2, <1>3, <1>5 DEF Models
<1> HIDE DEF new
<1> QED BY <1>2, <1>4, <1>6 DEF w, r, p, s

\* A statement about the model that is there leaves the rest of its row.
LEMMA RowEdited ==
  ASSUME CatalogTypeOK, Exists, NEW b \in BOOLEAN
  PROVE  /\ [row EXCEPT !.priced = b] \in Models
         /\ [row EXCEPT !.priced = b].priced = b
         /\ [row EXCEPT !.priced = b].on = row.on
         /\ [row EXCEPT !.priced = b].ref = row.ref
         /\ [row EXCEPT !.priced = b].backend = row.backend
         /\ [row EXCEPT !.on = b] \in Models
         /\ [row EXCEPT !.on = b].on = b
         /\ [row EXCEPT !.on = b].priced = row.priced
         /\ [row EXCEPT !.on = b].ref = row.ref
         /\ [row EXCEPT !.on = b].backend = row.backend
BY RowIs DEF Models

LEMMA RefEdited ==
  ASSUME CatalogTypeOK, Exists, NEW r \in Refs
  PROVE  /\ [row EXCEPT !.ref = r] \in Models
         /\ [row EXCEPT !.ref = r].ref = r
         /\ [row EXCEPT !.ref = r].on = row.on
         /\ [row EXCEPT !.ref = r].priced = row.priced
         /\ [row EXCEPT !.ref = r].slipped = row.slipped
         /\ [row EXCEPT !.ref = r].backend = row.backend
BY RowIs, CatalogAssumption DEF Models, Refs, CatalogAssumption

LEMMA EnabledStays ==
  ASSUME CatalogTypeOK, KeysInOrder, PricesRead, EnabledIsPriced, CatalogNext
  PROVE  EnabledIsPriced'
<1>1. CASE row' = row
  BY <1>1 DEF EnabledIsPriced, Exists
<1>2. ASSUME NEW e \in Editors, SaveModel(e) PROVE EnabledIsPriced'
  <2>1. /\ Is(e, "save") /\ row'.on = call[e].wish.on
        /\ row'.priced = (call[e].wish.price = "full" \/ (call[e].wish.price = "keep" /\ PriceStored))
        /\ row'.slipped = (call[e].relied /\ ~PriceStored)
    BY <1>2, SavedIs DEF SaveModel
  <2>2. row'.on => row'.priced \/ row'.slipped
    BY <2>1 DEF PricesRead
  <2> QED BY <2>2 DEF EnabledIsPriced
<1>3. ASSUME NEW e \in Editors, SetAPIKeyRef(e) PROVE EnabledIsPriced'
  <2>1. CASE ~Exists
    BY <1>1, <1>3, <2>1 DEF SetAPIKeyRef
  <2>2. CASE Exists
    <3>1. call[e].ref \in Refs /\ row' = [row EXCEPT !.ref = call[e].ref]
      BY <1>3, <2>2 DEF SetAPIKeyRef, KeysInOrder, Is
    <3> QED BY <2>2, <3>1, RefEdited DEF EnabledIsPriced
  <2> QED BY <2>1, <2>2
<1>4. ASSUME NEW e \in Editors, NEW b \in BOOLEAN, SetPricing(e, b) PROVE EnabledIsPriced'
  BY <1>4, RowEdited DEF SetPricing, EnabledIsPriced
<1>5. ASSUME NEW e \in Editors, NEW b \in BOOLEAN, SetEnabled(e, b) PROVE EnabledIsPriced'
  BY <1>5, RowEdited DEF SetEnabled, EnabledIsPriced
<1>6. ASSUME NEW e \in Editors, DeleteRow(e) PROVE EnabledIsPriced'
  BY <1>6 DEF DeleteRow, EnabledIsPriced, Exists
<1> QED BY <1>1, <1>2, <1>3, <1>4, <1>5, <1>6, NextRow DEF RowWrites

\* Only secrets that go with their model are emptied.
LEMMA KeysStay ==
  ASSUME CatalogTypeOK, KeysInOrder, CatalogNext
  PROVE  /\ dropped \subseteq dropped'
         /\ \A r \in Refs : r \notin dropped' /\ vault[r] # 0 => vault'[r] # 0
         /\ vault' \in [Refs -> Nat]
<1>t. vault \in [Refs -> Nat]
  BY DEF CatalogTypeOK
<1>1. CASE UNCHANGED <<vault, dropped>>
  BY <1>1, <1>t
<1>2. ASSUME NEW e \in Editors, PutKey(e)
      PROVE  /\ dropped' = dropped /\ vault' \in [Refs -> Nat]
             /\ \A r \in Refs : vault[r] # 0 => vault'[r] # 0
  <2>1. call[e] \in Registering
    BY <1>2, CallIs DEF PutKey, Is, Steps
  <2>2. call[e].key \in Nat /\ call[e].key # 0
    BY <2>1 DEF Registering, Refs
  <2>3. vault' = [vault EXCEPT ![call[e].ref] = call[e].key] /\ dropped' = dropped
    BY <1>2 DEF PutKey
  <2> QED BY <1>t, <2>2, <2>3
<1>3. ASSUME NEW e \in Editors, DeleteRow(e) PROVE vault' = vault /\ dropped \subseteq dropped'
  BY <1>3 DEF DeleteRow
<1>4. ASSUME NEW e \in Editors, DeleteKey(e)
      PROVE  /\ dropped' = dropped /\ vault' \in [Refs -> Nat]
             /\ \A r \in Refs : r \notin dropped => vault'[r] = vault[r]
  <2>1. call[e].ref \in dropped /\ dropped' = dropped
        /\ vault' = [vault EXCEPT ![call[e].ref] = 0]
    BY <1>4 DEF DeleteKey, KeysInOrder
  <2> QED BY <1>t, <2>1
<1> QED BY <1>1, <1>2, <1>3, <1>4, <1>t, NextKeys

LEMMA KeysInOrderStays ==
  ASSUME CatalogTypeOK, KeysInOrder, CatalogNext
  PROVE  KeysInOrder'
<1>0. /\ dropped \subseteq dropped'
      /\ \A r \in Refs : r \notin dropped' /\ vault[r] # 0 => vault'[r] # 0
  BY KeysStay
<1> DEFINE InOrder(k, d, v) == /\ k.at \in {"key", "set"} => k.ref \in Refs
                               /\ k.at = "set" /\ k.ref \notin d => v[k.ref] # 0
                               /\ k.at = "unkey" => k.ref \in Refs \intersect d
<1>1. ASSUME NEW x \in Editors, call'[x] = call[x] PROVE InOrder(call'[x], dropped', vault')
  BY <1>0, <1>1 DEF KeysInOrder, Is
<1>2. ASSUME NEW x \in Editors, call'[x] = NoCall PROVE InOrder(call'[x], dropped', vault')
  BY <1>2, ModelsAre
<1>3. ASSUME NEW e \in Editors, Moved(e) PROVE InOrder(call'[e], dropped', vault')
  <2>1. call'[e].at \in {"key", "set"} => call'[e].ref \in Refs
    BY <1>3 DEF Moved
  <2>2. call'[e].at = "set" => vault'[call'[e].ref] # 0
    <3> SUFFICES ASSUME call'[e].at = "set" PROVE vault'[call'[e].ref] # 0
      OBVIOUS
    <3>1. PutKey(e) /\ call'[e].ref = call[e].ref /\ call[e].ref \in Refs
      BY <1>3, <2>1 DEF Moved
    <3>2. call[e].key # 0
      <4>1. call[e] \in Registering
        BY <3>1, CallIs DEF PutKey, Is, Steps
      <4> QED BY <4>1 DEF Registering, Refs
    <3> QED BY <3>1, <3>2 DEF PutKey, CatalogTypeOK
  <2>3. call'[e].at = "unkey" => call'[e].ref \in Refs \intersect dropped'
    <3> SUFFICES ASSUME call'[e].at = "unkey" PROVE call'[e].ref \in Refs \intersect dropped'
      OBVIOUS
    <3>1. DeleteRow(e) /\ call'[e].ref = call[e].ref /\ call[e].ref # 0
      BY <1>3 DEF Moved
    <3>2. call[e].ref \in Refs
      BY <3>1, DeletingTo
    <3>3. call[e].ref \in dropped'
      <4>1. CASE Answer(e)
        BY <4>1, AnswersIt
      <4>2. CASE dropped' = dropped \union {call[e].ref}
        BY <4>2
      <4> QED BY <3>1, <4>1, <4>2 DEF DeleteRow
    <3> QED BY <3>1, <3>2, <3>3
  <2> QED BY <2>1, <2>2, <2>3
<1> HIDE DEF InOrder
<1>4. \A x \in Editors : InOrder(call'[x], dropped', vault')
  BY <1>1, <1>2, <1>3, NextIs DEF Aside, Moved, Alone
<1> QED BY <1>4 DEF KeysInOrder, InOrder, Is

LEMMA KeyStays ==
  ASSUME CatalogTypeOK, KeysInOrder, KeyIsThere, CatalogNext
  PROVE  KeyIsThere'
<1>0. /\ dropped \subseteq dropped'
      /\ \A r \in Refs : r \notin dropped' /\ vault[r] # 0 => vault'[r] # 0
  BY KeysStay
<1>r. Exists => row.ref \in {0} \union Refs
  BY RowIs, CatalogAssumption DEF Models, Refs, CatalogAssumption
<1>1. CASE row'.ref = row.ref /\ Exists
  BY <1>0, <1>1, <1>r DEF KeyIsThere
<1>2. CASE row' = row
  BY <1>0, <1>2, <1>r DEF KeyIsThere, Exists
<1>3. ASSUME NEW e \in Editors, SaveModel(e) PROVE KeyIsThere'
  <2>1. row'.ref = IF Exists THEN row.ref ELSE 0
    BY <1>3, SavedIs
  <2> QED BY <1>1, <2>1 DEF KeyIsThere
<1>4. ASSUME NEW e \in Editors, SetAPIKeyRef(e) PROVE KeyIsThere'
  <2>1. CASE ~Exists
    BY <1>2, <1>4, <2>1 DEF SetAPIKeyRef
  <2>2. CASE Exists
    <3>1. /\ call[e].ref \in Refs /\ row' = [row EXCEPT !.ref = call[e].ref]
          /\ call[e].ref \notin dropped => vault[call[e].ref] # 0
      BY <1>4, <2>2 DEF SetAPIKeyRef, KeysInOrder, Is
    <3>2. row'.ref = call[e].ref
      BY <2>2, <3>1, RefEdited
    <3> QED BY <1>0, <3>1, <3>2 DEF KeyIsThere
  <2> QED BY <2>1, <2>2
<1>5. ASSUME NEW e \in Editors, NEW b \in BOOLEAN, SetPricing(e, b) \/ SetEnabled(e, b)
      PROVE  KeyIsThere'
  <2>1. Exists /\ row'.ref = row.ref
    BY <1>5, RowEdited DEF SetPricing, SetEnabled
  <2> QED BY <1>1, <2>1
<1>6. ASSUME NEW e \in Editors, DeleteRow(e) PROVE KeyIsThere'
  BY <1>6 DEF DeleteRow, KeyIsThere, Exists
<1> QED BY <1>2, <1>3, <1>4, <1>5, <1>6, NextRow DEF RowWrites

\* A provider whose hash is the same is the same.
LEMMA ServedAsAsked ==
  ASSUME CatalogTypeOK, ~misserved, Exists, GetProvider
  PROVE  ~misserved' /\ built' \in [backend : Backends \union {"none"}, key : Nat]
<1> DEFINE asked == [backend |-> row.backend, key |-> KeyRead]
           got == IF Hash(built) = Hash(asked) THEN built ELSE asked
<1>1. built \in [backend : Backends \union {"none"}, key : Nat]
  BY DEF CatalogTypeOK
<1>2. KeyRead \in Nat
  <2>1. row.ref \in {0} \union Refs
    BY RowIs, CatalogAssumption DEF Models, Refs, CatalogAssumption
  <2> QED BY <2>1 DEF KeyRead, CatalogTypeOK
<1>3. row.backend \in Backends
  BY RowIs
<1> HIDE DEF KeyRead
<1>4. asked \in [backend : Backends \union {"none"}, key : Nat]
  BY <1>2, <1>3
<1>5. Hash(built) = Hash(asked) => built = asked
  BY <1>1, <1>4 DEF Hash
<1>6. got = asked
  BY <1>5
<1>7. built' = got /\ misserved' = (misserved \/ got # asked)
  BY DEF GetProvider
<1> QED BY <1>4, <1>6, <1>7

LEMMA ProviderStays ==
  ASSUME CatalogTypeOK, ~misserved, CatalogNext
  PROVE  ~misserved' /\ built' \in [backend : Backends \union {"none"}, key : Nat]
<1>0. built \in [backend : Backends \union {"none"}, key : Nat]
  BY DEF CatalogTypeOK
<1>1. ASSUME NEW e \in Editors, RegisterStep(e) \/ OtherCall(e) PROVE UNCHANGED gateway
  <2>1. CASE RegisterStep(e)
    BY <2>1 DEF RegisterStep, Register, ReadPrice, SaveModel, SaveOffer, ReadRef, PutKey,
                SetAPIKeyRef, ReadBack, Invalidate, StartCheck, StatementFails
  <2>2. CASE OtherCall(e)
    BY <2>2 DEF OtherCall, SetPricing, SetEnabled, CheckModel, DeleteModel, DeleteRow, DeleteKey
  <2> QED BY <1>1, <2>1, <2>2
<1>2. CASE UNCHANGED gateway
  BY <1>0, <1>2 DEF gateway
<1>3. CASE Exists /\ GetProvider
  BY <1>3, ServedAsAsked
<1>4. CASE Request \/ CheckStep
  BY <1>2, <1>3, <1>4 DEF Request, CheckStep, CheckReads, CheckMerges, CheckSaves, CheckGivesUp,
                          CheckMissing
<1>5. CASE Restart
  <2>1. NoBuilt \in [backend : Backends \union {"none"}, key : Nat]
    BY DEF NoBuilt
  <2> QED BY <1>5, <2>1 DEF Restart
<1> QED BY <1>1, <1>2, <1>4, <1>5 DEF CatalogNext

-----------------------------------------------------------------------------
(* Evidence.                                                                *)

LEMMA BegunIs ==
  ASSUME CatalogTypeOK
  PROVE  /\ Begun \in {check, [at |-> "read"]}
         /\ Begun.at \in {"test", "put"} => Begun = check
         /\ Begun \in {NoCheck, [at |-> "read"]} \union Tests \union Puts
BY DEF Begun, CatalogTypeOK

\* A step that neither changes the backend nor lets one off that owes.
LEMMA OwedStill ==
  ASSUME CatalogTypeOK, EvidenceOwed, report' = report, row'.backend = row.backend,
         Exists' = Exists, check'.at \in {"test", "put"} => check' = check,
         \A x \in Editors, b \in Backends :
            b # row.backend /\ Owes(call[x], b) => Owes(call'[x], b)
  PROVE  EvidenceOwed'
<1>1. \A of \in Backends \union {"nothing"}, late \in BOOLEAN :
        Excused(of, late) => ExcusedBy(call', row'.backend, of, late)
  <2> SUFFICES ASSUME NEW of \in Backends \union {"nothing"}, NEW late \in BOOLEAN,
                      Excused(of, late)
               PROVE  ExcusedBy(call', row'.backend, of, late)
    OBVIOUS
  <2> QED BY DEF Excused, ExcusedBy
<1>2. report # NoReport => report.of \in Backends \union {"nothing"} /\ report.late \in BOOLEAN
  BY DEF CatalogTypeOK, Evidence
<1>3. check.at = "put" => /\ check.merged.of \in Backends \union {"nothing"}
                          /\ (check.merged.late \/ check.late) \in BOOLEAN
  BY CheckIs DEF Puts, Evidence
<1>4. report # NoReport =>
        Exists /\ ExcusedBy(call', row'.backend, report.of, report.late)
  BY <1>1, <1>2 DEF EvidenceOwed
<1>5. check.at = "put" /\ Exists =>
        ExcusedBy(call', row'.backend, check.merged.of, check.merged.late \/ check.late)
  <2> SUFFICES ASSUME check.at = "put", Exists
               PROVE  ExcusedBy(call', row'.backend, check.merged.of, check.merged.late \/ check.late)
    OBVIOUS
  <2> DEFINE late == check.merged.late \/ check.late
  <2>1. late \in BOOLEAN /\ check.merged.of \in Backends \union {"nothing"}
    BY <1>3
  <2>2. Excused(check.merged.of, late)
    BY DEF EvidenceOwed
  <2> HIDE DEF late
  <2>3. ExcusedBy(call', row'.backend, check.merged.of, late)
    BY <1>1, <2>1, <2>2
  <2> QED BY <2>3 DEF late
<1>6. report' # NoReport => Exists' /\ Excused(report.of, report.late)'
  BY <1>4 DEF Excused
<1>7. check'.at = "put" /\ Exists' =>
        Excused(check.merged.of, check.merged.late \/ check.late)'
  BY <1>5 DEF Excused
<1>8. check'.at = "test" /\ Exists' => check'.of = row'.backend \/ check'.late
  BY DEF EvidenceOwed
<1> QED BY <1>6, <1>7, <1>8 DEF EvidenceOwed

\* What is dropped or left behind is owed by nobody.
LEMMA OwedByNone ==
  ASSUME CatalogTypeOK, EvidenceOwed, report' \in {NoReport, Outlived(report)}, row' = row,
         check'.at = "put" => check'.late, check'.at = "test" => check' = check
  PROVE  EvidenceOwed'
<1>1. report' # NoReport => report # NoReport /\ report'.late
  BY DEF Outlived, CatalogTypeOK, Evidence
<1>2. report' # NoReport => Exists' /\ report'.late
  BY <1>1 DEF EvidenceOwed, Exists
<1>3. check'.at = "test" /\ Exists' => check'.of = row'.backend \/ check'.late
  BY DEF EvidenceOwed, Exists
<1> QED BY <1>2, <1>3 DEF EvidenceOwed, Excused, ExcusedBy

LEMMA PutIsLate ==
  ASSUME CatalogTypeOK,
         check' = IF check.at = "put" THEN [check EXCEPT !.late = TRUE] ELSE check
  PROVE  /\ check'.at = "put" => check'.late
         /\ check'.at = "test" => check' = check
         /\ check' \in {NoCheck, [at |-> "read"]} \union Tests \union Puts
<1>1. CASE check.at = "put"
  <2>1. check \in Puts
    BY <1>1, CheckIs
  <2>2. [check EXCEPT !.late = TRUE] \in Puts /\ [check EXCEPT !.late = TRUE].late
        /\ [check EXCEPT !.late = TRUE].at = "put"
    BY <2>1 DEF Puts
  <2> QED BY <1>1, <2>2
<1>2. CASE check.at # "put"
  BY <1>2 DEF CatalogTypeOK
<1> QED BY <1>1, <1>2

LEMMA LeftBehindByNone ==
  ASSUME CatalogTypeOK, EvidenceOwed, LeftBehind, row' = row
  PROVE  EvidenceOwed'
BY OwedByNone, PutIsLate DEF LeftBehind

LEMMA OwedGone ==
  ASSUME ~Exists', report' = NoReport
  PROVE  EvidenceOwed'
BY DEF EvidenceOwed

\* A step of one call that is not on its way to drop evidence, or goes on.
LEMMA OwedByThisStill ==
  ASSUME CatalogTypeOK, EvidenceOwed, NEW e \in Editors, Alone(e), report' = report,
         row'.backend = row.backend, Exists' = Exists,
         check'.at \in {"test", "put"} => check' = check,
         \A b \in Backends : b # row.backend /\ Owes(call[e], b) => Owes(call'[e], b)
  PROVE  EvidenceOwed'
BY OwedStill DEF Alone

LEMMA EndsEarlyStays ==
  ASSUME CatalogTypeOK, EvidenceOwed, NEW e \in Editors, Answer(e), EndsEarly(e), row' = row
  PROVE  EvidenceOwed'
<1>1. CASE call[e].prev = call[e].wish.backend /\ UNCHANGED <<report, check>>
  <2>1. \A b \in Backends : ~Owes(call[e], b)
    BY <1>1 DEF Owes
  <2>2. Alone(e)
    BY AnswersIt
  <2> QED BY <1>1, <2>1, <2>2, OwedByThisStill DEF Exists
<1>2. CASE LeftBehind
  BY <1>2, LeftBehindByNone
<1> QED BY <1>1, <1>2 DEF EndsEarly

LEMMA SetRefKeeps ==
  ASSUME CatalogTypeOK, KeysInOrder, NEW e \in Editors, SetAPIKeyRef(e)
  PROVE  row' \in Models \union {NoModel} /\ row'.backend = row.backend /\ Exists' = Exists
<1>1. CASE ~Exists
  BY <1>1 DEF SetAPIKeyRef, Exists, CatalogTypeOK
<1>2. CASE Exists
  <2>1. call[e].ref \in Refs /\ row' = [row EXCEPT !.ref = call[e].ref]
    BY <1>2 DEF SetAPIKeyRef, KeysInOrder, Is
  <2> QED BY <1>2, <2>1, RefEdited, ModelsAre DEF Exists
<1> QED BY <1>1, <1>2

LEMMA SaveModelOwes ==
  ASSUME CatalogTypeOK, KeysInOrder, EvidenceOwed, NEW e \in Editors, SaveModel(e)
  PROVE  EvidenceOwed'
<1> DEFINE w == call[e].wish
           p == call[e].prev
<1>1. call[e].at = "save" /\ row'.backend = w.backend /\ row' \in Models /\ w \in Asked
  BY SavedIs DEF SaveModel, Is
<1>2. Exists' /\ w.backend \in Backends /\ w.backend # "none"
  BY <1>1, WishIs, ModelsAre DEF Exists
<1>3. call'[e].at \in AfterSave /\ call'[e].wish = w /\ call'[e].prev = p /\ Alone(e)
  <2>1. call[e].at \in Steps
    BY <1>1 DEF Steps
  <2>2. \E at \in {"offer", "ref", "saved"} : Go(e, at)
    BY DEF SaveModel, AfterOffer
  <2>3. PICK at \in {"offer", "ref", "saved"} : Go(e, at)
    BY <2>2
  <2>4. at \in Steps /\ at \in AfterSave
    BY DEF Steps, AfterSave
  <2> QED BY <2>1, <2>3, <2>4, GoesOn
<1>4. \A x \in Editors, b \in Backends : Owes(call[x], b) => Owes(call'[x], b)
  BY <1>1, <1>3 DEF Owes, AfterSave, Alone
<1>5. p = row.backend /\ w.backend # row.backend => Owes(call'[e], row.backend)
  BY <1>3 DEF Owes
<1>6. /\ report' = IF row.backend = p THEN report ELSE Outlived(report)
      /\ check' = IF check.at \in {"test", "put"} /\ w.backend # row.backend
                  THEN [check EXCEPT !.late = TRUE] ELSE check
  BY DEF SaveModel
<1> HIDE DEF w, p
<1>7. report' # NoReport => Excused(report.of, report.late)'
  <2> SUFFICES ASSUME report' # NoReport PROVE Excused(report.of, report.late)'
    OBVIOUS
  <2>0. report \in Evidence
    BY <1>6 DEF Outlived, CatalogTypeOK
  <2>1. CASE row.backend = p
    <3>1. report' = report /\ Excused(report.of, report.late)
      BY <1>6, <2>1 DEF EvidenceOwed
    <3>2. report.of \in Backends \union {"nothing"}
      BY <2>0 DEF Evidence
    <3>3. CASE report.of = row.backend
      BY <1>1, <1>5, <2>1, <3>1, <3>3 DEF Excused, ExcusedBy
    <3>4. CASE report.of # row.backend
      BY <1>4, <3>1, <3>2, <3>4 DEF Excused, ExcusedBy
    <3> QED BY <3>3, <3>4
  <2>2. CASE row.backend # p
    <3>1. report'.late
      BY <1>6, <2>0, <2>2 DEF Outlived, Evidence
    <3> QED BY <3>1 DEF Excused, ExcusedBy
  <2> QED BY <2>1, <2>2
<1>8. CASE w.backend # row.backend
  <2>1. check'.at \in {"test", "put"} => check'.late
    <3>1. CASE check.at \in {"test", "put"}
      <4>1. check \in Tests \union Puts
        BY <3>1, CheckIs
      <4> QED BY <1>6, <1>8, <3>1, <4>1 DEF Tests, Puts
    <3>2. CASE check.at \notin {"test", "put"}
      BY <1>6, <3>2
    <3> QED BY <3>1, <3>2
  <2> QED BY <1>2, <1>7, <2>1 DEF EvidenceOwed, Excused, ExcusedBy
<1>9. CASE w.backend = row.backend
  <2>1. check' = check /\ Exists
    BY <1>2, <1>6, <1>9, RowIs
  <2>2. check.at = "put" => Excused(check.merged.of, check.merged.late \/ check.late)'
    <3> SUFFICES ASSUME check.at = "put"
                 PROVE  Excused(check.merged.of, check.merged.late \/ check.late)'
      OBVIOUS
    <3>1. check.merged.of \in Backends \union {"nothing"}
      BY CheckIs DEF Puts, Evidence
    <3>2. Excused(check.merged.of, check.merged.late \/ check.late)
      BY <2>1 DEF EvidenceOwed
    <3> QED BY <1>1, <1>4, <1>9, <2>1, <3>1, <3>2 DEF Excused, ExcusedBy
  <2>3. check.at = "test" => check.of = row.backend \/ check.late
    BY <2>1 DEF EvidenceOwed
  <2> QED BY <1>1, <1>2, <1>7, <1>9, <2>1, <2>2, <2>3 DEF EvidenceOwed
<1> QED BY <1>8, <1>9

LEMMA RegisteringOwes ==
  ASSUME CatalogTypeOK, KeysInOrder, EvidenceOwed, NEW e \in Editors, RegisterStep(e)
  PROVE  EvidenceOwed'
<1>m. Moved(e) /\ Alone(e)
  BY RegisteringMoves DEF Moved
<1>g. ASSUME call[e].at \in AfterSave, NEW at \in AfterSave, Go(e, at)
      PROVE  \A b \in Backends : Owes(call[e], b) => Owes(call'[e], b)
  <2>1. call[e].at \in Steps /\ at \in Steps
    BY <1>g DEF AfterSave, Steps
  <2> QED BY <1>g, <2>1, GoesOn DEF Owes
<1>n. call[e].at \notin AfterSave => \A b \in Backends : ~Owes(call[e], b)
  BY DEF Owes
<1>1. CASE Register(e) \/ ReadPrice(e) \/ StartCheck(e)
  <2>1. call[e].at \notin AfterSave
    BY <1>1, ModelsAre DEF Register, Edit, ReadPrice, StartCheck, Is, AfterSave
  <2>2. UNCHANGED <<row, report>> /\ (check'.at \in {"test", "put"} => check' = check)
    BY <1>1, BegunIs DEF Register, ReadPrice, StartCheck
  <2>3. Exists' = Exists
    BY <2>2 DEF Exists
  <2> QED BY <1>m, <1>n, <2>1, <2>2, <2>3, OwedByThisStill
<1>2. CASE SaveModel(e)
  BY <1>2, SaveModelOwes
<1>3. CASE SaveOffer(e)
  <2>0. row' = row /\ Exists' = Exists /\ call[e].at \in AfterSave
    BY <1>3 DEF SaveOffer, Exists, Is, AfterSave
  <2>1. CASE Go(e, AfterOffer(call[e].wish)) /\ UNCHANGED <<report, check>>
    <3>1. AfterOffer(call[e].wish) \in AfterSave
      BY DEF AfterOffer, AfterSave
    <3> QED BY <1>g, <1>m, <2>0, <2>1, <3>1, OwedByThisStill
  <2>2. CASE Answer(e) /\ EndsEarly(e)
    BY <2>0, <2>2, EndsEarlyStays
  <2> QED BY <1>3, <2>1, <2>2 DEF SaveOffer
<1>4. CASE ReadRef(e)
  <2>0. UNCHANGED <<row, report, check>> /\ Exists' = Exists /\ Is(e, "ref") /\ call[e].at \in AfterSave
    BY <1>4 DEF ReadRef, Exists, Is, AfterSave
  <2>1. CASE Go(e, "saved")
    <3>1. "saved" \in AfterSave
      BY DEF AfterSave
    <3> QED BY <1>g, <1>m, <2>0, <2>1, <3>1, OwedByThisStill
  <2>2. CASE /\ Exists
             /\ call' = [call EXCEPT ![e].at = "key",
                              ![e].ref = IF row.ref # 0 THEN row.ref ELSE call[e].key]
    <3>1. \A b \in Backends : Owes(call[e], b) => Owes(call'[e], b)
      BY <2>0, <2>2, RefReadTo DEF Owes, AfterSave
    <3> QED BY <1>m, <2>0, <3>1, OwedByThisStill
  <2> QED BY <1>4, <2>1, <2>2 DEF ReadRef
<1>5. CASE PutKey(e)
  <2>0. UNCHANGED <<row, report, check>> /\ Exists' = Exists /\ call[e].at \in AfterSave
        /\ "set" \in AfterSave /\ Go(e, "set")
    BY <1>5 DEF PutKey, Exists, Is, AfterSave
  <2> QED BY <1>g, <1>m, <2>0, OwedByThisStill
<1>6. CASE SetAPIKeyRef(e)
  <2>0. UNCHANGED <<report, check>> /\ call[e].at \in AfterSave
        /\ "saved" \in AfterSave /\ Go(e, "saved")
    BY <1>6 DEF SetAPIKeyRef, Is, AfterSave
  <2>1. row'.backend = row.backend /\ Exists' = Exists
    BY <1>6, SetRefKeeps
  <2> QED BY <1>g, <1>m, <2>0, <2>1, OwedByThisStill
<1>7. CASE ReadBack(e)
  <2>0. UNCHANGED <<row, report, check>> /\ Exists' = Exists /\ call[e].at = "saved"
    BY <1>7 DEF ReadBack, Exists, Is
  <2>1. CASE ~Exists
    BY <2>0, <2>1, OwedGone DEF EvidenceOwed
  <2>2. CASE ~Changed(e)
    <3>1. \A b \in Backends : b # row.backend => ~Owes(call[e], b)
      BY <2>2 DEF Changed, Owes
    <3> QED BY <1>m, <2>0, <3>1, OwedByThisStill
  <2>3. CASE call[e].prev = "none"
    <3>1. \A b \in Backends : ~Owes(call[e], b)
      BY <2>3, CatalogAssumption DEF CatalogAssumption, Owes
    <3> QED BY <1>m, <2>0, <3>1, OwedByThisStill
  <2>4. CASE Go(e, "forget")
    <3>1. call[e].at \in AfterSave /\ "forget" \in AfterSave
      BY <2>0 DEF AfterSave
    <3> QED BY <1>g, <1>m, <2>0, <2>4, <3>1, OwedByThisStill
  <2> QED BY <1>7, <2>1, <2>2, <2>3, <2>4 DEF ReadBack
<1>8. CASE Invalidate(e)
  BY <1>8, OwedByNone, PutIsLate DEF Invalidate
<1>9. CASE StatementFails(e)
  <2>0. row' = row /\ Exists' = Exists
    BY <1>9 DEF StatementFails, Exists
  <2>1. CASE call[e].at \in {"ref", "key", "set"} /\ Go(e, "saved") /\ UNCHANGED <<report, check>>
    <3>1. call[e].at \in AfterSave /\ "saved" \in AfterSave
      BY <2>1 DEF AfterSave
    <3> QED BY <1>g, <1>m, <2>0, <2>1, <3>1, OwedByThisStill
  <2>2. CASE Answer(e) /\ EndsEarly(e)
    BY <2>0, <2>2, EndsEarlyStays
  <2>3. CASE LeftBehind
    BY <2>0, <2>3, LeftBehindByNone
  <2> QED BY <1>9, <2>1, <2>2, <2>3 DEF StatementFails
<1> QED BY <1>1, <1>2, <1>3, <1>4, <1>5, <1>6, <1>7, <1>8, <1>9 DEF RegisterStep

\* Statements of the row, and steps of the gateway and of the process.
LEMMA BesidesOwes ==
  ASSUME CatalogTypeOK, EvidenceOwed,
         \/ Request \/ CheckMissing \/ Restart
         \/ \E e \in Editors : OtherCall(e)
  PROVE  EvidenceOwed'
<1>1. ASSUME call' = call, report' = report, row'.backend = row.backend, Exists' = Exists,
             check'.at \in {"test", "put"} => check' = check
      PROVE  EvidenceOwed'
  BY <1>1, OwedStill
<1>2. CASE Request \/ CheckMissing \/ \E e \in Editors : CheckModel(e)
  <2>1. UNCHANGED <<call, report, row>> /\ (check'.at \in {"test", "put"} => check' = check)
    BY <1>2, BegunIs DEF Request, CheckMissing, CheckModel
  <2> QED BY <1>1, <2>1 DEF Exists
<1>3. ASSUME NEW e \in Editors, NEW b \in BOOLEAN, SetPricing(e, b) \/ SetEnabled(e, b)
      PROVE  EvidenceOwed'
  <2>1. UNCHANGED <<call, report, check>> /\ Exists
    BY <1>3 DEF SetPricing, SetEnabled
  <2>2. row'.backend = row.backend /\ row' \in Models
    BY <1>3, <2>1, RowEdited DEF SetPricing, SetEnabled
  <2>3. Exists'
    BY <2>2, ModelsAre DEF Exists
  <2> QED BY <1>1, <2>1, <2>2, <2>3
<1>4. ASSUME NEW e \in Editors, DeleteModel(e) \/ DeleteKey(e) PROVE EvidenceOwed'
  <2>1. UNCHANGED <<row, report, check>> /\ call[e].at \notin AfterSave
    BY <1>4, ModelsAre DEF DeleteModel, DeleteKey, Edit, Is, AfterSave
  <2>2. \A b \in Backends : ~Owes(call[e], b)
    BY <2>1 DEF Owes
  <2>3. Alone(e) /\ Exists' = Exists
    BY <1>4, <2>1, DeletingTo DEF Exists
  <2> QED BY <2>1, <2>2, <2>3, OwedByThisStill
<1>5. ASSUME NEW e \in Editors, DeleteRow(e) PROVE EvidenceOwed'
  BY <1>5, OwedGone DEF DeleteRow, Exists
<1>6. CASE Restart
  <2>1. row' = row /\ check'.at = "off"
    BY <1>6, ModelsAre DEF Restart
  <2>2. CASE \E e \in Editors : call[e].at \in AfterSave /\ call[e].prev # row.backend
    BY <1>6, <2>1, <2>2, OwedByNone DEF Restart
  <2>3. CASE \A e \in Editors : call[e].at \in AfterSave => call[e].prev = row.backend
    <3>1. \A x \in Editors, b \in Backends : b # row.backend => ~Owes(call[x], b)
      BY <2>3 DEF Owes
    <3>2. report' = report
      BY <1>6, <2>3 DEF Restart
    <3> QED BY <2>1, <3>1, <3>2, OwedStill DEF Exists
  <2> QED BY <2>2, <2>3
<1> QED BY <1>2, <1>3, <1>4, <1>5, <1>6 DEF OtherCall

LEMMA MergedIs ==
  ASSUME CatalogTypeOK, EvidenceOwed, check.at = "test", NEW found \in BOOLEAN
  PROVE  LET m == MergeReports(report, found, check.late)
         IN  /\ m \in Evidence
             /\ Exists => Excused(m.of, m.late \/ check.late)
<1>0. check.of \in Backends /\ check.late \in BOOLEAN
  BY CheckIs DEF Tests
<1>1. CASE found
  <2> DEFINE m == [of |-> check.of, late |-> check.late]
  <2>1. m \in Evidence /\ m.of = check.of /\ m.late = check.late
    BY <1>0 DEF Evidence
  <2>2. MergeReports(report, found, check.late) = m
    BY <1>1 DEF MergeReports
  <2>3. Exists => check.of = row.backend \/ check.late
    BY DEF EvidenceOwed
  <2> HIDE DEF m
  <2> QED BY <2>1, <2>2, <2>3 DEF Excused, ExcusedBy
<1>2. CASE ~found /\ report = NoReport
  <2> DEFINE m == [of |-> "nothing", late |-> FALSE]
  <2>1. m \in Evidence /\ m.of = "nothing"
    BY DEF Evidence
  <2>2. MergeReports(report, found, check.late) = m
    BY <1>2 DEF MergeReports
  <2> HIDE DEF m
  <2> QED BY <2>1, <2>2 DEF Excused, ExcusedBy
<1>3. CASE ~found /\ report # NoReport
  <2> DEFINE m == [report EXCEPT !.late = @ \/ check.late]
  <2>0. report \in Evidence /\ Excused(report.of, report.late)
    BY <1>3 DEF CatalogTypeOK, EvidenceOwed
  <2>1. m \in Evidence /\ m.of = report.of /\ m.late = (report.late \/ check.late)
    BY <1>0, <2>0 DEF Evidence
  <2>2. MergeReports(report, found, check.late) = m
    BY <1>3 DEF MergeReports
  <2> HIDE DEF m
  <2> QED BY <2>0, <2>1, <2>2 DEF Excused, ExcusedBy
<1> QED BY <1>1, <1>2, <1>3

LEMMA SavedReportIs ==
  ASSUME CatalogTypeOK, EvidenceOwed, check.at = "put"
  PROVE  LET m == [check.merged EXCEPT !.late = @ \/ check.late]
         IN  m \in Evidence /\ (Exists => Excused(m.of, m.late))
<1> DEFINE m == [check.merged EXCEPT !.late = @ \/ check.late]
<1>1. check.merged \in Evidence /\ check.late \in BOOLEAN
  BY CheckIs DEF Puts
<1>2. m \in Evidence /\ m.of = check.merged.of /\ m.late = (check.merged.late \/ check.late)
  BY <1>1 DEF Evidence
<1>3. Exists => Excused(check.merged.of, check.merged.late \/ check.late)
  BY DEF EvidenceOwed
<1> HIDE DEF m
<1>4. m \in Evidence /\ (Exists => Excused(m.of, m.late))
  BY <1>2, <1>3
<1> QED BY <1>4 DEF m

\* What the check of a model leaves is excused, and well formed.
LEMMA CheckOwes ==
  ASSUME CatalogTypeOK, EvidenceOwed,
         CheckReads \/ CheckSaves \/ CheckGivesUp \/ \E found \in BOOLEAN : CheckMerges(found)
  PROVE  /\ EvidenceOwed'
         /\ report' \in Evidence \union {NoReport}
         /\ check' \in {NoCheck, [at |-> "read"]} \union Tests \union Puts
<1>0. UNCHANGED <<row, call>> /\ report \in Evidence \union {NoReport}
  BY DEF CheckReads, CheckSaves, CheckGivesUp, CheckMerges, CatalogTypeOK
<1>r. report # NoReport => Exists /\ Excused(report.of, report.late)
  BY DEF EvidenceOwed
<1>e. Exists' = Exists /\ \A of, late : ExcusedBy(call', row'.backend, of, late) = Excused(of, late)
  BY <1>0 DEF Exists, Excused
<1>1. CASE check' = NoCheck /\ report' = report
  <2>1. report' # NoReport => Exists' /\ Excused(report.of, report.late)'
    BY <1>0, <1>1, <1>r DEF Excused, Exists
  <2> QED BY <1>0, <1>1, <2>1, ModelsAre DEF EvidenceOwed
<1>2. CASE CheckReads /\ Exists
  <2> DEFINE k == [at |-> "test", of |-> row.backend, late |-> FALSE]
  <2>1. check' = k /\ report' = report
    BY <1>2 DEF CheckReads
  <2>2. k \in Tests /\ k.at = "test" /\ k.of = row.backend
    BY <1>2, RowIs DEF Tests
  <2> HIDE DEF k
  <2>3. report' # NoReport => Exists' /\ Excused(report.of, report.late)'
    BY <1>0, <1>r, <2>1 DEF Excused, Exists
  <2> QED BY <1>0, <2>1, <2>2, <2>3 DEF EvidenceOwed
<1>3. ASSUME NEW found \in BOOLEAN, CheckMerges(found)
      PROVE  /\ EvidenceOwed'
             /\ report' \in Evidence \union {NoReport}
             /\ check' \in {NoCheck, [at |-> "read"]} \union Tests \union Puts
  <2> DEFINE m == MergeReports(report, found, check.late)
             k == [at |-> "put", merged |-> m, late |-> check.late]
  <2>1. check' = k /\ report' = report /\ check.at = "test"
    BY <1>3 DEF CheckMerges
  <2>2. m \in Evidence /\ (Exists => Excused(m.of, m.late \/ check.late))
    BY <2>1, MergedIs
  <2>3. check.late \in BOOLEAN
    BY <2>1, CheckIs DEF Tests
  <2> HIDE DEF m
  <2>4. k \in Puts /\ k.at = "put" /\ k.merged = m /\ k.late = check.late
    BY <2>2, <2>3 DEF Puts
  <2> HIDE DEF k
  <2>5. report' # NoReport => Exists' /\ Excused(report.of, report.late)'
    BY <1>0, <1>r, <2>1 DEF Excused, Exists
  <2>6. check'.merged.of = m.of /\ (check'.merged.late \/ check'.late) = (m.late \/ check.late)
    BY <2>1, <2>4
  <2>7. Exists' => Excused(check.merged.of, check.merged.late \/ check.late)'
    BY <1>0, <2>2, <2>6 DEF Excused, Exists
  <2> QED BY <1>0, <2>1, <2>4, <2>5, <2>7 DEF EvidenceOwed
<1>4. CASE CheckSaves /\ Exists
  <2> DEFINE m == [check.merged EXCEPT !.late = @ \/ check.late]
  <2>1. m \in Evidence /\ Excused(m.of, m.late)
    BY <1>4, SavedReportIs DEF CheckSaves
  <2>2. report' = m /\ check' = NoCheck
    BY <1>4 DEF CheckSaves
  <2> HIDE DEF m
  <2>3. Excused(report.of, report.late)' /\ Exists'
    BY <1>0, <1>4, <2>1, <2>2 DEF Excused, Exists
  <2> QED BY <2>1, <2>2, <2>3, ModelsAre DEF EvidenceOwed
<1> QED BY <1>1, <1>2, <1>3, <1>4 DEF CheckReads, CheckSaves, CheckGivesUp

LEMMA EvidenceStays ==
  ASSUME CatalogTypeOK, KeysInOrder, EvidenceOwed, CatalogNext
  PROVE  EvidenceOwed'
BY RegisteringOwes, BesidesOwes, CheckOwes DEF CatalogNext, CheckStep

LEMMA RowTyped ==
  ASSUME CatalogTypeOK, KeysInOrder, CatalogNext
  PROVE  row' \in Models \union {NoModel}
<1>1. CASE row' = row
  BY <1>1 DEF CatalogTypeOK
<1>2. ASSUME NEW e \in Editors, RowWrites(e) PROVE row' \in Models \union {NoModel}
  BY <1>2, SavedIs, SetRefKeeps, RowEdited DEF RowWrites, DeleteRow, SetPricing, SetEnabled
<1> QED BY <1>1, <1>2, NextRow

LEMMA CallsTyped ==
  ASSUME CatalogTypeOK, KeysInOrder, CatalogNext
  PROVE  call' \in [Editors -> CallsMade]
BY NextIs DEF Aside, Moved, CatalogTypeOK, CallsMade

LEMMA OutlivedIs ==
  ASSUME CatalogTypeOK
  PROVE  Outlived(report) \in Evidence \union {NoReport}
BY DEF Outlived, CatalogTypeOK, Evidence

LEMMA LeftBehindTyped ==
  ASSUME CatalogTypeOK, LeftBehind
  PROVE  /\ report' \in Evidence \union {NoReport}
         /\ check' \in {NoCheck, [at |-> "read"]} \union Tests \union Puts
BY OutlivedIs, PutIsLate DEF LeftBehind

LEMMA ReportTyped ==
  ASSUME CatalogTypeOK, KeysInOrder, EvidenceOwed, CatalogNext
  PROVE  /\ report' \in Evidence \union {NoReport}
         /\ check' \in {NoCheck, [at |-> "read"]} \union Tests \union Puts
<1> DEFINE Good == /\ report' \in Evidence \union {NoReport}
                   /\ check' \in {NoCheck, [at |-> "read"]} \union Tests \union Puts
<1>0. report \in Evidence \union {NoReport}
      /\ check \in {NoCheck, [at |-> "read"]} \union Tests \union Puts
  BY DEF CatalogTypeOK
<1>1. CASE UNCHANGED <<report, check>>
  BY <1>0, <1>1
<1>2. CASE LeftBehind
  BY <1>2, LeftBehindTyped
<1>3. CASE report' = report /\ check' = Begun
  BY <1>0, <1>3, BegunIs
<1>4. ASSUME NEW e \in Editors, RegisterStep(e) PROVE Good
  <2>1. CASE SaveModel(e)
    <3>1. report' \in {report, Outlived(report)}
      BY <2>1 DEF SaveModel
    <3>2. \/ check' = check
          \/ check.at \in {"test", "put"} /\ check' = [check EXCEPT !.late = TRUE]
      BY <2>1 DEF SaveModel
    <3>3. check.at \in {"test", "put"} => [check EXCEPT !.late = TRUE] \in Tests \union Puts
      BY CheckIs DEF Tests, Puts
    <3> QED BY <1>0, <3>1, <3>2, <3>3, OutlivedIs
  <2>2. CASE Invalidate(e)
    BY <2>2, PutIsLate DEF Invalidate
  <2>3. CASE SaveOffer(e) \/ StatementFails(e)
    BY <1>1, <1>2, <2>3 DEF SaveOffer, StatementFails, EndsEarly
  <2>4. CASE Register(e) \/ ReadPrice(e) \/ ReadRef(e) \/ PutKey(e) \/ SetAPIKeyRef(e) \/ ReadBack(e)
    BY <1>1, <2>4 DEF Register, ReadPrice, ReadRef, PutKey, SetAPIKeyRef, ReadBack
  <2>5. CASE StartCheck(e)
    BY <1>3, <2>5 DEF StartCheck
  <2> QED BY <1>4, <2>1, <2>2, <2>3, <2>4, <2>5 DEF RegisterStep
<1>5. ASSUME NEW e \in Editors, OtherCall(e) PROVE Good
  <2>1. CASE DeleteRow(e)
    BY <1>0, <2>1 DEF DeleteRow
  <2>2. CASE CheckModel(e)
    BY <1>3, <2>2 DEF CheckModel
  <2>3. CASE DeleteModel(e) \/ DeleteKey(e) \/ \E b \in BOOLEAN : SetPricing(e, b) \/ SetEnabled(e, b)
    BY <1>1, <2>3 DEF DeleteModel, DeleteKey, SetPricing, SetEnabled
  <2> QED BY <1>5, <2>1, <2>2, <2>3 DEF OtherCall
<1>6. CASE Request
  BY <1>1, <1>6 DEF Request
<1>7. CASE CheckStep
  <2>1. CASE CheckMissing
    BY <1>3, <2>1 DEF CheckMissing
  <2> QED BY <1>7, <2>1, CheckOwes DEF CheckStep
<1>8. CASE Restart
  BY <1>0, <1>8, OutlivedIs DEF Restart
<1> QED BY <1>4, <1>5, <1>6, <1>7, <1>8 DEF CatalogNext

LEMMA EditsTyped == ASSUME CatalogTypeOK, CatalogNext PROVE edits' \in Nat
<1>1. edits \in Nat
  BY DEF CatalogTypeOK
<1>2. ASSUME NEW e \in Editors, RegisterStep(e) PROVE edits' \in {edits, edits + 1}
  BY <1>2 DEF RegisterStep, Register, Edit, ReadPrice, SaveModel, SaveOffer, ReadRef, PutKey,
              SetAPIKeyRef, ReadBack, Invalidate, StartCheck, StatementFails
<1>3. ASSUME NEW e \in Editors, OtherCall(e) PROVE edits' \in {edits, edits + 1}
  BY <1>3 DEF OtherCall, SetPricing, SetEnabled, CheckModel, DeleteModel, DeleteRow, DeleteKey, Edit
<1>4. CASE Request \/ CheckStep \/ Restart
  BY <1>1, <1>4 DEF Request, CheckStep, CheckReads, CheckMerges, CheckSaves, CheckGivesUp,
                    CheckMissing, Restart
<1> QED BY <1>1, <1>2, <1>3, <1>4 DEF CatalogNext

LEMMA CatalogInvInit == ASSUME CatalogInit PROVE CatalogInv
<1>0. \A e \in Editors : call[e].at = "idle"
  BY ModelsAre DEF CatalogInit
<1>1. CatalogTypeOK
  <2>1. NoBuilt \in [backend : Backends \union {"none"}, key : Nat]
    BY DEF NoBuilt
  <2> QED BY <2>1 DEF CatalogInit, CatalogTypeOK, CallsMade
<1>2. PricesRead /\ KeysInOrder
  BY <1>0 DEF PricesRead, KeysInOrder, Is
<1>3. EvidenceOwed /\ EnabledIsPriced /\ KeyIsThere /\ ~misserved
  BY ModelsAre DEF CatalogInit, EvidenceOwed, EnabledIsPriced, KeyIsThere, Exists
<1> QED BY <1>1, <1>2, <1>3 DEF CatalogInv

LEMMA CatalogInvNext == ASSUME CatalogInv, CatalogNext PROVE CatalogInv'
<1>0. /\ CatalogTypeOK /\ PricesRead /\ KeysInOrder /\ EvidenceOwed
      /\ EnabledIsPriced /\ KeyIsThere /\ ~misserved
  BY DEF CatalogInv
<1>1. CatalogTypeOK'
  <2>1. row' \in Models \union {NoModel} /\ call' \in [Editors -> CallsMade] /\ edits' \in Nat
    BY <1>0, RowTyped, CallsTyped, EditsTyped
  <2>2. /\ report' \in Evidence \union {NoReport}
        /\ check' \in {NoCheck, [at |-> "read"]} \union Tests \union Puts
    BY <1>0, ReportTyped
  <2>3. vault' \in [Refs -> Nat] /\ built' \in [backend : Backends \union {"none"}, key : Nat]
    BY <1>0, KeysStay, ProviderStays
  <2> QED BY <2>1, <2>2, <2>3 DEF CatalogTypeOK
<1>2. PricesRead' /\ KeysInOrder' /\ EvidenceOwed'
  BY <1>0, PricesReadStays, KeysInOrderStays, EvidenceStays
<1>3. EnabledIsPriced' /\ KeyIsThere' /\ ~misserved'
  BY <1>0, EnabledStays, KeyStays, ProviderStays
<1> QED BY <1>1, <1>2, <1>3 DEF CatalogInv

LEMMA CatalogInvStutters == ASSUME CatalogInv, UNCHANGED catalogVars PROVE CatalogInv'
<1>1. UNCHANGED <<row, vault, report, check, call, built, misserved, dropped, edits, breaks>>
  BY DEF catalogVars
<1> QED BY <1>1 DEF CatalogInv, CatalogTypeOK, PricesRead, KeysInOrder, EvidenceOwed, Excused,
                    ExcusedBy, EnabledIsPriced, KeyIsThere, Exists, Is

LEMMA CatalogInvShows == ASSUME CatalogInv PROVE ModelsSound
<1>1. EvidenceFits
  <2>1. CASE report = NoReport
    BY <2>1, ModelsAre DEF EvidenceFits
  <2>2. CASE report # NoReport /\ ~report.late /\ report.of \notin {"nothing", row.backend}
    <3>1. PICK e \in Editors : Owes(call[e], report.of)
      BY <2>2 DEF CatalogInv, EvidenceOwed, Excused, ExcusedBy
    <3>2. call[e].at \in AfterSave /\ call[e].prev # row.backend
      BY <2>2, <3>1 DEF Owes
    <3> QED BY <3>2 DEF EvidenceFits, Changed
  <2> QED BY <2>1, <2>2 DEF EvidenceFits
<1> QED BY <1>1 DEF CatalogInv, ModelsSound

\* An external model that is enabled has a price, operators judge it by what
\* its backend was seen to do, the secret its row names holds its key, and a
\* request goes where the row says (modelcatalog.Service, afterRegister,
\* storeAPIKey, externalProviderFor).
THEOREM ModelsAreSound == CatalogSpec => []ModelsSound
<1>1. CatalogInit => CatalogInv
  BY CatalogInvInit
<1>2. CatalogInv /\ [CatalogNext]_catalogVars => CatalogInv'
  BY CatalogInvNext, CatalogInvStutters
<1>3. CatalogInv => ModelsSound
  BY CatalogInvShows
<1> QED BY <1>1, <1>2, <1>3, PTL DEF CatalogSpec
=============================================================================
