--------------------------- MODULE InvoiceCharging ---------------------------
(***************************************************************************)
(* The postpaid side of billing: usage invoices of one account             *)
(* (billing/billingcycle.go, billing/service.go), their collection from    *)
(* the card on file (billing/charging.go), the card itself                 *)
(* (billing/payment_methods.go) and the suspension that follows a failed   *)
(* collection (billing/suspension.go).  Operators drive the same code      *)
(* through the admin endpoints.  Stripe is external: one idempotency key   *)
(* per invoice, whose first answer it repeats.                             *)
(***************************************************************************)
EXTENDS Naturals, Sequences

CONSTANTS
    Cycles,         \* replicas running the monthly BillingCycle
    Sweeps,         \* replicas running the ChargeCollector
    Operators,      \* operators pressing "charge now"
    MaxAttempts,    \* maxChargeAttempts
    MaxMonths, MaxInvoices, MaxTries    \* bounds

ASSUME InvoiceAssumption == MaxInvoices \in Nat

Chargers == Sweeps \cup Operators

VARIABLES
    lastMonth,      \* the month that has just ended; 0 before the first
    issued,     \* billing.invoices, in the order of their numbers
    cycle,      \* replica -> where its run of the month is, lastRunMonth
    charger,    \* replica or operator -> where its ChargeInvoice is
    intentOf,     \* Stripe: invoice -> the PaymentIntent of its key
    taken,      \* Stripe: invoice -> charges that took money
    hook,       \* the payment_intent webhook being handled
    account,    \* payment_failed_at, the status, a verified card
    sweeping    \* the SuspensionSweeper has the account in its list

invoiceVars == <<lastMonth, issued, cycle, charger, intentOf, taken, hook,
                 account, sweeping>>

Numbers == 1 .. MaxInvoices
Quiet == [at |-> "idle", inv |-> 0, answer |-> "none"]
Sleeping == [at |-> "idle", inv |-> 0, ran |-> 0]

InvoiceInit ==
    /\ lastMonth = 0
    /\ issued = <<>>
    /\ cycle = [c \in Cycles |-> Sleeping]
    /\ charger = [c \in Chargers |-> Quiet]
    /\ intentOf = [i \in Numbers |-> "none"]
    /\ taken = [i \in Numbers |-> 0]
    /\ hook = [inv |-> 0, paid |-> FALSE]
    /\ account = [clock |-> "off", status |-> "active", card |-> TRUE]
    /\ sweeping = FALSE

-----------------------------------------------------------------------------
\* The invoices.

\* hasUsageInvoiceForPeriod.
Invoiced(p) == \E i \in DOMAIN issued : issued[i].period = p

\* CreateAccountUsageInvoice: one transaction, which numbers the draft.
Draft(p, by) ==
    /\ Len(issued) < MaxInvoices
    /\ issued' = Append(issued, [period |-> p, by |-> by, status |-> "draft",
                                 attempts |-> 0, intent |-> FALSE,
                                 paidBy |-> "none", rested |-> TRUE])

PassMonth ==
    /\ lastMonth < MaxMonths
    /\ lastMonth' = lastMonth + 1
    /\ UNCHANGED <<issued, cycle, charger, intentOf, taken, hook, account, sweeping>>

\* BillingCycle.run reads whether the month is invoiced; an error or an
\* invoice already there ends the run, and the month counts as done.
CycleChecks(c, failed) ==
    /\ cycle[c].at = "idle" /\ lastMonth > 0 /\ cycle[c].ran # lastMonth
    /\ cycle' = [cycle EXCEPT ![c] =
         IF failed \/ Invoiced(lastMonth) THEN [Sleeping EXCEPT !.ran = lastMonth]
         ELSE [@ EXCEPT !.at = "draft", !.inv = lastMonth]]
    /\ UNCHANGED <<lastMonth, issued, charger, intentOf, taken, hook, account, sweeping>>

CycleDrafts(c) ==
    /\ cycle[c].at = "draft"
    /\ Draft(cycle[c].inv, "cycle")
    /\ cycle' = [cycle EXCEPT ![c].at = "issue", ![c].inv = Len(issued')]
    /\ UNCHANGED <<lastMonth, charger, intentOf, taken, hook, account, sweeping>>

\* IssueInvoice, for the cycle: the draft may have been voided meanwhile.
CycleIssues(c) ==
    LET i == cycle[c].inv
    IN  /\ cycle[c].at = "issue"
        /\ IF issued[i].status = "draft"
           THEN issued' = [issued EXCEPT ![i].status = "open"]
           ELSE UNCHANGED issued
        /\ cycle' = [cycle EXCEPT ![c] = [Sleeping EXCEPT !.ran = lastMonth]]
        /\ UNCHANGED <<lastMonth, charger, intentOf, taken, hook, account, sweeping>>

\* The process restarts: lastRunMonth is forgotten.
CycleRestarts(c) ==
    /\ cycle[c] # Sleeping
    /\ cycle' = [cycle EXCEPT ![c] = Sleeping]
    /\ UNCHANGED <<lastMonth, issued, charger, intentOf, taken, hook, account, sweeping>>

\* The operators' endpoints: generate, issue, void.
Generate(p) ==
    /\ p \in 1 .. lastMonth /\ Draft(p, "operator")
    /\ UNCHANGED <<lastMonth, cycle, charger, intentOf, taken, hook, account, sweeping>>

IssueOrVoid(i, status) ==
    /\ i \in DOMAIN issued
    /\ \/ status = "open" /\ issued[i].status = "draft"
       \/ status = "void" /\ issued[i].status \in {"draft", "open"}
    /\ issued' = [issued EXCEPT ![i].status = status]
    /\ UNCHANGED <<lastMonth, cycle, charger, intentOf, taken, hook, account, sweeping>>

-----------------------------------------------------------------------------
\* Settling and failing, each one transaction.

\* MarkInvoicePaid: the clock stops unless another usage invoice is open.
MarkPaid(i, by) ==
    /\ issued' = [issued EXCEPT ![i].status = "paid", ![i].paidBy = by]
    /\ account' = IF \E j \in DOMAIN issued \ {i} : issued[j].status = "open"
                  THEN account
                  ELSE [account EXCEPT !.clock = "off"]

\* recordChargeFailure: bump counts the attempt where ChargeInvoice had not.
RecordFailure(i, bump) ==
    LET n == IF bump THEN issued[i].attempts + 1 ELSE issued[i].attempts
    IN  /\ issued' = [issued EXCEPT ![i].attempts = n, ![i].rested = FALSE]
        /\ account' = IF n >= MaxAttempts /\ account.clock = "off"
                      THEN [account EXCEPT !.clock = "running"] ELSE account

-----------------------------------------------------------------------------
\* ChargeInvoice, by a sweep or by an operator.

\* The sweep picks what is due: open, under the cap, past its back-off.
DueForAttempt(i) ==
    /\ issued[i].status = "open" /\ issued[i].attempts < MaxAttempts
    /\ issued[i].attempts = 0 \/ issued[i].rested

\* The invoice is read, and the credit drawn against its period decides
\* whether a card has to pay the rest.
Load(c, i, covered) ==
    /\ charger[c].at = "idle" /\ i \in DOMAIN issued /\ issued[i].attempts < MaxTries
    /\ issued[i].status = "open"
    /\ c \in Sweeps => DueForAttempt(i)
    /\ charger' = [charger EXCEPT ![c] =
         [at |-> IF covered THEN "credit" ELSE "card", inv |-> i, answer |-> "none"]]
    /\ UNCHANGED <<lastMonth, issued, cycle, intentOf, taken, hook, account, sweeping>>

\* Fully covered by credit: settled without a charge.
SettleByCredit(c) ==
    /\ charger[c].at = "credit"
    /\ MarkPaid(charger[c].inv, "credit")
    /\ charger' = [charger EXCEPT ![c] = Quiet]
    /\ UNCHANGED <<lastMonth, cycle, intentOf, taken, hook, sweeping>>

NoCard(c) ==
    LET i == charger[c].inv
    IN  /\ charger[c].at = "card" /\ ~account.card
        /\ RecordFailure(i, TRUE)
        /\ charger' = [charger EXCEPT ![c] = Quiet]
        /\ UNCHANGED <<lastMonth, cycle, intentOf, taken, hook, sweeping>>

\* The attempt is counted before the network call.
Reserve(c) ==
    LET i == charger[c].inv
    IN  /\ charger[c].at = "card" /\ account.card
        /\ issued' = [issued EXCEPT ![i].attempts = @ + 1, ![i].rested = FALSE]
        /\ charger' = [charger EXCEPT ![c].at = "call"]
        /\ UNCHANGED <<lastMonth, cycle, intentOf, taken, hook, account, sweeping>>

\* Mutant: every attempt has a key of its own, so Stripe repeats nothing.
KeyPerAttempt(i) == FALSE

\* Stripe has answered for this invoice's key before.
KeyKnown(i) == intentOf[i] # "none"

\* CreatePaymentIntent.  The answer may be lost after Stripe has acted.
CallStripe(c, outcome, heard) ==
    LET i == charger[c].inv
        answer == IF KeyKnown(i) THEN intentOf[i] ELSE outcome
    IN  /\ charger[c].at = "call"
        /\ intentOf' = [intentOf EXCEPT ![i] = answer]
        /\ taken' = [taken EXCEPT ![i] =
             IF ~KeyKnown(i) /\ answer = "succeeded" THEN @ + 1 ELSE @]
        /\ charger' = [charger EXCEPT ![c].at = IF heard THEN "note" ELSE "end",
                                      ![c].answer = IF heard THEN answer ELSE "lost"]
        /\ UNCHANGED <<lastMonth, issued, cycle, hook, account, sweeping>>

\* The PaymentIntent is recorded for the webhook to find.
NoteIntent(c) ==
    /\ charger[c].at = "note"
    /\ issued' = [issued EXCEPT ![charger[c].inv].intent = TRUE]
    /\ charger' = [charger EXCEPT ![c].at = "end"]
    /\ UNCHANGED <<lastMonth, cycle, intentOf, taken, hook, account, sweeping>>

WasCharged(c) == charger[c].answer = "succeeded"

EndCharge(c) ==
    /\ charger[c].at = "end"
    /\ IF WasCharged(c) THEN MarkPaid(charger[c].inv, "card")
       ELSE IF charger[c].answer \in {"declined", "lost"}
       THEN RecordFailure(charger[c].inv, FALSE)
       ELSE UNCHANGED <<issued, account>>
    /\ charger' = [charger EXCEPT ![c] = Quiet]
    /\ UNCHANGED <<lastMonth, cycle, intentOf, taken, hook, sweeping>>

\* The process dies in the middle of a charge.
ChargeCrashes(c) ==
    /\ charger[c].at # "idle"
    /\ charger' = [charger EXCEPT ![c] = Quiet]
    /\ UNCHANGED <<lastMonth, issued, cycle, intentOf, taken, hook, account, sweeping>>

\* The back-off of an invoice has passed.
Rest(i) ==
    /\ i \in DOMAIN issued /\ ~issued[i].rested
    /\ issued' = [issued EXCEPT ![i].rested = TRUE]
    /\ UNCHANGED <<lastMonth, cycle, charger, intentOf, taken, hook, account, sweeping>>

-----------------------------------------------------------------------------
\* Stripe, its webhooks, the card and the suspension.

ProcessingEnds(i, outcome) ==
    /\ intentOf[i] = "processing"
    /\ intentOf' = [intentOf EXCEPT ![i] = outcome]
    /\ taken' = [taken EXCEPT ![i] = IF outcome = "succeeded" THEN @ + 1 ELSE @]
    /\ UNCHANGED <<lastMonth, issued, cycle, charger, hook, account, sweeping>>

\* SettleInvoiceByPaymentIntent, RecordChargeFailureByPaymentIntent: the
\* invoice is found by the recorded intent and its status read first.  Stripe
\* may deliver an event late and more than once.
WebhookReads(i) ==
    /\ hook.inv = 0 /\ i \in DOMAIN issued
    /\ issued[i].intent /\ issued[i].status # "paid"
    /\ intentOf[i] \in {"succeeded", "declined"}
    /\ hook' = [inv |-> i, paid |-> intentOf[i] = "succeeded"]
    /\ UNCHANGED <<lastMonth, issued, cycle, charger, intentOf, taken, account, sweeping>>

WebhookActs ==
    /\ hook.inv # 0
    /\ IF hook.paid THEN MarkPaid(hook.inv, "card") ELSE RecordFailure(hook.inv, FALSE)
    /\ hook' = [inv |-> 0, paid |-> FALSE]
    /\ UNCHANGED <<lastMonth, cycle, charger, intentOf, taken, sweeping>>

\* A verified card stops the clock; removing one, by the customer or at
\* Stripe's end, touches nothing else.
CardVerified ==
    /\ ~account.card
    /\ account' = [account EXCEPT !.card = TRUE, !.clock = "off"]
    /\ UNCHANGED <<lastMonth, issued, cycle, charger, intentOf, taken, hook, sweeping>>

CardRemoved ==
    /\ account.card
    /\ account' = [account EXCEPT !.card = FALSE]
    /\ UNCHANGED <<lastMonth, issued, cycle, charger, intentOf, taken, hook, sweeping>>

GraceElapses ==
    /\ account.clock = "running"
    /\ account' = [account EXCEPT !.clock = "elapsed"]
    /\ UNCHANGED <<lastMonth, issued, cycle, charger, intentOf, taken, hook, sweeping>>

\* SuspensionSweeper.sweep lists the account, then suspendOne flips it if it
\* is still active.
ListForSuspension ==
    /\ ~sweeping /\ account.status = "active" /\ account.clock = "elapsed"
    /\ sweeping' = TRUE
    /\ UNCHANGED <<lastMonth, issued, cycle, charger, intentOf, taken, hook, account>>

SuspendOne ==
    /\ sweeping
    /\ sweeping' = FALSE
    /\ account' = [account EXCEPT !.status = "suspended"]
    /\ UNCHANGED <<lastMonth, issued, cycle, charger, intentOf, taken, hook>>

InvoiceNext ==
    \/ PassMonth \/ WebhookActs \/ CardVerified \/ CardRemoved
    \/ GraceElapses \/ ListForSuspension \/ SuspendOne
    \/ \E c \in Cycles : \/ CycleDrafts(c) \/ CycleIssues(c) \/ CycleRestarts(c)
                         \/ \E failed \in BOOLEAN : CycleChecks(c, failed)
    \/ \E p \in 1 .. MaxMonths : Generate(p)
    \/ \E i \in Numbers :
          \/ Rest(i) \/ WebhookReads(i)
          \/ \E status \in {"open", "void"} : IssueOrVoid(i, status)
          \/ \E outcome \in {"succeeded", "declined"} : ProcessingEnds(i, outcome)
          \/ \E c \in Chargers, covered \in BOOLEAN : Load(c, i, covered)
    \/ \E c \in Chargers :
          \/ SettleByCredit(c) \/ NoCard(c) \/ Reserve(c) \/ NoteIntent(c)
          \/ EndCharge(c) \/ ChargeCrashes(c)
          \/ \E outcome \in {"succeeded", "declined", "processing"}, heard \in BOOLEAN :
                CallStripe(c, outcome, heard)

InvoiceSpec == InvoiceInit /\ [][InvoiceNext]_invoiceVars

-----------------------------------------------------------------------------
\* However a sweep, an operator, a crash and a retry overlap, the card is
\* charged at most once for an invoice (charging.go:172-174).
ChargedOnce == \A i \in Numbers : taken[i] <= 1

\* An invoice is paid only when its money was taken or credit covered it,
\* whichever of the charge and the webhooks came last.
PaidIsCollected ==
    \A i \in DOMAIN issued :
        issued[i].status = "paid" /\ issued[i].paidBy = "card" => taken[i] > 0

\* So an invoice is collected once when it is said to be, and never twice.
CollectedOnce == ChargedOnce /\ PaidIsCollected
=============================================================================
