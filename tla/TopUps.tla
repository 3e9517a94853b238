------------------------------- MODULE TopUps -------------------------------
(***************************************************************************)
(* Buying credit for one account: top-ups bought in the console            *)
(* (pkg/billing/topups.go), the automatic recharge that charges the saved  *)
(* card when credit runs low (pkg/billing/autorecharge.go, one loop per    *)
(* API replica), and Stripe's webhooks, which alone turn a payment into    *)
(* credit (pkg/api/webhook_handlers.go).                                   *)
(*                                                                         *)
(* Every purchase is one unit of credit; the threshold and the monthly cap *)
(* are counted in purchases.  Waits are abstracted to what they order: a   *)
(* claim or backoff that is over, a charge older than autoInflightWindow,  *)
(* the next month.                                                         *)
(***************************************************************************)
EXTENDS Naturals, FiniteSets

CONSTANTS
  Ids,                \* top-ups that can be made, in this order
  Console,            \* those that the customer may make in the console
  Replicas,           \* processes that run the recharge loop
  Threshold,          \* the rule's threshold
  Cap,                \* the rule's monthly cap
  MaxAutoFailures,    \* failed charges in a row that switch the rule off
  SlowAttempts,       \* TRUE: an attempt may outlast its claim, or lose it
                      \* because the rule is switched off and on meanwhile
  UnrecordedIntents,  \* TRUE: a charge's webhook, or a crash, may come before
                      \* its payment intent is recorded
  UnknownOutcomes,    \* TRUE: a charge that went through may be reported failed
  Incidents,          \* what may happen: the rule is changed, the card removed,
                      \* an attempt abandoned, the month end
  MaxIncidents,       \* bound: how often
  MaxMonth            \* bound: months

ASSUME TopUpsAssumption ==
  /\ IsFiniteSet(Ids) /\ Ids \subseteq Nat
  /\ {Threshold, Cap, MaxIncidents} \subseteq Nat
  /\ {MaxAutoFailures, MaxMonth} \subseteq Nat \ {0}
  /\ Incidents \subseteq {"rule", "card", "crash", "month"}
  /\ Console \subseteq Ids
  /\ {SlowAttempts, UnrecordedIntents, UnknownOutcomes} \subseteq BOOLEAN

VARIABLES
  topup,     \* topup[t]: row of billing.credit_topups
  intent,    \* intent[t]: t's payment intent at Stripe
  events,    \* webhooks Stripe has yet to hear a 2xx for
  credited,  \* credited[t]: t's purchase rows in the credit ledger
  balance,   \* what the account can spend
  rule,      \* the row of billing.auto_recharge
  card,      \* the account has a card that can be charged
  attempt,   \* attempt[r]: the recharge r is working on
  incidents, \* how many there have been
  month      \* the current month

vars == <<topup, intent, events, credited, balance, rule, card, attempt, incidents, month>>

NoTopUp   == [status |-> "none"]
NoAttempt == [at |-> "idle"]

Made(t)    == topup[t] # NoTopUp
IsAuto(t)    == Made(t) /\ topup[t].source = "auto"
Unsettled  == {"pending", "processing"}
NextId(t)  == ~Made(t) /\ \A s \in Ids : s < t => Made(s)
SetStatus(t, s) == topup' = [topup EXCEPT ![t].status = s]

\* The row is found by the payment intent recorded in it.
Known(t) == topup[t].pi

Row(source) == [source |-> source, status |-> "pending", pi |-> FALSE,
                month |-> month, fresh |-> TRUE]

Init ==
  /\ topup = [t \in Ids |-> NoTopUp]
  /\ intent = [t \in Ids |-> "none"]
  /\ events = {}
  /\ credited = [t \in Ids |-> 0]
  /\ balance = 0
  /\ rule \in [enabled : BOOLEAN, failures : {0}, due : {TRUE}]
  /\ card = TRUE
  /\ attempt = [r \in Replicas |-> NoAttempt]
  /\ incidents = 0
  /\ month = 1

-----------------------------------------------------------------------------
(* The customer. *)

\* CreateTopUp.  The browser can pay only once the intent is recorded.
CreateTopUp(t) ==
  /\ t \in Console
  /\ NextId(t)
  /\ \E row \in [source : {"manual"}, status : {"pending", "failed"}, pi : BOOLEAN,
                 month : {month}, fresh : {TRUE}] :
       /\ row.pi => row.status = "pending"
       /\ topup' = [topup EXCEPT ![t] = row]
       /\ intent' = [intent EXCEPT ![t] = IF row.pi THEN "open" ELSE "none"]
  /\ UNCHANGED <<events, credited, balance, rule, card, attempt, incidents, month>>

Event(t, type) == [topup |-> t, type |-> type]
Emit(t, type)  == events' = events \cup {Event(t, type)}

\* The customer confirms the payment: it is declined, accepted for processing
\* (a bank debit) or goes through.
Pay(t) ==
  /\ intent[t] = "open"
  /\ \E outcome \in {"open", "processing", "succeeded"} :
       /\ intent' = [intent EXCEPT ![t] = outcome]
       /\ Emit(t, IF outcome = "open" THEN "failed" ELSE outcome)
  /\ UNCHANGED <<topup, credited, balance, rule, card, attempt, incidents, month>>

\* A payment in processing is settled or returned; a customer may try again.
Clears(t) ==
  /\ intent[t] = "processing"
  /\ \/ intent' = [intent EXCEPT ![t] = "succeeded"] /\ Emit(t, "succeeded")
     \/ /\ intent' = [intent EXCEPT ![t] = IF IsAuto(t) THEN "failed" ELSE "open"]
        /\ Emit(t, "failed")
  /\ UNCHANGED <<topup, credited, balance, rule, card, attempt, incidents, month>>

Spend ==
  /\ balance > 0
  /\ balance' = balance - 1
  /\ UNCHANGED <<topup, intent, events, credited, rule, card, attempt, incidents, month>>

Incident(kind) ==
  kind \in Incidents /\ incidents < MaxIncidents /\ incidents' = incidents + 1

NoAttemptUnderWay == \A r \in Replicas : attempt[r].at \in {"idle", "claim"}

\* SetAutoRecharge: switching on needs a card and starts from a clean slate,
\* without the claim of an attempt under way.
SetAutoRecharge(on) ==
  /\ Incident("rule")
  /\ on => card
  /\ on /\ ~rule.enabled => SlowAttempts \/ NoAttemptUnderWay
  /\ rule' = IF on /\ ~rule.enabled
               THEN [enabled |-> TRUE, failures |-> 0, due |-> TRUE]
               ELSE [rule EXCEPT !.enabled = on]
  /\ UNCHANGED <<topup, intent, events, credited, balance, card, attempt, month>>

\* The card is removed, and then DisableAutoRechargeIfNoCard, best effort.
RemoveCard ==
  /\ Incident("card")
  /\ card
  /\ card' = FALSE
  /\ rule' \in {rule, IF rule.enabled THEN [rule EXCEPT !.enabled = FALSE, !.due = TRUE] ELSE rule}
  /\ UNCHANGED <<topup, intent, events, credited, balance, attempt, month>>

AddCard ==
  /\ ~card
  /\ card' = TRUE
  /\ UNCHANGED <<topup, intent, events, credited, balance, rule, attempt, incidents, month>>

-----------------------------------------------------------------------------
(* The recharge loop. *)

At(r, where) == attempt[r].at = where
SetAttempt(r, a) == attempt' = [attempt EXCEPT ![r] = a]
GoOn(r, where)   == SetAttempt(r, [attempt[r] EXCEPT !.at = where])
Stop(r)          == SetAttempt(r, NoAttempt)

\* Sweep
Sweep(r) ==
  /\ At(r, "idle")
  /\ rule.enabled /\ rule.due /\ balance < Threshold
  /\ SetAttempt(r, [at |-> "claim"])
  /\ UNCHANGED <<topup, intent, events, credited, balance, rule, card, incidents, month>>

\* Mutant of Claim: the account is not reserved.
ClaimUnreserved(r) ==
  /\ At(r, "claim")
  /\ IF rule.enabled /\ rule.due
       THEN SetAttempt(r, [at |-> "balance", failures |-> rule.failures])
       ELSE Stop(r)
  /\ UNCHANGED <<topup, intent, events, credited, balance, rule, card, incidents, month>>

\* claim
Claim(r) ==
  /\ At(r, "claim")
  /\ IF rule.enabled /\ rule.due
       THEN /\ SetAttempt(r, [at |-> "balance", failures |-> rule.failures])
            /\ rule' = [rule EXCEPT !.due = FALSE]
       ELSE Stop(r) /\ UNCHANGED rule
  /\ UNCHANGED <<topup, intent, events, credited, balance, card, incidents, month>>

\* The balance may have been topped up since the sweep looked.
ReadBalance(r) ==
  /\ At(r, "balance")
  /\ IF balance >= Threshold
       THEN Stop(r) /\ rule' = [rule EXCEPT !.due = TRUE]
       ELSE GoOn(r, "inflight") /\ UNCHANGED rule
  /\ UNCHANGED <<topup, intent, events, credited, balance, card, incidents, month>>

\* Mutant of InFlight: a charge never settled counts for ever.
InFlightForEver(t) == IsAuto(t) /\ topup[t].status \in Unsettled

\* A charge that has not settled within autoInflightWindow is given up on.
InFlight(t) == IsAuto(t) /\ topup[t].status \in Unsettled /\ topup[t].fresh

CheckInFlight(r) ==
  /\ At(r, "inflight")
  /\ IF \E t \in Ids : InFlight(t) THEN Stop(r) ELSE GoOn(r, "cap")
  /\ UNCHANGED <<topup, intent, events, credited, balance, rule, card, incidents, month>>

\* autoRechargeSpent
Spent(m) ==
  Cardinality({t \in Ids : /\ IsAuto(t) /\ topup[t].month = m
                           /\ topup[t].status \in Unsettled \cup {"succeeded"}})

CheckCap(r) ==
  /\ At(r, "cap")
  /\ IF Spent(month) + 1 > Cap THEN Stop(r) ELSE GoOn(r, "card")
  /\ UNCHANGED <<topup, intent, events, credited, balance, rule, card, incidents, month>>

\* Without a card the rule is switched off.
CheckCard(r) ==
  /\ At(r, "card")
  /\ IF card
       THEN GoOn(r, "insert") /\ UNCHANGED rule
       ELSE Stop(r) /\ rule' = [rule EXCEPT !.enabled = FALSE, !.due = TRUE]
  /\ UNCHANGED <<topup, intent, events, credited, balance, card, incidents, month>>

\* The top-up is recorded before the card is charged.
InsertTopUp(r, t) ==
  /\ At(r, "insert")
  /\ NextId(t)
  /\ topup' = [topup EXCEPT ![t] = Row("auto")]
  /\ SetAttempt(r, [at |-> "charge", failures |-> attempt[r].failures, topup |-> t])
  /\ UNCHANGED <<intent, events, credited, balance, rule, card, incidents, month>>

Charged(r, ok, pi) ==
  SetAttempt(r, [at |-> "record", failures |-> attempt[r].failures,
                 topup |-> attempt[r].topup, ok |-> ok, pi |-> pi])

\* CreateAutoTopUpPaymentIntent: charged, declined, or refused without an
\* intent; or charged, and the answer lost.
ChargeCard(r) ==
  /\ At(r, "charge")
  /\ LET t == attempt[r].topup
     IN  \/ \E outcome \in {"processing", "succeeded"} :
              /\ intent' = [intent EXCEPT ![t] = outcome]
              /\ Emit(t, outcome)
              /\ Charged(r, TRUE, TRUE)
         \/ /\ intent' = [intent EXCEPT ![t] = "failed"]
            /\ Emit(t, "failed")
            /\ Charged(r, FALSE, TRUE)
         \/ \E outcome \in IF UnknownOutcomes THEN {"none", "succeeded"} ELSE {"none"} :
              /\ intent' = [intent EXCEPT ![t] = outcome]
              /\ IF outcome = "none" THEN UNCHANGED events ELSE Emit(t, outcome)
              /\ Charged(r, FALSE, FALSE)
  /\ UNCHANGED <<topup, credited, balance, rule, card, incidents, month>>

RecordIntent(r) ==
  /\ At(r, "record")
  /\ topup' = IF attempt[r].pi THEN [topup EXCEPT ![attempt[r].topup].pi = TRUE] ELSE topup
  /\ GoOn(r, "result")
  /\ UNCHANGED <<intent, events, credited, balance, rule, card, incidents, month>>

\* A top-up that succeeded is never failed.
Failed(t) == IF topup[t].status = "succeeded" THEN UNCHANGED topup ELSE SetStatus(t, "failed")

\* failed: back off, or switch the rule off.
AfterFailure(n) ==
  IF n >= MaxAutoFailures
    THEN [enabled |-> FALSE, failures |-> n, due |-> TRUE]
    ELSE [rule EXCEPT !.failures = n, !.due = FALSE]

Result(r) ==
  /\ At(r, "result")
  /\ Stop(r)
  /\ IF attempt[r].ok
       THEN rule' = [rule EXCEPT !.failures = 0] /\ UNCHANGED topup
       ELSE rule' = AfterFailure(attempt[r].failures + 1) /\ Failed(attempt[r].topup)
  /\ UNCHANGED <<intent, events, credited, balance, card, incidents, month>>

AttemptStep(r) ==
  \/ Sweep(r) \/ Claim(r) \/ ReadBalance(r) \/ CheckInFlight(r) \/ CheckCap(r)
  \/ CheckCard(r) \/ (\E t \in Ids : InsertTopUp(r, t)) \/ ChargeCard(r)
  \/ RecordIntent(r) \/ Result(r)

\* A statement fails, or the process dies; a failure may be recorded in the
\* top-up and not in the rule.
Abandon(r) ==
  /\ ~At(r, "idle")
  /\ At(r, "record") => UnrecordedIntents
  /\ Incident("crash")
  /\ Stop(r)
  /\ \/ UNCHANGED topup
     \/ At(r, "result") /\ ~attempt[r].ok /\ Failed(attempt[r].topup)
  /\ UNCHANGED <<intent, events, credited, balance, rule, card, month>>

-----------------------------------------------------------------------------
(* Webhooks: at least once, in any order. *)

Acked(e) == events' = events \ {e}

\* Mutant of Settle: a payment intent confirmed twice is credited twice.
SettleAgain(t) ==
  /\ SetStatus(t, "succeeded")
  /\ credited' = [credited EXCEPT ![t] = @ + 1]
  /\ balance' = balance + 1

\* Mutant of Settle: only a top-up still unsettled is credited.
SettleUnsettled(t) ==
  IF Known(t) /\ topup[t].status \in Unsettled
    THEN /\ SetStatus(t, "succeeded")
         /\ credited' = [credited EXCEPT ![t] = @ + 1]
         /\ balance' = balance + 1
    ELSE UNCHANGED <<topup, credited, balance>>

\* SettleTopUpByPaymentIntent, one transaction under the row's lock; a top-up
\* that is not found is acknowledged.
Settle(t) ==
  IF Known(t) /\ topup[t].status # "succeeded"
    THEN /\ SetStatus(t, "succeeded")
         /\ credited' = [credited EXCEPT ![t] = @ + 1]
         /\ balance' = balance + 1
    ELSE UNCHANGED <<topup, credited, balance>>

\* MarkTopUpProcessing
Processing(t) ==
  IF Known(t) /\ topup[t].status \in {"pending", "failed"}
    THEN SetStatus(t, "processing") ELSE UNCHANGED topup

\* FailTopUpByPaymentIntent
PaymentFailed(t) == IF Known(t) THEN Failed(t) ELSE UNCHANGED topup

\* The charge that e tells of is still to be recorded by its replica.
BeingRecorded(t) ==
  \E r \in Replicas : At(r, "record") /\ attempt[r].topup = t

Webhook(e) ==
  /\ e \in events
  /\ BeingRecorded(e.topup) => UnrecordedIntents
  /\ CASE e.type = "succeeded"  -> Settle(e.topup)
       [] e.type = "processing" -> Processing(e.topup) /\ UNCHANGED <<credited, balance>>
       [] e.type = "failed"     -> PaymentFailed(e.topup) /\ UNCHANGED <<credited, balance>>
  /\ UNCHANGED <<intent, rule, card, attempt, incidents, month>>

\* The answer is lost or too late: Stripe will send the event again.
WebhookAgain(e) == Webhook(e) /\ UNCHANGED events

WebhookDone(e) == Webhook(e) /\ Acked(e)

-----------------------------------------------------------------------------
(* Time. *)

\* The claim or the backoff is over.
BecomesDue ==
  /\ ~rule.due
  /\ SlowAttempts \/ NoAttemptUnderWay
  /\ rule' = [rule EXCEPT !.due = TRUE]
  /\ UNCHANGED <<topup, intent, events, credited, balance, card, attempt, incidents, month>>

\* autoInflightWindow has passed.
Ages(t) ==
  /\ InFlight(t)
  /\ NoAttemptUnderWay
  /\ topup' = [topup EXCEPT ![t].fresh = FALSE]
  /\ UNCHANGED <<intent, events, credited, balance, rule, card, attempt, incidents, month>>

NextMonth ==
  /\ month < MaxMonth
  /\ Incident("month")
  /\ month' = month + 1
  /\ UNCHANGED <<topup, intent, events, credited, balance, rule, card, attempt>>

-----------------------------------------------------------------------------
Next ==
  \/ \E t \in Ids : CreateTopUp(t) \/ Pay(t) \/ Clears(t) \/ Ages(t)
  \/ Spend
  \/ \E on \in BOOLEAN : SetAutoRecharge(on)
  \/ RemoveCard \/ AddCard
  \/ \E r \in Replicas : AttemptStep(r) \/ Abandon(r)
  \/ \E e \in events : WebhookAgain(e) \/ WebhookDone(e)
  \/ BecomesDue \/ NextMonth

Spec == Init /\ [][Next]_vars

\* The loop ticks and its statements return, waits end, and Stripe goes on
\* sending the news of a payment until it is acknowledged.
Fairness ==
  /\ \A r \in Replicas : WF_vars(AttemptStep(r))
  /\ WF_vars(BecomesDue)
  /\ \A t \in Ids : SF_vars(Ages(t)) /\ WF_vars(WebhookDone(Event(t, "succeeded")))

FairSpec == Spec /\ Fairness

-----------------------------------------------------------------------------
(* What should hold. *)

TopUpRow == [source : {"manual", "auto"},
             status : {"pending", "processing", "succeeded", "failed"},
             pi : BOOLEAN, month : 1 .. MaxMonth, fresh : BOOLEAN]

Rule == [enabled : BOOLEAN, failures : 0 .. MaxAutoFailures, due : BOOLEAN]

\* What an attempt may have seen of failures: three switch the rule off.
Failures == 0 .. MaxAutoFailures - 1

Attempt ==
  [at : {"idle", "claim"}]
  \cup [at : {"balance", "inflight", "cap", "card", "insert"}, failures : Failures]
  \cup [at : {"charge"}, failures : Failures, topup : Ids]
  \cup [at : {"record", "result"}, failures : Failures, topup : Ids, ok : BOOLEAN, pi : BOOLEAN]

\* The type invariant.
TypeOK ==
  /\ topup \in [Ids -> TopUpRow \cup {NoTopUp}]
  /\ intent \in [Ids -> {"none", "open", "processing", "succeeded", "failed"}]
  /\ events \subseteq [topup : Ids, type : {"succeeded", "processing", "failed"}]
  /\ credited \in [Ids -> Nat]
  /\ balance \in Nat
  /\ rule \in Rule
  /\ card \in BOOLEAN
  /\ attempt \in [Replicas -> Attempt]
  /\ incidents \in 0 .. MaxIncidents
  /\ month \in 1 .. MaxMonth

\* Credit is added only for a payment that went through, once, and exactly for
\* the top-ups that say so, however often and in whatever order the webhooks
\* come (topups.go:261-270).
CreditMatchesPayment == \A t \in Ids :
  /\ credited[t] = IF topup[t].status = "succeeded" THEN 1 ELSE 0
  /\ credited[t] > 0 => intent[t] = "succeeded"

\* A top-up that succeeded stays so: no late failure, no charge attempt that
\* took its charge for declined and no reordered webhook downgrades it
\* (topups.go:225-228, 157-159).
SucceededIsFinal ==
  [][\A t \in Ids : topup[t].status = "succeeded" => topup'[t].status = "succeeded"]_vars

\* The rule never has two charges in progress (autorecharge.go:36-43, 420-424).
OneChargeInFlight ==
  Cardinality({t \in Ids : /\ IsAuto(t) /\ topup[t].fresh /\ credited[t] = 0
                           /\ intent[t] \in {"processing", "succeeded"}}) <= 1

\* What the rule has charged in a month, settled or not, stays within the cap
\* the customer agreed to (autorecharge.go:104-117, 437-451).
CapRespected == \A m \in 1 .. MaxMonth :
  Cardinality({t \in Ids : /\ IsAuto(t) /\ topup[t].month = m
                           /\ intent[t] \in {"processing", "succeeded"}}) <= Cap

\* Both are what a customer's rule promises, whichever replicas carry it out.
RuleObeyed == OneChargeInFlight /\ CapRespected

\* A rule that is on has not failed three times in a row (autorecharge.go:21-22,
\* 556-566), whatever the customer edits meanwhile.
OnlyFewFailures == rule.enabled => rule.failures < MaxAutoFailures

\* Every payment that goes through is credited (webhook_handlers.go:181-187).
PaidIsCredited == \A t \in Ids : intent[t] = "succeeded" ~> credited[t] > 0

CapRoom == Spent(month) < Cap /\ \E t \in Ids : ~Made(t)

Wanted == rule.enabled /\ card /\ balance < Threshold /\ CapRoom

\* An account below its threshold is charged, unless the rule, the card or the
\* cap forbid it: no claim, backoff or unsettled charge blocks it for ever
\* (autorecharge.go:340-378).
LowBalanceRecharged ==
  Wanted ~> (~Wanted \/ \E r \in Replicas : At(r, "charge"))
=============================================================================
