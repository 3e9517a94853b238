---------------------------- MODULE TopUpsProofs ----------------------------
(***************************************************************************)
(* Proofs about buying credit, for any number of top-ups and replicas and  *)
(* whatever the switches SlowAttempts, UnrecordedIntents and               *)
(* UnknownOutcomes allow: credit is added for payments only and stays.     *)
(* The last two theorems, one charge at a time and the cap, assume that    *)
(* SlowAttempts and UnknownOutcomes are off.                               *)
(***************************************************************************)
EXTENDS TopUps, FiniteSetTheorems, TLAPS

-----------------------------------------------------------------------------
(***************************************************************************)
(* The inductive invariant.                                                *)
(***************************************************************************)
HasTopUp(r) == attempt[r].at \in {"charge", "record", "result"}

\* Every charge is made for a top-up of its own, not charged before.
ChargesApart ==
  /\ \A r \in Replicas : HasTopUp(r) => Made(attempt[r].topup)
  /\ \A r, s \in Replicas :
       At(r, "charge") /\ At(s, "charge") /\ attempt[r].topup = attempt[s].topup => r = s
  /\ \A r \in Replicas : At(r, "charge") => intent[attempt[r].topup] = "none"

\* Intents are made for top-ups, and a success is only told of a payment that
\* went through.
EventsTrue ==
  /\ \A t \in Ids : intent[t] # "none" => Made(t)
  /\ \A e \in events : Made(e.topup)
  /\ \A e \in events : e.type = "succeeded" => intent[e.topup] = "succeeded"

TopUpsInv ==
  /\ TypeOK
  /\ OnlyFewFailures
  /\ ChargesApart
  /\ EventsTrue
  /\ CreditMatchesPayment

-----------------------------------------------------------------------------
(***************************************************************************)
(* Lemmas about attempts and rows.                                         *)
(***************************************************************************)
LEMMA AttemptParts ==
  ASSUME TypeOK, NEW r \in Replicas
  PROVE  /\ At(r, "balance") => attempt[r].failures \in Failures
         /\ attempt[r].at \in {"inflight", "cap", "card", "insert"} =>
              /\ attempt[r].failures \in Failures
              /\ attempt[r] = [at |-> attempt[r].at, failures |-> attempt[r].failures]
         /\ HasTopUp(r) => attempt[r].failures \in Failures /\ attempt[r].topup \in Ids
         /\ attempt[r].at \in {"record", "result"} =>
              /\ attempt[r].ok \in BOOLEAN /\ attempt[r].pi \in BOOLEAN
              /\ attempt[r] = [at |-> attempt[r].at, failures |-> attempt[r].failures,
                               topup |-> attempt[r].topup, ok |-> attempt[r].ok,
                               pi |-> attempt[r].pi]
<1>1. attempt[r] \in Attempt
  BY DEF TypeOK
<1>2. QED
  BY <1>1 DEF Attempt, At, HasTopUp

LEMMA AttemptKept ==
  ASSUME TypeOK, NEW r \in Replicas, NEW a \in Attempt, SetAttempt(r, a)
  PROVE  /\ attempt' \in [Replicas -> Attempt]
         /\ attempt'[r] = a
         /\ \A s \in Replicas : s # r => attempt'[s] = attempt[s]
BY DEF TypeOK, SetAttempt

\* A step of r's attempt that does not lead to its charge, while the charges
\* that others are about to make stay unmade.
LEMMA ChargesKept ==
  ASSUME TypeOK, ChargesApart, NEW r \in Replicas, NEW a \in Attempt, SetAttempt(r, a),
         a.at # "charge",
         a.at \in {"record", "result"} => a.topup \in Ids /\ Made(a.topup),
         \A u \in Ids : Made(u) => Made(u)',
         \A s \in Replicas :
           s # r /\ At(s, "charge") => intent'[attempt[s].topup] = intent[attempt[s].topup]
  PROVE  ChargesApart'
<1>1. \A s \in Replicas : HasTopUp(s) => attempt[s].topup \in Ids
  BY AttemptParts
<1>2. \A s \in Replicas : HasTopUp(s)' => Made(attempt[s].topup)'
  BY <1>1, AttemptKept DEF ChargesApart, HasTopUp
<1>3. \A s \in Replicas : At(s, "charge")' => s # r /\ At(s, "charge") /\ attempt'[s] = attempt[s]
  BY AttemptKept DEF At
<1>4. QED
  BY <1>2, <1>3 DEF ChargesApart

\* A row replaces a row.
LEMMA RowKept ==
  ASSUME TypeOK, NEW t \in Ids, NEW row \in TopUpRow, topup' = [topup EXCEPT ![t] = row]
  PROVE  /\ topup' \in [Ids -> TopUpRow \cup {NoTopUp}]
         /\ topup'[t] = row
         /\ \A u \in Ids : u # t => topup'[u] = topup[u]
         /\ \A u \in Ids : Made(u) => Made(u)'
         /\ Made(t)'
<1>1. \A x \in TopUpRow : x # NoTopUp
  BY DEF TopUpRow, NoTopUp
<1>2. QED
  BY <1>1 DEF TypeOK, Made

\* No top-up is lost, and none succeeds or ceases to have succeeded.
SuccessesKept ==
  /\ topup' \in [Ids -> TopUpRow \cup {NoTopUp}]
  /\ \A u \in Ids : Made(u) => Made(u)'
  /\ \A u \in Ids : topup'[u].status = "succeeded" <=> topup[u].status = "succeeded"

Stays == \A u \in Ids : topup[u].status = "succeeded" => topup'[u].status = "succeeded"

LEMMA Unchanged == ASSUME TypeOK, UNCHANGED topup PROVE SuccessesKept /\ Stays
BY DEF TypeOK, SuccessesKept, Stays, Made

\* A top-up's row stays a row when its status changes.
LEMMA StatusKept ==
  ASSUME TypeOK, NEW t \in Ids, Made(t),
         NEW s \in {"pending", "processing", "succeeded", "failed"}, SetStatus(t, s)
  PROVE  /\ topup' \in [Ids -> TopUpRow \cup {NoTopUp}]
         /\ topup'[t].status = s
         /\ \A u \in Ids : u # t => topup'[u] = topup[u]
         /\ \A u \in Ids : Made(u) => Made(u)'
<1> DEFINE x == topup[t]
           row == [x EXCEPT !.status = s]
<1>1. x \in TopUpRow
  BY DEF TypeOK, Made
<1>2. row \in TopUpRow /\ row.status = s
  BY <1>1 DEF TopUpRow
<1>3. topup' = [topup EXCEPT ![t] = row]
  BY DEF SetStatus
<1> HIDE DEF row
<1>4. QED
  BY <1>2, <1>3, RowKept

\* What is failed or marked has not succeeded.
LEMMA FailedKept ==
  ASSUME TypeOK, NEW t \in Ids, Made(t), Failed(t) \/ Processing(t)
  PROVE  SuccessesKept
<1>1. CASE UNCHANGED topup
  BY <1>1, Unchanged
<1>2. ASSUME NEW s \in {"failed", "processing"}, SetStatus(t, s), topup[t].status # "succeeded"
      PROVE  SuccessesKept
  <2>1. topup'[t].status # "succeeded"
    BY <1>2, StatusKept
  <2>2. QED
    BY <1>2, <2>1, StatusKept DEF SuccessesKept
<1>3. QED
  BY <1>1, <1>2 DEF Failed, Processing

\* What the changes to the rule make of it.
LEMMA RuleParts ==
  ASSUME NEW x \in Rule
  PROVE  /\ x.enabled \in BOOLEAN /\ x.failures \in 0 .. MaxAutoFailures /\ x.due \in BOOLEAN
         /\ \A on \in BOOLEAN : /\ [x EXCEPT !.enabled = on] \in Rule
                                /\ [x EXCEPT !.enabled = on].enabled = on
                                /\ [x EXCEPT !.enabled = on].failures = x.failures
         /\ \A on \in BOOLEAN : /\ [x EXCEPT !.due = on] \in Rule
                                /\ [x EXCEPT !.due = on].enabled = x.enabled
                                /\ [x EXCEPT !.due = on].failures = x.failures
         /\ \A n \in 0 .. MaxAutoFailures : /\ [x EXCEPT !.failures = n] \in Rule
                                /\ [x EXCEPT !.failures = n].enabled = x.enabled
                                /\ [x EXCEPT !.failures = n].failures = n
<1>1. /\ x.enabled \in BOOLEAN /\ x.failures \in 0 .. MaxAutoFailures /\ x.due \in BOOLEAN
      /\ x = [enabled |-> x.enabled, failures |-> x.failures, due |-> x.due]
  BY DEF Rule
<1>2. QED
  BY <1>1 DEF Rule

LEMMA InitHolds == Init => TopUpsInv
<1> SUFFICES ASSUME Init PROVE TopUpsInv
  OBVIOUS
<1>0. MaxAutoFailures \in Nat \ {0} /\ MaxMonth \in Nat \ {0} /\ MaxIncidents \in Nat
  BY TopUpsAssumption
<1>1. attempt \in [Replicas -> Attempt]
  <2>1. NoAttempt \in Attempt
    BY DEF NoAttempt, Attempt
  <2>2. QED
    BY <2>1 DEF Init
<1>2. TypeOK
  <2>1. topup \in [Ids -> TopUpRow \cup {NoTopUp}]
    BY DEF Init
  <2>2. rule \in Rule
    <3>1. PICK on \in BOOLEAN : rule = [enabled |-> on, failures |-> 0, due |-> TRUE]
      BY DEF Init
    <3>2. QED
      BY <1>0, <3>1 DEF Rule
  <2>3. incidents \in 0 .. MaxIncidents /\ month \in 1 .. MaxMonth /\ balance \in Nat
    BY <1>0 DEF Init
  <2>4. QED
    BY <1>1, <2>1, <2>2, <2>3 DEF TypeOK, Init
<1>3. OnlyFewFailures
  BY <1>0 DEF OnlyFewFailures, Init
<1>4. ChargesApart
  BY DEF ChargesApart, HasTopUp, At, NoAttempt, Init
<1>5. EventsTrue
  BY DEF EventsTrue, Init
<1>6. CreditMatchesPayment
  BY DEF CreditMatchesPayment, NoTopUp, Init
<1>7. QED
  BY <1>2, <1>3, <1>4, <1>5, <1>6 DEF TopUpsInv

-----------------------------------------------------------------------------
(***************************************************************************)
(* Steps that leave top-ups, payments and credit alone.                    *)
(***************************************************************************)
LEMMA Untouched ==
  ASSUME TopUpsInv, SuccessesKept, UNCHANGED <<intent, credited>>, events' \subseteq events
  PROVE  EventsTrue' /\ CreditMatchesPayment'
<1>1. /\ \A t \in Ids : intent[t] # "none" => Made(t)
      /\ \A e \in events : e.topup \in Ids /\ Made(e.topup)
      /\ \A e \in events : e.type = "succeeded" => intent[e.topup] = "succeeded"
  BY DEF TopUpsInv, TypeOK, EventsTrue
<1>2. EventsTrue'
  BY <1>1 DEF EventsTrue, SuccessesKept
<1>3. CreditMatchesPayment'
  BY DEF TopUpsInv, CreditMatchesPayment, SuccessesKept
<1>4. QED
  BY <1>2, <1>3

\* The rule, the card and time do not concern attempts.
LEMMA OthersUntouched ==
  ASSUME TopUpsInv, UNCHANGED <<intent, attempt>>, \A u \in Ids : Made(u) => Made(u)'
  PROVE  ChargesApart'
<1>1. \A s \in Replicas : HasTopUp(s) => attempt[s].topup \in Ids
  BY AttemptParts DEF TopUpsInv
<1>2. QED
  BY <1>1 DEF TopUpsInv, ChargesApart, HasTopUp, At

LEMMA SurroundingsHold ==
  ASSUME TopUpsInv,
         \/ Spend \/ (\E on \in BOOLEAN : SetAutoRecharge(on)) \/ RemoveCard \/ AddCard
         \/ BecomesDue \/ NextMonth
  PROVE  TopUpsInv' /\ Stays
<1>0. MaxAutoFailures \in Nat \ {0} /\ MaxMonth \in Nat \ {0} /\ MaxIncidents \in Nat
  BY TopUpsAssumption
<1>1. UNCHANGED <<topup, intent, events, credited, attempt>>
  BY DEF Spend, SetAutoRecharge, RemoveCard, AddCard, BecomesDue, NextMonth
<1>2. TypeOK /\ OnlyFewFailures
  BY DEF TopUpsInv
<1>3. EventsTrue' /\ CreditMatchesPayment' /\ ChargesApart' /\ Stays
  <2>1. SuccessesKept /\ Stays
    BY <1>1, <1>2, Unchanged
  <2>2. QED
    BY <1>1, <2>1, Untouched, OthersUntouched DEF SuccessesKept
<1>4. /\ rule' \in Rule
      /\ OnlyFewFailures'
  <2>1. rule \in Rule
    BY <1>2 DEF TypeOK
  <2>2. CASE UNCHANGED rule
    BY <1>2, <2>1, <2>2 DEF OnlyFewFailures
  <2>3. ASSUME NEW on \in BOOLEAN, SetAutoRecharge(on) PROVE rule' \in Rule /\ OnlyFewFailures'
    <3>1. CASE on /\ ~rule.enabled
      BY <1>0, <2>3, <3>1 DEF SetAutoRecharge, Rule, OnlyFewFailures
    <3>2. CASE ~(on /\ ~rule.enabled)
      <4>1. rule' = [rule EXCEPT !.enabled = on]
        BY <2>3, <3>2 DEF SetAutoRecharge
      <4>2. QED
        BY <1>2, <2>1, <3>2, <4>1, RuleParts DEF OnlyFewFailures
    <3>3. QED
      BY <3>1, <3>2
  <2>4. CASE RemoveCard
    <3> DEFINE off == [rule EXCEPT !.enabled = FALSE]
    <3>1. rule' = rule \/ rule' = [off EXCEPT !.due = TRUE]
      BY <2>4, <2>1 DEF RemoveCard, Rule
    <3>2. off \in Rule /\ off.enabled = FALSE
      BY <2>1, RuleParts
    <3>3. [off EXCEPT !.due = TRUE] \in Rule /\ [off EXCEPT !.due = TRUE].enabled = FALSE
      BY <3>2, RuleParts
    <3>4. QED
      BY <2>2, <3>1, <3>3 DEF OnlyFewFailures
  <2>5. CASE BecomesDue
    BY <1>2, <2>1, <2>5, RuleParts DEF BecomesDue, OnlyFewFailures
  <2>6. QED
    BY <2>2, <2>3, <2>4, <2>5 DEF Spend, AddCard, NextMonth
<1>5. balance' \in Nat /\ card' \in BOOLEAN
  <2>1. balance \in Nat /\ card \in BOOLEAN
    BY <1>2 DEF TypeOK
  <2>2. CASE Spend
    BY <2>1, <2>2 DEF Spend
  <2>3. CASE ~Spend
    BY <2>1, <2>3 DEF SetAutoRecharge, RemoveCard, AddCard, BecomesDue, NextMonth
  <2>4. QED
    BY <2>2, <2>3
<1>6. incidents' \in 0 .. MaxIncidents /\ month' \in 1 .. MaxMonth
  BY <1>0, <1>2
     DEF TypeOK, Spend, SetAutoRecharge, RemoveCard, AddCard, BecomesDue, NextMonth, Incident
<1>7. TypeOK'
  BY <1>1, <1>2, <1>4, <1>5, <1>6 DEF TypeOK
<1>8. QED
  BY <1>3, <1>4, <1>7 DEF TopUpsInv

\* The steps of an attempt before its top-up is recorded.
LEMMA EarlyStepsHold ==
  ASSUME TopUpsInv, NEW r \in Replicas,
         \/ Sweep(r) \/ Claim(r) \/ ReadBalance(r) \/ CheckInFlight(r) \/ CheckCap(r)
         \/ CheckCard(r)
  PROVE  TopUpsInv' /\ Stays
<1>0. MaxAutoFailures \in Nat \ {0}
  BY TopUpsAssumption
<1>1. UNCHANGED <<topup, intent, events, credited, balance, card, incidents, month>>
  BY DEF Sweep, Claim, ReadBalance, CheckInFlight, CheckCap, CheckCard
<1>2. TypeOK /\ OnlyFewFailures /\ ChargesApart
  BY DEF TopUpsInv
<1>3. /\ rule' \in Rule
      /\ OnlyFewFailures'
  <2>1. rule \in Rule
    BY <1>2 DEF TypeOK
  <2>2. CASE UNCHANGED rule
    BY <1>2, <2>1, <2>2 DEF OnlyFewFailures
  <2>3. CASE \E due \in BOOLEAN : rule' = [rule EXCEPT !.due = due]
    BY <1>2, <2>1, <2>3, RuleParts DEF OnlyFewFailures
  <2>4. CASE rule' = [rule EXCEPT !.enabled = FALSE, !.due = TRUE]
    <3> DEFINE off == [rule EXCEPT !.enabled = FALSE]
    <3>1. off \in Rule /\ off.enabled = FALSE
      BY <2>1, RuleParts
    <3>2. [off EXCEPT !.due = TRUE] \in Rule /\ [off EXCEPT !.due = TRUE].enabled = FALSE
      BY <3>1, RuleParts
    <3>3. rule' = [off EXCEPT !.due = TRUE]
      BY <2>1, <2>4 DEF Rule
    <3>4. QED
      BY <3>2, <3>3 DEF OnlyFewFailures
  <2>5. QED
    BY <2>2, <2>3, <2>4 DEF Sweep, Claim, ReadBalance, CheckInFlight, CheckCap, CheckCard
<1>4. NoAttempt \in Attempt /\ NoAttempt.at = "idle"
  BY DEF NoAttempt, Attempt
<1>5. \E a \in Attempt : SetAttempt(r, a) /\ a.at \notin {"charge", "record", "result"}
  <2>1. CASE Sweep(r)
    BY <2>1 DEF Sweep, Attempt
  <2>2. CASE Claim(r)
    <3>1. rule.enabled => rule.failures \in Failures
      BY <1>0, <1>2, RuleParts DEF TypeOK, OnlyFewFailures, Failures
    <3> DEFINE a == [at |-> "balance", failures |-> rule.failures]
    <3>2. rule.enabled => a \in Attempt /\ a.at = "balance"
      BY <3>1 DEF Attempt
    <3>3. QED
      BY <2>2, <3>2, <1>4 DEF Claim, Stop
  <2>3. CASE ReadBalance(r)
    <3>1. attempt[r].failures \in Failures
      BY <2>3, <1>2, AttemptParts DEF ReadBalance
    <3> DEFINE a == [attempt[r] EXCEPT !.at = "inflight"]
    <3>2. attempt[r] = [at |-> "balance", failures |-> attempt[r].failures]
      BY <2>3, <1>2 DEF ReadBalance, At, TypeOK, Attempt
    <3>3. a \in Attempt /\ a.at = "inflight"
      BY <3>1, <3>2 DEF Attempt
    <3>4. QED
      BY <2>3, <3>3, <1>4 DEF ReadBalance, GoOn, Stop
  <2>4. CASE CheckInFlight(r) \/ CheckCap(r) \/ CheckCard(r)
    <3>1. attempt[r].at \in {"inflight", "cap", "card", "insert"}
      BY <2>4 DEF CheckInFlight, CheckCap, CheckCard, At
    <3> DEFINE x == attempt[r]
    <3>2. x.failures \in Failures /\ x = [at |-> x.at, failures |-> x.failures]
      BY <3>1, <1>2, AttemptParts
    <3>3. \A where \in {"cap", "card", "insert"} :
            [x EXCEPT !.at = where] \in Attempt /\ [x EXCEPT !.at = where].at = where
      BY <3>2 DEF Attempt
    <3>4. QED
      BY <2>4, <3>3, <1>4 DEF CheckInFlight, CheckCap, CheckCard, GoOn, Stop
  <2>5. QED
    BY <2>1, <2>2, <2>3, <2>4
<1>6. PICK a \in Attempt : SetAttempt(r, a) /\ a.at \notin {"charge", "record", "result"}
  BY <1>5
<1>7. attempt' \in [Replicas -> Attempt]
  BY <1>2, <1>6, AttemptKept
<1>8. ChargesApart' /\ SuccessesKept /\ Stays
  <2>1. SuccessesKept /\ Stays
    BY <1>1, <1>2, Unchanged
  <2>2. QED
    BY <1>1, <1>2, <1>6, <2>1, ChargesKept DEF SuccessesKept
<1>9. TypeOK'
  BY <1>1, <1>2, <1>3, <1>7 DEF TypeOK
<1>10. QED
  BY <1>1, <1>3, <1>8, <1>9, Untouched DEF TopUpsInv

-----------------------------------------------------------------------------
(***************************************************************************)
(* New top-ups and payments.                                               *)
(***************************************************************************)

\* A row for a top-up that has not been made.
LEMMA RowMade ==
  ASSUME TopUpsInv, NEW t \in Ids, ~Made(t), NEW row \in TopUpRow,
         topup' = [topup EXCEPT ![t] = row], row.status # "succeeded"
  PROVE  /\ SuccessesKept /\ Stays
         /\ Made(t)'
         /\ intent[t] = "none"
         /\ \A e \in events : e.topup # t
         /\ \A r \in Replicas : HasTopUp(r) => attempt[r].topup # t
<1>1. /\ topup' \in [Ids -> TopUpRow \cup {NoTopUp}] /\ topup'[t] = row
      /\ \A u \in Ids : u # t => topup'[u] = topup[u]
      /\ \A u \in Ids : Made(u) => Made(u)'
      /\ Made(t)'
  BY RowKept DEF TopUpsInv
<1>2. topup[t].status # "succeeded"
  BY DEF Made, NoTopUp
<1>3. SuccessesKept /\ Stays
  BY <1>1, <1>2 DEF SuccessesKept, Stays
<1>4. /\ intent[t] = "none"
      /\ \A e \in events : e.topup # t
      /\ \A r \in Replicas : HasTopUp(r) => attempt[r].topup # t
  BY DEF TopUpsInv, EventsTrue, ChargesApart
<1>5. QED
  BY <1>1, <1>3, <1>4

LEMMA CreateTopUpHolds ==
  ASSUME TopUpsInv, NEW t \in Ids, CreateTopUp(t)
  PROVE  TopUpsInv' /\ Stays
<1>0. MaxMonth \in Nat \ {0}
  BY TopUpsAssumption
<1>1. TypeOK
  BY DEF TopUpsInv
<1>2. PICK row \in TopUpRow :
        /\ topup' = [topup EXCEPT ![t] = row] /\ row.status # "succeeded"
        /\ intent' = [intent EXCEPT ![t] = IF row.pi THEN "open" ELSE "none"]
  <2>1. PICK row \in [source : {"manual"}, status : {"pending", "failed"}, pi : BOOLEAN,
                      month : {month}, fresh : {TRUE}] :
          /\ topup' = [topup EXCEPT ![t] = row]
          /\ intent' = [intent EXCEPT ![t] = IF row.pi THEN "open" ELSE "none"]
    BY DEF CreateTopUp
  <2>2. row \in TopUpRow /\ row.status # "succeeded"
    BY <1>1 DEF TopUpRow, TypeOK
  <2>3. QED
    BY <2>1, <2>2
<1>3. ~Made(t) /\ UNCHANGED <<events, credited, balance, rule, card, attempt, incidents, month>>
  BY DEF CreateTopUp, NextId
<1>4. /\ SuccessesKept /\ Stays /\ Made(t)' /\ intent[t] = "none"
      /\ \A e \in events : e.topup # t
      /\ \A r \in Replicas : HasTopUp(r) => attempt[r].topup # t
  BY <1>2, <1>3, RowMade
<1>5. /\ intent' \in [Ids -> {"none", "open", "processing", "succeeded", "failed"}]
      /\ \A u \in Ids : u # t => intent'[u] = intent[u]
  BY <1>1, <1>2 DEF TypeOK
<1>6. TypeOK'
  BY <1>1, <1>3, <1>4, <1>5 DEF TypeOK, SuccessesKept
<1>7. ChargesApart'
  <2>1. \A s \in Replicas : HasTopUp(s) => attempt[s].topup \in Ids
    BY <1>1, AttemptParts
  <2>2. QED
    BY <1>3, <1>4, <1>5, <2>1 DEF TopUpsInv, ChargesApart, HasTopUp, At, SuccessesKept
<1>8. EventsTrue'
  <2>1. \A e \in events : e.topup \in Ids
    BY <1>1 DEF TypeOK
  <2>2. QED
    BY <1>3, <1>4, <1>5, <2>1 DEF TopUpsInv, EventsTrue, SuccessesKept
<1>9. CreditMatchesPayment'
  BY <1>1, <1>3, <1>4, <1>5 DEF TopUpsInv, TypeOK, CreditMatchesPayment, SuccessesKept
<1>10. QED
  BY <1>3, <1>4, <1>6, <1>7, <1>8, <1>9 DEF TopUpsInv, OnlyFewFailures

LEMMA InsertTopUpHolds ==
  ASSUME TopUpsInv, NEW r \in Replicas, NEW t \in Ids, InsertTopUp(r, t)
  PROVE  TopUpsInv' /\ Stays
<1>1. TypeOK /\ ChargesApart
  BY DEF TopUpsInv
<1>2. Row("auto") \in TopUpRow /\ Row("auto").status # "succeeded"
  BY <1>1 DEF Row, TopUpRow, TypeOK
<1>3. /\ ~Made(t) /\ topup' = [topup EXCEPT ![t] = Row("auto")] /\ At(r, "insert")
      /\ UNCHANGED <<intent, events, credited, balance, rule, card, incidents, month>>
  BY DEF InsertTopUp, NextId
<1>4. /\ SuccessesKept /\ Stays /\ Made(t)' /\ intent[t] = "none"
      /\ \A s \in Replicas : HasTopUp(s) => attempt[s].topup # t
  BY <1>2, <1>3, RowMade
<1> DEFINE a == [at |-> "charge", failures |-> attempt[r].failures, topup |-> t]
<1>5. a \in Attempt /\ a.at = "charge" /\ a.topup = t
  <2>1. attempt[r].failures \in Failures
    BY <1>1, <1>3, AttemptParts DEF At
  <2>2. QED
    BY <2>1 DEF Attempt
<1>6. SetAttempt(r, a)
  BY DEF InsertTopUp
<1> HIDE DEF a
<1>7. /\ attempt' \in [Replicas -> Attempt] /\ attempt'[r] = a
      /\ \A s \in Replicas : s # r => attempt'[s] = attempt[s]
  BY <1>1, <1>5, <1>6, AttemptKept
<1>8. TypeOK'
  BY <1>1, <1>3, <1>4, <1>7 DEF TypeOK, SuccessesKept
<1>9. ChargesApart'
  <2>1. \A s \in Replicas : HasTopUp(s) => attempt[s].topup \in Ids
    BY <1>1, AttemptParts
  <2>2. \A s \in Replicas : HasTopUp(s)' => Made(attempt[s].topup)'
    BY <1>1, <1>4, <1>5, <1>7, <2>1 DEF ChargesApart, HasTopUp, SuccessesKept
  <2>3. \A s, q \in Replicas :
          At(s, "charge")' /\ At(q, "charge")' /\ attempt'[s].topup = attempt'[q].topup => s = q
    BY <1>1, <1>4, <1>5, <1>7 DEF ChargesApart, HasTopUp, At
  <2>4. \A s \in Replicas : At(s, "charge")' => intent'[attempt'[s].topup] = "none"
    BY <1>1, <1>3, <1>4, <1>5, <1>7 DEF ChargesApart, At
  <2>5. QED
    BY <2>2, <2>3, <2>4 DEF ChargesApart
<1>10. EventsTrue' /\ CreditMatchesPayment'
  BY <1>3, <1>4, Untouched
<1>11. QED
  BY <1>3, <1>4, <1>8, <1>9, <1>10 DEF TopUpsInv, OnlyFewFailures

\* A payment that has not gone through moves on, and an event tells of it.
LEMMA PaymentMoves ==
  ASSUME TopUpsInv, NEW t \in Ids, Made(t), intent[t] # "succeeded",
         NEW now \in {"none", "open", "processing", "succeeded", "failed"},
         intent' = [intent EXCEPT ![t] = now],
         UNCHANGED <<topup, credited>>,
         \/ UNCHANGED events
         \/ \E type \in {"succeeded", "processing", "failed"} :
              Emit(t, type) /\ (type = "succeeded" => now = "succeeded")
  PROVE  /\ intent' \in [Ids -> {"none", "open", "processing", "succeeded", "failed"}]
         /\ \A u \in Ids : u # t => intent'[u] = intent[u]
         /\ events' \subseteq [topup : Ids, type : {"succeeded", "processing", "failed"}]
         /\ EventsTrue' /\ CreditMatchesPayment'
<1>1. TypeOK
  BY DEF TopUpsInv
<1>2. /\ intent' \in [Ids -> {"none", "open", "processing", "succeeded", "failed"}]
      /\ intent'[t] = now
      /\ \A u \in Ids : u # t => intent'[u] = intent[u]
  BY <1>1 DEF TypeOK
<1>3. \A e \in events : e.topup \in Ids /\ e.type \in {"succeeded", "processing", "failed"}
  BY <1>1 DEF TypeOK
<1>4. \A e \in events' : e \in events \/ /\ e.topup = t
                                         /\ e.type \in {"succeeded", "processing", "failed"}
                                         /\ e.type = "succeeded" => now = "succeeded"
  BY DEF Emit, Event
<1>5. events' \subseteq [topup : Ids, type : {"succeeded", "processing", "failed"}]
  BY <1>1 DEF TypeOK, Emit, Event
<1>6. EventsTrue'
  <2>1. \A u \in Ids : intent'[u] # "none" => Made(u)
    BY <1>2 DEF TopUpsInv, EventsTrue
  <2>2. \A e \in events' : Made(e.topup)
    BY <1>3, <1>4 DEF TopUpsInv, EventsTrue
  <2>3. \A e \in events' : e.type = "succeeded" => intent'[e.topup] = "succeeded"
    BY <1>2, <1>3, <1>4 DEF TopUpsInv, EventsTrue
  <2>4. QED
    BY <2>1, <2>2, <2>3 DEF EventsTrue, Made
<1>7. CreditMatchesPayment'
  BY <1>1, <1>2 DEF TopUpsInv, CreditMatchesPayment
<1>8. QED
  BY <1>2, <1>5, <1>6, <1>7

LEMMA PaymentHolds ==
  ASSUME TopUpsInv, NEW t \in Ids, Pay(t) \/ Clears(t)
  PROVE  TopUpsInv' /\ Stays
<1>1. TypeOK /\ ChargesApart
  BY DEF TopUpsInv
<1>2. /\ intent[t] \in {"open", "processing"}
      /\ UNCHANGED <<topup, credited, balance, rule, card, attempt, incidents, month>>
  BY DEF Pay, Clears
<1>3. Made(t)
  BY <1>2 DEF TopUpsInv, EventsTrue
<1>4. \E now \in {"open", "processing", "succeeded", "failed"},
         type \in {"succeeded", "processing", "failed"} :
        /\ intent' = [intent EXCEPT ![t] = now]
        /\ Emit(t, type) /\ (type = "succeeded" => now = "succeeded")
  BY DEF Pay, Clears
<1>5. /\ intent' \in [Ids -> {"none", "open", "processing", "succeeded", "failed"}]
      /\ \A u \in Ids : u # t => intent'[u] = intent[u]
      /\ events' \subseteq [topup : Ids, type : {"succeeded", "processing", "failed"}]
      /\ EventsTrue' /\ CreditMatchesPayment'
  BY <1>2, <1>3, <1>4, PaymentMoves
<1>6. SuccessesKept /\ Stays
  BY <1>1, <1>2, Unchanged
<1>7. TypeOK'
  BY <1>1, <1>2, <1>5 DEF TypeOK
<1>8. ChargesApart'
  <2>1. \A s \in Replicas : HasTopUp(s) => attempt[s].topup \in Ids
    BY <1>1, AttemptParts
  <2>2. \A s \in Replicas : At(s, "charge") => attempt[s].topup # t
    BY <1>1, <1>2 DEF ChargesApart
  <2>3. QED
    BY <1>1, <1>2, <1>5, <2>1, <2>2 DEF ChargesApart, HasTopUp, At, Made
<1>9. QED
  BY <1>2, <1>5, <1>6, <1>7, <1>8 DEF TopUpsInv, OnlyFewFailures

LEMMA ChargeCardHolds ==
  ASSUME TopUpsInv, NEW r \in Replicas, ChargeCard(r)
  PROVE  TopUpsInv' /\ Stays
<1> DEFINE t == attempt[r].topup
<1>1. TypeOK /\ ChargesApart
  BY DEF TopUpsInv
<1>2. /\ At(r, "charge")
      /\ UNCHANGED <<topup, credited, balance, rule, card, incidents, month>>
  BY DEF ChargeCard
<1>3. t \in Ids /\ attempt[r].failures \in Failures /\ Made(t) /\ intent[t] = "none"
  BY <1>1, <1>2, AttemptParts DEF ChargesApart, HasTopUp, At
<1>4. PICK now \in {"none", "processing", "succeeded", "failed"}, ok \in BOOLEAN, pi \in BOOLEAN :
        /\ intent' = [intent EXCEPT ![t] = now]
        /\ Charged(r, ok, pi)
        /\ \/ UNCHANGED events
           \/ \E type \in {"succeeded", "processing", "failed"} :
                Emit(t, type) /\ (type = "succeeded" => now = "succeeded")
  BY DEF ChargeCard
<1>5. /\ intent' \in [Ids -> {"none", "open", "processing", "succeeded", "failed"}]
      /\ \A u \in Ids : u # t => intent'[u] = intent[u]
      /\ events' \subseteq [topup : Ids, type : {"succeeded", "processing", "failed"}]
      /\ EventsTrue' /\ CreditMatchesPayment'
  BY <1>2, <1>3, <1>4, PaymentMoves
<1> DEFINE a == [at |-> "record", failures |-> attempt[r].failures,
                 topup |-> t, ok |-> ok, pi |-> pi]
<1>6. a \in Attempt /\ a.at = "record" /\ a.topup = t
  BY <1>3 DEF Attempt
<1>7. SetAttempt(r, a)
  BY <1>4 DEF Charged
<1>8. SuccessesKept /\ Stays
  BY <1>1, <1>2, Unchanged
<1> HIDE DEF a
<1>9. ChargesApart'
  <2>1. \A s \in Replicas : s # r /\ At(s, "charge") => attempt[s].topup \in Ids \ {t}
    BY <1>1, <1>2, AttemptParts DEF ChargesApart, HasTopUp, At
  <2>2. QED
    BY <1>1, <1>3, <1>5, <1>6, <1>7, <1>8, <2>1, ChargesKept DEF SuccessesKept
<1>10. attempt' \in [Replicas -> Attempt]
  BY <1>1, <1>6, <1>7, AttemptKept
<1>11. TypeOK'
  BY <1>1, <1>2, <1>5, <1>10 DEF TypeOK
<1>12. QED
  BY <1>2, <1>5, <1>8, <1>9, <1>11 DEF TopUpsInv, OnlyFewFailures

-----------------------------------------------------------------------------
(***************************************************************************)
(* What becomes of a charge, and webhooks.                                 *)
(***************************************************************************)

\* Marks other than the status do not matter.
LEMMA MarkKept ==
  ASSUME TypeOK, NEW t \in Ids, Made(t),
         \/ topup' = [topup EXCEPT ![t].pi = TRUE]
         \/ topup' = [topup EXCEPT ![t].fresh = FALSE]
  PROVE  SuccessesKept
<1> DEFINE x == topup[t]
<1>1. x \in TopUpRow
  BY DEF TypeOK, Made
<1>2. PICK row \in TopUpRow : topup' = [topup EXCEPT ![t] = row] /\ row.status = x.status
  <2>1. CASE topup' = [topup EXCEPT ![t].pi = TRUE]
    <3> DEFINE row == [x EXCEPT !.pi = TRUE]
    <3>1. row \in TopUpRow /\ row.status = x.status
      BY <1>1 DEF TopUpRow
    <3>2. QED
      BY <2>1, <3>1
  <2>2. CASE topup' = [topup EXCEPT ![t].fresh = FALSE]
    <3> DEFINE row == [x EXCEPT !.fresh = FALSE]
    <3>1. row \in TopUpRow /\ row.status = x.status
      BY <1>1 DEF TopUpRow
    <3>2. QED
      BY <2>2, <3>1
  <2>3. QED
    BY <2>1, <2>2
<1>3. QED
  BY <1>2, RowKept DEF SuccessesKept

LEMMA RecordIntentHolds ==
  ASSUME TopUpsInv, NEW r \in Replicas, RecordIntent(r)
  PROVE  TopUpsInv' /\ Stays
<1> DEFINE x == attempt[r]
           a == [x EXCEPT !.at = "result"]
<1>1. TypeOK /\ ChargesApart
  BY DEF TopUpsInv
<1>2. /\ x.at = "record"
      /\ UNCHANGED <<intent, events, credited, balance, rule, card, incidents, month>>
  BY DEF RecordIntent, At
<1>3. /\ x.failures \in Failures /\ x.topup \in Ids /\ Made(x.topup)
      /\ x.ok \in BOOLEAN /\ x.pi \in BOOLEAN
      /\ x = [at |-> x.at, failures |-> x.failures, topup |-> x.topup, ok |-> x.ok, pi |-> x.pi]
  BY <1>1, <1>2, AttemptParts DEF ChargesApart, HasTopUp
<1>4. SuccessesKept /\ Stays
  <2>1. UNCHANGED topup \/ topup' = [topup EXCEPT ![x.topup].pi = TRUE]
    BY DEF RecordIntent
  <2>2. SuccessesKept
    BY <1>1, <1>3, <2>1, MarkKept, Unchanged
  <2>3. QED
    BY <2>2 DEF SuccessesKept, Stays
<1>5. a \in Attempt /\ a.at = "result" /\ a.topup = x.topup
  BY <1>3 DEF Attempt
<1>6. SetAttempt(r, a)
  BY DEF RecordIntent, GoOn
<1> HIDE DEF a
<1>7. ChargesApart' /\ attempt' \in [Replicas -> Attempt]
  BY <1>1, <1>2, <1>3, <1>4, <1>5, <1>6, ChargesKept, AttemptKept DEF SuccessesKept
<1>8. TypeOK'
  BY <1>1, <1>2, <1>4, <1>7 DEF TypeOK, SuccessesKept
<1>9. QED
  BY <1>2, <1>4, <1>7, <1>8, Untouched DEF TopUpsInv, OnlyFewFailures

\* An attempt ends, its top-up failed or left as it is.
LEMMA AttemptEnds ==
  ASSUME TopUpsInv, NEW r \in Replicas, Stop(r), SuccessesKept,
         UNCHANGED <<intent, events, credited, balance, card, month>>,
         rule' \in Rule, OnlyFewFailures', incidents' \in 0 .. MaxIncidents
  PROVE  TopUpsInv' /\ Stays
<1>1. TypeOK /\ ChargesApart
  BY DEF TopUpsInv
<1>2. NoAttempt \in Attempt /\ NoAttempt.at = "idle" /\ SetAttempt(r, NoAttempt)
  BY DEF NoAttempt, Attempt, Stop
<1>3. ChargesApart' /\ attempt' \in [Replicas -> Attempt]
  BY <1>1, <1>2, ChargesKept, AttemptKept DEF SuccessesKept
<1>4. TypeOK'
  BY <1>1, <1>3 DEF TypeOK, SuccessesKept
<1>5. QED
  BY <1>3, <1>4, Untouched DEF TopUpsInv, Stays, SuccessesKept

LEMMA ResultHolds ==
  ASSUME TopUpsInv, NEW r \in Replicas, Result(r)
  PROVE  TopUpsInv' /\ Stays
<1>0. MaxAutoFailures \in Nat \ {0}
  BY TopUpsAssumption
<1>1. TypeOK /\ ChargesApart /\ OnlyFewFailures /\ rule \in Rule
  BY DEF TopUpsInv, TypeOK
<1>2. /\ Stop(r) /\ At(r, "result")
      /\ UNCHANGED <<intent, events, credited, balance, card, incidents, month>>
  BY DEF Result
<1>3. /\ attempt[r].failures \in Failures
      /\ attempt[r].topup \in Ids /\ Made(attempt[r].topup)
  BY <1>1, <1>2, AttemptParts DEF ChargesApart, HasTopUp, At
<1>4. incidents' \in 0 .. MaxIncidents
  BY <1>1, <1>2 DEF TypeOK
<1>5. CASE attempt[r].ok
  <2>1. UNCHANGED topup /\ rule' = [rule EXCEPT !.failures = 0]
    BY <1>5 DEF Result
  <2>2. rule' \in Rule /\ OnlyFewFailures'
    BY <1>0, <1>1, <2>1, RuleParts DEF OnlyFewFailures
  <2>3. QED
    BY <1>1, <1>2, <1>4, <2>1, <2>2, Unchanged, AttemptEnds
<1>6. CASE ~attempt[r].ok
  <2> DEFINE n == attempt[r].failures + 1
  <2>1. Failed(attempt[r].topup) /\ rule' = AfterFailure(n)
    BY <1>6 DEF Result
  <2>2. n \in 0 .. MaxAutoFailures
    BY <1>0, <1>3 DEF Failures
  <2> HIDE DEF n
  <2>3. rule' \in Rule /\ OnlyFewFailures'
    <3>1. CASE n >= MaxAutoFailures
      BY <2>1, <2>2, <3>1 DEF AfterFailure, Rule, OnlyFewFailures
    <3>2. CASE n < MaxAutoFailures
      <4> DEFINE x == [rule EXCEPT !.failures = n]
      <4>1. x \in Rule /\ x.failures = n
        BY <1>1, <2>2, RuleParts
      <4>2. [x EXCEPT !.due = FALSE] \in Rule /\ [x EXCEPT !.due = FALSE].failures = n
        BY <4>1, RuleParts
      <4>3. rule' = [x EXCEPT !.due = FALSE]
        BY <1>0, <1>1, <2>1, <2>2, <3>2 DEF AfterFailure, Rule
      <4>4. QED
        BY <3>2, <4>2, <4>3 DEF OnlyFewFailures
    <3>3. QED
      BY <1>0, <2>2, <3>1, <3>2
  <2>4. SuccessesKept
    BY <1>1, <1>3, <2>1, FailedKept
  <2>5. QED
    BY <1>2, <1>4, <2>3, <2>4, AttemptEnds
<1>7. QED
  BY <1>5, <1>6

LEMMA AbandonHolds ==
  ASSUME TopUpsInv, NEW r \in Replicas, Abandon(r)
  PROVE  TopUpsInv' /\ Stays
<1>0. MaxIncidents \in Nat
  BY TopUpsAssumption
<1>1. TypeOK /\ ChargesApart /\ OnlyFewFailures
  BY DEF TopUpsInv
<1>2. Stop(r) /\ UNCHANGED <<intent, events, credited, balance, rule, card, month>>
  BY DEF Abandon
<1>3. incidents' \in 0 .. MaxIncidents
  BY <1>0, <1>1 DEF TypeOK, Abandon, Incident
<1>4. SuccessesKept
  <2>1. At(r, "result") => attempt[r].topup \in Ids /\ Made(attempt[r].topup)
    BY <1>1, AttemptParts DEF ChargesApart, HasTopUp, At
  <2>2. UNCHANGED topup \/ (At(r, "result") /\ Failed(attempt[r].topup))
    BY DEF Abandon
  <2>3. QED
    BY <1>1, <2>1, <2>2, Unchanged, FailedKept
<1>5. QED
  BY <1>1, <1>2, <1>3, <1>4, AttemptEnds DEF TypeOK, OnlyFewFailures

LEMMA AgesHolds ==
  ASSUME TopUpsInv, NEW t \in Ids, Ages(t)
  PROVE  TopUpsInv' /\ Stays
<1>1. /\ TypeOK
      /\ UNCHANGED <<intent, events, credited, balance, rule, card, attempt, incidents, month>>
  BY DEF TopUpsInv, Ages
<1>2. SuccessesKept
  <2>1. topup' = [topup EXCEPT ![t].fresh = FALSE]
    BY DEF Ages
  <2>2. Made(t)
    BY DEF Ages, InFlight, IsAuto
  <2>3. QED
    BY <1>1, <2>1, <2>2, MarkKept
<1>3. TypeOK'
  BY <1>1, <1>2 DEF TypeOK, SuccessesKept
<1>4. ChargesApart' /\ EventsTrue' /\ CreditMatchesPayment'
  BY <1>1, <1>2, Untouched, OthersUntouched DEF SuccessesKept
<1>5. QED
  BY <1>1, <1>2, <1>3, <1>4 DEF TopUpsInv, OnlyFewFailures, Stays, SuccessesKept

\* The transaction that credits a payment.
LEMMA SettleCredits ==
  ASSUME TopUpsInv, NEW t \in Ids, Made(t), intent[t] = "succeeded", Settle(t),
         UNCHANGED intent
  PROVE  /\ topup' \in [Ids -> TopUpRow \cup {NoTopUp}]
         /\ \A u \in Ids : Made(u) => Made(u)'
         /\ Stays
         /\ credited' \in [Ids -> Nat] /\ balance' \in Nat
         /\ CreditMatchesPayment'
<1>1. TypeOK /\ CreditMatchesPayment /\ credited \in [Ids -> Nat] /\ balance \in Nat
  BY DEF TopUpsInv, TypeOK
<1>2. CASE UNCHANGED <<topup, credited, balance>>
  BY <1>1, <1>2, Unchanged DEF SuccessesKept, CreditMatchesPayment
<1>3. CASE /\ SetStatus(t, "succeeded") /\ topup[t].status # "succeeded"
           /\ credited' = [credited EXCEPT ![t] = @ + 1] /\ balance' = balance + 1
  <2>1. /\ topup' \in [Ids -> TopUpRow \cup {NoTopUp}]
        /\ topup'[t].status = "succeeded"
        /\ \A u \in Ids : u # t => topup'[u] = topup[u]
        /\ \A u \in Ids : Made(u) => Made(u)'
    BY <1>1, <1>3, StatusKept
  <2>2. credited' \in [Ids -> Nat] /\ balance' \in Nat
    BY <1>1, <1>3
  <2>3. credited[t] = 0 /\ credited'[t] = 1 /\ \A u \in Ids : u # t => credited'[u] = credited[u]
    BY <1>1, <1>3 DEF CreditMatchesPayment
  <2>4. CreditMatchesPayment'
    BY <1>1, <2>1, <2>3 DEF CreditMatchesPayment
  <2>5. QED
    BY <2>1, <2>2, <2>4 DEF Stays
<1>4. QED
  BY <1>2, <1>3 DEF Settle

LEMMA WebhookHolds ==
  ASSUME TopUpsInv, NEW e \in events, Webhook(e), events' \subseteq events
  PROVE  TopUpsInv' /\ Stays
<1>1. TypeOK /\ UNCHANGED <<intent, rule, card, attempt, incidents, month>>
  BY DEF TopUpsInv, Webhook
<1>2. /\ e.topup \in Ids /\ Made(e.topup)
      /\ e.type \in {"succeeded", "processing", "failed"}
      /\ e.type = "succeeded" => intent[e.topup] = "succeeded"
  BY <1>1 DEF TopUpsInv, TypeOK, EventsTrue
<1>3. /\ topup' \in [Ids -> TopUpRow \cup {NoTopUp}]
      /\ \A u \in Ids : Made(u) => Made(u)'
      /\ Stays
      /\ credited' \in [Ids -> Nat] /\ balance' \in Nat
      /\ CreditMatchesPayment'
  <2>1. CASE e.type = "succeeded"
    BY <1>1, <1>2, <2>1, SettleCredits DEF Webhook
  <2>2. CASE e.type # "succeeded"
    <3>1. /\ UNCHANGED <<credited, balance>>
          /\ Processing(e.topup) \/ Failed(e.topup) \/ UNCHANGED topup
      BY <1>2, <2>2 DEF Webhook, PaymentFailed
    <3>2. SuccessesKept
      BY <1>1, <1>2, <3>1, FailedKept, Unchanged
    <3>3. CreditMatchesPayment'
      BY <1>1, <3>1, <3>2, Untouched
    <3>4. QED
      BY <1>1, <3>1, <3>2, <3>3 DEF SuccessesKept, Stays, TypeOK
  <2>3. QED
    BY <2>1, <2>2
<1>4. TypeOK'
  BY <1>1, <1>3 DEF TypeOK
<1>5. ChargesApart'
  BY <1>1, <1>3, OthersUntouched
<1>6. EventsTrue'
  <2>1. \A d \in events : d.topup \in Ids
    BY <1>1 DEF TypeOK
  <2>2. QED
    BY <1>1, <1>3, <2>1 DEF TopUpsInv, EventsTrue
<1>7. QED
  BY <1>1, <1>3, <1>4, <1>5, <1>6 DEF TopUpsInv, OnlyFewFailures

-----------------------------------------------------------------------------
(***************************************************************************)
(* Every step.                                                             *)
(***************************************************************************)
LEMMA StepHolds == ASSUME TopUpsInv, [Next]_vars PROVE TopUpsInv' /\ Stays
<1>1. CASE UNCHANGED vars
  <2>1. UNCHANGED <<topup, intent, events, credited, balance, rule, card, attempt,
                    incidents, month>>
    BY <1>1 DEF vars
  <2>2. TypeOK /\ TypeOK'
    BY <2>1 DEF TopUpsInv, TypeOK
  <2>3. SuccessesKept /\ Stays
    BY <2>1, <2>2, Unchanged
  <2>4. QED
    BY <2>1, <2>2, <2>3, Untouched, OthersUntouched
       DEF TopUpsInv, OnlyFewFailures, SuccessesKept
<1>2. ASSUME NEW t \in Ids, CreateTopUp(t) \/ Pay(t) \/ Clears(t) \/ Ages(t)
      PROVE  TopUpsInv' /\ Stays
  BY <1>2, CreateTopUpHolds, PaymentHolds, AgesHolds
<1>3. CASE \/ Spend \/ (\E on \in BOOLEAN : SetAutoRecharge(on)) \/ RemoveCard \/ AddCard
           \/ BecomesDue \/ NextMonth
  BY <1>3, SurroundingsHold
<1>4. ASSUME NEW r \in Replicas, AttemptStep(r) PROVE TopUpsInv' /\ Stays
  BY <1>4, EarlyStepsHold, InsertTopUpHolds, ChargeCardHolds, RecordIntentHolds, ResultHolds
     DEF AttemptStep
<1>5. ASSUME NEW r \in Replicas, Abandon(r) PROVE TopUpsInv' /\ Stays
  BY <1>5, AbandonHolds
<1>6. ASSUME NEW e \in events, WebhookAgain(e) \/ WebhookDone(e) PROVE TopUpsInv' /\ Stays
  BY <1>6, WebhookHolds DEF WebhookAgain, WebhookDone, Acked
<1>7. QED
  BY <1>1, <1>2, <1>3, <1>4, <1>5, <1>6 DEF Next

\* The strengthening is invariant.
THEOREM TopUpsSafe == Spec => []TopUpsInv
<1>1. TopUpsInv /\ [Next]_vars => TopUpsInv'
  BY StepHolds
<1>2. QED
  BY InitHolds, <1>1, PTL DEF Spec

\* Every variable keeps its type (topups.go, autorecharge.go).
THEOREM TopUpsTypeOK == Spec => []TypeOK
<1>1. TopUpsInv => TypeOK
  BY DEF TopUpsInv
<1>2. QED
  BY TopUpsSafe, <1>1, PTL

\* However many replicas charge and however webhooks are repeated, lost answers
\* resent and reordered, an account has exactly one purchase's credit for each
\* top-up marked succeeded, and only for payments that went through
\* (topups.go:261-270).
THEOREM CreditMatches == Spec => []CreditMatchesPayment
<1>1. TopUpsInv => CreditMatchesPayment
  BY DEF TopUpsInv
<1>2. QED
  BY TopUpsSafe, <1>1, PTL

\* A rule that is on has not failed MaxAutoFailures times in a row, even though
\* the count written back was read before the charge (autorecharge.go:556-566).
THEOREM FewFailures == Spec => []OnlyFewFailures
<1>1. TopUpsInv => OnlyFewFailures
  BY DEF TopUpsInv
<1>2. QED
  BY TopUpsSafe, <1>1, PTL

\* No step takes a success back (topups.go:225-228, 157-159).
THEOREM SucceededStays == Spec => SucceededIsFinal
<1>1. TopUpsInv /\ [Next]_vars =>
        [\A t \in Ids : topup[t].status = "succeeded" => topup'[t].status = "succeeded"]_vars
  BY StepHolds DEF Stays
<1>2. QED
  BY TopUpsSafe, <1>1, PTL DEF Spec, SucceededIsFinal

-----------------------------------------------------------------------------
(***************************************************************************)
(* One charge at a time, and never beyond the cap.  Both rest on attempts  *)
(* that end before their claim does, and on what Stripe reports as failed  *)
(* not having been charged.                                                *)
(***************************************************************************)
Prompt == ~SlowAttempts /\ ~UnknownOutcomes

Busy(r) == attempt[r].at \notin {"idle", "claim"}

\* Who has claimed the account has it to himself.
AttemptsApart ==
  /\ \A r, s \in Replicas : Busy(r) /\ Busy(s) => r = s
  /\ \A r \in Replicas : Busy(r) => ~ (rule.enabled /\ rule.due)

\* A charge that was declined, or failed at the start, has taken no money and
\* will not.
DeclinedIsUnpaid ==
  /\ \A r \in Replicas : HasTopUp(r) => IsAuto(attempt[r].topup)
  /\ \A t \in Ids : IsAuto(t) => intent[t] # "open"
  /\ \A e \in events : /\ intent[e.topup] # "none"
                       /\ e.type = "failed" /\ IsAuto(e.topup) => intent[e.topup] = "failed"
  /\ \A t \in Ids : IsAuto(t) /\ topup[t].status = "failed" => intent[t] \in {"none", "failed"}
  /\ \A r \in Replicas : At(r, "charge") => topup[attempt[r].topup].status = "pending"
  /\ \A r \in Replicas : attempt[r].at \in {"record", "result"} =>
       attempt[r].ok \/ intent[attempt[r].topup] \in {"none", "failed"}

Paying(t) == intent[t] \in {"processing", "succeeded"}

\* A charge of the rule that is still to become credit.
Outstanding(t) == IsAuto(t) /\ topup[t].fresh /\ credited[t] = 0 /\ Paying(t)

\* An attempt past the check for one knows of every charge outstanding.
OutstandingSeen ==
  /\ \A t, u \in Ids : Outstanding(t) /\ Outstanding(u) => t = u
  /\ \A r \in Replicas : attempt[r].at \in {"cap", "card", "insert", "charge"} =>
       \A t \in Ids : ~Outstanding(t)
  /\ \A r \in Replicas : attempt[r].at \in {"record", "result"} =>
       \A t \in Ids : Outstanding(t) => t = attempt[r].topup

ChargedIn(m) == {t \in Ids : IsAuto(t) /\ topup[t].month = m /\ Paying(t)}

\* An attempt past the check of the cap has room in the month it charges for.
WithinCap ==
  /\ \A t \in Ids : Made(t) => topup[t].month <= month
  /\ \A m \in 1 .. MaxMonth : Cardinality(ChargedIn(m)) <= Cap
  /\ \A r \in Replicas : attempt[r].at \in {"card", "insert"} => Cardinality(ChargedIn(month)) < Cap
  /\ \A r \in Replicas : At(r, "charge") =>
       Cardinality(ChargedIn(topup[attempt[r].topup].month)) < Cap

ChargeInv == AttemptsApart /\ DeclinedIsUnpaid /\ OutstandingSeen /\ WithinCap

\* A step of the one attempt under way, or of one that is not.
LEMMA ApartKept ==
  ASSUME TypeOK, AttemptsApart, NEW r \in Replicas, NEW a \in Attempt, SetAttempt(r, a),
         \/ Busy(r) /\ (a.at \notin {"idle", "claim"} => rule' = rule)
         \/ a.at \in {"idle", "claim"} /\ rule' = rule
         \/ rule.enabled /\ rule.due /\ ~rule'.due
  PROVE  AttemptsApart'
<1>1. attempt'[r] = a /\ \A s \in Replicas : s # r => attempt'[s] = attempt[s]
  BY AttemptKept
<1>2. CASE Busy(r) /\ (a.at \notin {"idle", "claim"} => rule' = rule)
  BY <1>1, <1>2 DEF AttemptsApart, Busy
<1>3. CASE a.at \in {"idle", "claim"} /\ rule' = rule
  BY <1>1, <1>3 DEF AttemptsApart, Busy
<1>4. CASE rule.enabled /\ rule.due /\ ~rule'.due
  BY <1>1, <1>4 DEF AttemptsApart, Busy
<1> QED BY <1>2, <1>3, <1>4

LEMMA ApartStep ==
  ASSUME Prompt, TopUpsInv, AttemptsApart, [Next]_vars
  PROVE  AttemptsApart'
<1>1. TypeOK /\ attempt \in [Replicas -> Attempt] /\ NoAttempt \in Attempt /\ NoAttempt.at = "idle"
  BY DEF TopUpsInv, TypeOK, NoAttempt, Attempt
<1>2. ~SlowAttempts
  BY DEF Prompt
<1>3. CASE UNCHANGED <<attempt, rule>>
  BY <1>3 DEF AttemptsApart, Busy
<1>4. CASE (\E on \in BOOLEAN : SetAutoRecharge(on)) \/ RemoveCard \/ BecomesDue
  <2>1. attempt' = attempt
    BY <1>4 DEF SetAutoRecharge, RemoveCard, BecomesDue
  <2>2. (\A r \in Replicas : ~Busy(r)) \/ (rule'.enabled /\ rule'.due => rule.enabled /\ rule.due)
    <3>1. rule \in Rule
      BY <1>1 DEF TypeOK
    <3>2. CASE RemoveCard
      BY <3>1, <3>2 DEF RemoveCard, Rule
    <3>3. CASE BecomesDue
      BY <1>2, <3>3 DEF BecomesDue, NoAttemptUnderWay, Busy
    <3>4. ASSUME NEW on \in BOOLEAN, SetAutoRecharge(on)
          PROVE  (\A r \in Replicas : ~Busy(r)) \/ (rule'.enabled /\ rule'.due => rule.enabled /\ rule.due)
      BY <1>2, <3>1, <3>4 DEF SetAutoRecharge, NoAttemptUnderWay, Busy, Rule
    <3> QED BY <1>4, <3>2, <3>3, <3>4
  <2> QED BY <2>1, <2>2 DEF AttemptsApart, Busy
<1>5. ASSUME NEW r \in Replicas, AttemptStep(r) \/ Abandon(r) PROVE AttemptsApart'
  <2>1. CASE Sweep(r) \/ Claim(r)
    <3>1. rule \in Rule /\ [at |-> "claim"] \in Attempt
      BY <1>1 DEF TypeOK, Attempt
    <3>2. CASE Claim(r) /\ rule.enabled /\ rule.due
      <4>1. /\ SetAttempt(r, [at |-> "balance", failures |-> rule.failures])
            /\ rule' = [rule EXCEPT !.due = FALSE]
        BY <3>2 DEF Claim
      <4>2. [at |-> "balance", failures |-> rule.failures] \in Attempt
        BY <3>1, <3>2, TopUpsAssumption DEF Rule, TopUpsInv, OnlyFewFailures, Failures, Attempt
      <4>3. ~rule'.due
        BY <3>1, <4>1 DEF Rule
      <4> QED BY <1>1, <3>2, <4>1, <4>2, <4>3, ApartKept
    <3>3. CASE ~ (Claim(r) /\ rule.enabled /\ rule.due)
      <4>1. /\ rule' = rule
            /\ SetAttempt(r, [at |-> "claim"]) \/ SetAttempt(r, NoAttempt)
        BY <2>1, <3>3 DEF Sweep, Claim, Stop
      <4>2. \A a \in {[at |-> "claim"], NoAttempt} : a \in Attempt /\ a.at \in {"idle", "claim"}
        BY <1>1, <3>1
      <4> QED BY <1>1, <4>1, <4>2, ApartKept
    <3> QED BY <3>2, <3>3
  <2>2. ASSUME Busy(r), NEW a, SetAttempt(r, a), a.at \notin {"idle", "claim"} => rule' = rule
        PROVE  AttemptsApart'
    <3>1. attempt'[r] = a /\ \A s \in Replicas : s # r => attempt'[s] = attempt[s]
      BY <1>1, <2>2 DEF SetAttempt
    <3> QED BY <2>2, <3>1 DEF AttemptsApart, Busy
  <2>3. CASE ~ (Sweep(r) \/ Claim(r) \/ Abandon(r))
    <3>1. Busy(r)
      BY <1>5, <2>3 DEF AttemptStep, ReadBalance, CheckInFlight, CheckCap, CheckCard, InsertTopUp,
         ChargeCard, RecordIntent, Result, At, Busy
    <3>2. \E a : SetAttempt(r, a) /\ (a.at \notin {"idle", "claim"} => rule' = rule)
      BY <1>1, <1>5, <2>3 DEF AttemptStep, ReadBalance, CheckInFlight, CheckCap, CheckCard, InsertTopUp,
         ChargeCard, Charged, RecordIntent, Result, GoOn, Stop
    <3> QED BY <2>2, <3>1, <3>2
  <2>4. CASE Abandon(r)
    <3>1. rule' = rule /\ SetAttempt(r, NoAttempt)
      BY <2>4 DEF Abandon, Stop
    <3> QED BY <1>1, <3>1, ApartKept
  <2> QED BY <1>5, <2>1, <2>3, <2>4
<1>6. ASSUME NEW t \in Ids, CreateTopUp(t) \/ Pay(t) \/ Clears(t) \/ Ages(t)
      PROVE  AttemptsApart'
  BY <1>3, <1>6 DEF CreateTopUp, Pay, Clears, Ages
<1>7. ASSUME NEW e \in events, WebhookAgain(e) \/ WebhookDone(e)
      PROVE  AttemptsApart'
  BY <1>3, <1>7 DEF WebhookAgain, WebhookDone, Webhook
<1>8. CASE Spend \/ AddCard \/ NextMonth \/ UNCHANGED vars
  BY <1>3, <1>8 DEF Spend, AddCard, NextMonth, vars
<1> QED BY <1>4, <1>5, <1>6, <1>7, <1>8 DEF Next

\* What a step makes of a row: it is new, or changes in nothing but its status
\* and its age, and its status only when Stripe or a failed attempt says so.
RowMoves(t) ==
  \/ /\ ~Made(t)
     /\ Made(t)' => topup'[t].month = month
     /\ IsAuto(t)' => intent'[t] = "none" /\ topup'[t].status = "pending"
  \/ /\ Made(t) /\ Made(t)'
     /\ topup'[t].source = topup[t].source /\ topup'[t].month = topup[t].month
     /\ topup'[t].fresh => topup[t].fresh
     /\ topup'[t].status # topup[t].status =>
          /\ intent' = intent
          /\ \/ \E e \in events :
                  e.topup = t /\ (topup'[t].status = "failed" => e.type = "failed")
             \/ \E r \in Replicas : At(r, "result") /\ ~attempt[r].ok /\ attempt[r].topup = t

LEMMA SameRow == ASSUME TypeOK, NEW t \in Ids, topup'[t] = topup[t], intent' = intent, EventsTrue PROVE RowMoves(t)
<1>1. CASE Made(t)
  <2>1. Made(t)'
    BY <1>1 DEF Made
  <2> QED BY <1>1, <2>1 DEF RowMoves
<1>2. CASE ~Made(t)
  BY <1>2 DEF RowMoves, Made, IsAuto
<1> QED BY <1>1, <1>2

\* A mark or a status set in t's row.
LEMMA FieldSet ==
  ASSUME TypeOK, EventsTrue, NEW t \in Ids, Made(t), intent' = intent,
         \/ topup' = [topup EXCEPT ![t].pi = TRUE]
         \/ topup' = [topup EXCEPT ![t].fresh = FALSE]
         \/ \E s \in {"pending", "processing", "succeeded", "failed"} :
              /\ SetStatus(t, s)
              /\ \/ \E e \in events : e.topup = t /\ (s = "failed" => e.type = "failed")
                 \/ \E r \in Replicas : At(r, "result") /\ ~attempt[r].ok /\ attempt[r].topup = t
  PROVE  \A u \in Ids : RowMoves(u)
<1> DEFINE x == topup[t]
<1>1. x \in TopUpRow
  BY DEF TypeOK, Made
<1>2. \A row \in TopUpRow : row # NoTopUp
  BY DEF TopUpRow, NoTopUp
<1>3. ASSUME NEW row \in TopUpRow, topup' = [topup EXCEPT ![t] = row],
             row.source = x.source, row.month = x.month, row.fresh => x.fresh,
             row.status # x.status =>
               \/ \E e \in events : e.topup = t /\ (row.status = "failed" => e.type = "failed")
               \/ \E r \in Replicas : At(r, "result") /\ ~attempt[r].ok /\ attempt[r].topup = t
      PROVE  \A u \in Ids : RowMoves(u)
  <2>1. topup'[t] = row /\ \A u \in Ids : u # t => topup'[u] = topup[u]
    BY <1>3 DEF TypeOK
  <2>2. RowMoves(t)
    <3>1. Made(t)'
      BY <1>2, <1>3, <2>1 DEF Made
    <3> QED BY <1>3, <2>1, <3>1 DEF RowMoves
  <2> QED BY <2>1, <2>2, SameRow
<1>4. CASE topup' = [topup EXCEPT ![t].pi = TRUE]
  <2>1. [x EXCEPT !.pi = TRUE] \in TopUpRow
    BY <1>1 DEF TopUpRow
  <2> QED BY <1>1, <1>3, <1>4, <2>1 DEF TopUpRow
<1>5. CASE topup' = [topup EXCEPT ![t].fresh = FALSE]
  <2>1. [x EXCEPT !.fresh = FALSE] \in TopUpRow
    BY <1>1 DEF TopUpRow
  <2> QED BY <1>1, <1>3, <1>5, <2>1 DEF TopUpRow
<1>6. ASSUME NEW s \in {"pending", "processing", "succeeded", "failed"}, SetStatus(t, s),
             \/ \E e \in events : e.topup = t /\ (s = "failed" => e.type = "failed")
             \/ \E r \in Replicas : At(r, "result") /\ ~attempt[r].ok /\ attempt[r].topup = t
      PROVE  \A u \in Ids : RowMoves(u)
  <2> DEFINE row == [x EXCEPT !.status = s]
  <2>1. /\ row \in TopUpRow /\ row.status = s /\ row.source = x.source /\ row.month = x.month
        /\ row.fresh = x.fresh
    BY <1>1 DEF TopUpRow
  <2>2. topup' = [topup EXCEPT ![t] = row]
    BY <1>6 DEF SetStatus
  <2> HIDE DEF row
  <2> QED BY <1>3, <1>6, <2>1, <2>2
<1> QED BY <1>4, <1>5, <1>6

LEMMA RowsMove == ASSUME TopUpsInv, [Next]_vars PROVE \A t \in Ids : RowMoves(t)
<1>1. TypeOK /\ EventsTrue /\ ChargesApart
  BY DEF TopUpsInv
<1>2. CASE UNCHANGED <<topup, intent>>
  BY <1>1, <1>2, SameRow
<1>3. ASSUME NEW t \in Ids, ~Made(t), NEW row \in TopUpRow, row.month = month,
             topup' = [topup EXCEPT ![t] = row],
             \/ row.source = "manual" /\ \A u \in Ids : u # t => intent'[u] = intent[u]
             \/ row.status = "pending" /\ intent' = intent
      PROVE  \A u \in Ids : RowMoves(u)
  <2>1. topup'[t] = row /\ \A u \in Ids : u # t => topup'[u] = topup[u]
    BY <1>1, <1>3 DEF TypeOK
  <2>2. intent[t] = "none"
    BY <1>1, <1>3 DEF EventsTrue
  <2>3. RowMoves(t)
    BY <1>3, <2>1, <2>2 DEF RowMoves, IsAuto
  <2>4. ASSUME NEW u \in Ids, u # t PROVE RowMoves(u)
    <3>1. topup'[u] = topup[u] /\ intent'[u] = intent[u]
      BY <1>3, <2>1, <2>4
    <3>2. CASE Made(u)
      <4>1. Made(u)'
        BY <3>1, <3>2 DEF Made
      <4> QED BY <3>1, <3>2, <4>1 DEF RowMoves
    <3>3. CASE ~Made(u)
      BY <3>1, <3>3 DEF RowMoves, Made, IsAuto
    <3> QED BY <3>2, <3>3
  <2> QED BY <2>3, <2>4
<1>4. ASSUME NEW t \in Ids, CreateTopUp(t) PROVE \A u \in Ids : RowMoves(u)
  <2>1. PICK row \in [source : {"manual"}, status : {"pending", "failed"}, pi : BOOLEAN,
                      month : {month}, fresh : {TRUE}] :
          /\ topup' = [topup EXCEPT ![t] = row]
          /\ intent' = [intent EXCEPT ![t] = IF row.pi THEN "open" ELSE "none"]
    BY <1>4 DEF CreateTopUp
  <2>2. row \in TopUpRow /\ row.month = month /\ row.source = "manual"
    BY <1>1 DEF TopUpRow, TypeOK
  <2>3. ~Made(t) /\ \A u \in Ids : u # t => intent'[u] = intent[u]
    BY <1>1, <1>4, <2>1 DEF CreateTopUp, NextId, TypeOK
  <2> QED BY <1>3, <2>1, <2>2, <2>3
<1>5. ASSUME NEW r \in Replicas, NEW t \in Ids, InsertTopUp(r, t)
      PROVE  \A u \in Ids : RowMoves(u)
  <2>1. Row("auto") \in TopUpRow /\ Row("auto").month = month /\ Row("auto").status = "pending"
    BY <1>1 DEF Row, TopUpRow, TypeOK
  <2> QED BY <1>3, <1>5, <2>1 DEF InsertTopUp, NextId
<1>6. ASSUME NEW t \in Ids, Ages(t) PROVE \A u \in Ids : RowMoves(u)
  BY <1>1, <1>6, FieldSet DEF Ages, InFlight, IsAuto
<1>7. ASSUME NEW t \in Ids, Pay(t) \/ Clears(t) PROVE \A u \in Ids : RowMoves(u)
  <2>1. /\ topup' = topup /\ Made(t)
        /\ \A u \in Ids : u # t => intent'[u] = intent[u]
    BY <1>1, <1>7 DEF Pay, Clears, EventsTrue, TypeOK
  <2> QED BY <2>1 DEF RowMoves, Made, IsAuto, EventsTrue
<1>8. ASSUME NEW r \in Replicas, ChargeCard(r) PROVE \A u \in Ids : RowMoves(u)
  <2>1. topup' = topup /\ attempt[r].topup \in Ids /\ Made(attempt[r].topup)
    BY <1>1, <1>8, AttemptParts DEF ChargeCard, ChargesApart, HasTopUp, At
  <2>2. \A u \in Ids : ~Made(u) => intent'[u] = intent[u]
    BY <1>1, <1>8, <2>1 DEF ChargeCard, TypeOK
  <2> QED BY <2>1, <2>2 DEF RowMoves, Made, IsAuto
<1>9. ASSUME NEW r \in Replicas, RecordIntent(r) \/ Result(r) \/ Abandon(r)
      PROVE  \A u \in Ids : RowMoves(u)
  <2> DEFINE t == attempt[r].topup
  <2>1. intent' = intent
    BY <1>9 DEF RecordIntent, Result, Abandon
  <2>2. CASE topup' = topup
    BY <1>2, <2>1, <2>2
  <2>3. CASE RecordIntent(r) /\ topup' = [topup EXCEPT ![t].pi = TRUE]
    <3>1. t \in Ids /\ Made(t)
      BY <1>1, <2>3, AttemptParts DEF RecordIntent, ChargesApart, HasTopUp, At
    <3> QED BY <1>1, <2>1, <2>3, <3>1, FieldSet
  <2>4. CASE At(r, "result") /\ ~attempt[r].ok /\ SetStatus(t, "failed")
    <3>1. t \in Ids /\ Made(t)
      BY <1>1, <2>4, AttemptParts DEF ChargesApart, HasTopUp, At
    <3> QED BY <1>1, <2>1, <2>4, <3>1, FieldSet
  <2> QED BY <1>9, <2>2, <2>3, <2>4 DEF RecordIntent, Result, Abandon, Failed
<1>10. ASSUME NEW e \in events, Webhook(e) PROVE \A u \in Ids : RowMoves(u)
  <2>1. /\ intent' = intent /\ e.topup \in Ids /\ Made(e.topup)
        /\ e.type \in {"succeeded", "processing", "failed"}
    BY <1>1, <1>10 DEF Webhook, EventsTrue, TypeOK
  <2>2. CASE topup' = topup
    BY <1>2, <2>1, <2>2
  <2>3. CASE SetStatus(e.topup, "succeeded") \/ SetStatus(e.topup, "processing")
    BY <1>1, <2>1, <2>3, FieldSet
  <2>4. CASE e.type = "failed" /\ SetStatus(e.topup, "failed")
    BY <1>1, <2>1, <2>4, FieldSet
  <2> QED BY <1>10, <2>1, <2>2, <2>3, <2>4 DEF Webhook, Settle, Processing, PaymentFailed, Failed
<1>11. ASSUME NEW r \in Replicas,
              Sweep(r) \/ Claim(r) \/ ReadBalance(r) \/ CheckInFlight(r) \/ CheckCap(r) \/ CheckCard(r)
       PROVE  \A u \in Ids : RowMoves(u)
  BY <1>2, <1>11 DEF Sweep, Claim, ReadBalance, CheckInFlight, CheckCap, CheckCard
<1>12. CASE \/ Spend \/ (\E on \in BOOLEAN : SetAutoRecharge(on)) \/ RemoveCard \/ AddCard
            \/ BecomesDue \/ NextMonth \/ UNCHANGED vars
  BY <1>2, <1>12 DEF Spend, SetAutoRecharge, RemoveCard, AddCard, BecomesDue, NextMonth, vars
<1> QED BY <1>4, <1>5, <1>6, <1>7, <1>8, <1>9, <1>10, <1>11, <1>12
        DEF Next, AttemptStep, WebhookAgain, WebhookDone

\* What a step makes of a payment of the rule, and of a charge about to be made.
IntentMoves(t) ==
  \/ intent'[t] = intent[t]
  \/ ~IsAuto(t)' /\ (intent[t] # "none" => intent'[t] # "none")
  \/ /\ intent[t] = "processing" /\ intent'[t] \in {"succeeded", "failed"}
     /\ UNCHANGED <<topup, attempt>>
  \/ /\ intent[t] = "none" /\ topup' = topup
     /\ \E r \in Replicas : ChargeCard(r) /\ attempt[r].topup = t

LEMMA IntentsMove ==
  ASSUME TopUpsInv, DeclinedIsUnpaid, [Next]_vars
  PROVE  \A t \in Ids : IntentMoves(t)
<1>1. TypeOK /\ EventsTrue /\ ChargesApart
  BY DEF TopUpsInv
<1>2. CASE intent' = intent
  BY <1>2 DEF IntentMoves
<1>3. ASSUME NEW t \in Ids, CreateTopUp(t) PROVE \A u \in Ids : IntentMoves(u)
  <2>1. PICK row \in [source : {"manual"}, status : {"pending", "failed"}, pi : BOOLEAN,
                      month : {month}, fresh : {TRUE}] :
          topup' = [topup EXCEPT ![t] = row]
    BY <1>3 DEF CreateTopUp
  <2>2. ~IsAuto(t)'
    BY <1>1, <2>1 DEF IsAuto, TypeOK
  <2>3. intent[t] = "none" /\ \A u \in Ids : u # t => intent'[u] = intent[u]
    BY <1>1, <1>3 DEF CreateTopUp, NextId, EventsTrue, TypeOK
  <2> QED BY <2>2, <2>3 DEF IntentMoves
<1>4. ASSUME NEW t \in Ids, Pay(t) \/ Clears(t) PROVE \A u \in Ids : IntentMoves(u)
  <2>1. /\ \A u \in Ids : u # t => intent'[u] = intent[u]
        /\ UNCHANGED <<topup, attempt>>
    BY <1>1, <1>4 DEF Pay, Clears, TypeOK
  <2>2. CASE Pay(t)
    <3>1. ~IsAuto(t)' /\ intent'[t] # "none"
      BY <1>1, <2>1, <2>2 DEF Pay, DeclinedIsUnpaid, IsAuto, Made, TypeOK
    <3> QED BY <2>1, <3>1 DEF IntentMoves
  <2>3. CASE Clears(t)
    <3>1. intent[t] = "processing" /\ intent'[t] \in {"succeeded", "failed", "open"}
          /\ (intent'[t] = "open" => ~IsAuto(t))
      BY <1>1, <2>3 DEF Clears, TypeOK
    <3> QED BY <2>1, <3>1 DEF IntentMoves, IsAuto, Made
  <2> QED BY <1>4, <2>2, <2>3
<1>5. ASSUME NEW r \in Replicas, ChargeCard(r) PROVE \A u \in Ids : IntentMoves(u)
  <2>1. /\ topup' = topup /\ intent[attempt[r].topup] = "none"
        /\ \A u \in Ids : u # attempt[r].topup => intent'[u] = intent[u]
    BY <1>1, <1>5 DEF ChargeCard, ChargesApart, TypeOK
  <2> QED BY <1>5, <2>1 DEF IntentMoves
<1>6. CASE ~ \/ \E t \in Ids : CreateTopUp(t) \/ Pay(t) \/ Clears(t)
             \/ \E r \in Replicas : ChargeCard(r)
  <2>1. ASSUME NEW r \in Replicas, AttemptStep(r) \/ Abandon(r) PROVE intent' = intent
    BY <1>6, <2>1 DEF AttemptStep, Abandon, Sweep, Claim, ReadBalance, CheckInFlight, CheckCap,
       CheckCard, InsertTopUp, RecordIntent, Result
  <2>2. ASSUME NEW e \in events, WebhookAgain(e) \/ WebhookDone(e) PROVE intent' = intent
    BY <2>2 DEF WebhookAgain, WebhookDone, Webhook
  <2>3. ASSUME NEW t \in Ids, Ages(t) PROVE intent' = intent
    BY <2>3 DEF Ages
  <2>4. CASE \/ Spend \/ (\E on \in BOOLEAN : SetAutoRecharge(on)) \/ RemoveCard \/ AddCard
             \/ BecomesDue \/ NextMonth \/ UNCHANGED vars
    BY <1>2, <2>4 DEF Spend, SetAutoRecharge, RemoveCard, AddCard, BecomesDue, NextMonth, vars
  <2> QED BY <1>2, <1>6, <2>1, <2>2, <2>3, <2>4 DEF Next
<1> QED BY <1>3, <1>4, <1>5, <1>6

\* What a step makes of an attempt.
AttemptMoves(r) ==
  \/ attempt'[r] = attempt[r] /\ ~ChargeCard(r)
  \/ attempt'[r].at \in {"idle", "claim", "balance", "inflight"} /\ ~ChargeCard(r)
  \/ CheckInFlight(r) /\ attempt'[r].at = "cap"
  \/ CheckCap(r) /\ attempt'[r].at = "card"
  \/ CheckCard(r) /\ attempt'[r].at = "insert"
  \/ /\ attempt'[r].at = "charge" /\ attempt'[r].topup \in Ids
     /\ InsertTopUp(r, attempt'[r].topup)
  \/ /\ ChargeCard(r) /\ attempt'[r].at = "record"
     /\ attempt'[r].topup = attempt[r].topup
     /\ attempt'[r].ok \/ intent'[attempt[r].topup] \in {"none", "failed"}
  \/ /\ RecordIntent(r) /\ attempt'[r].at = "result"
     /\ attempt'[r].topup = attempt[r].topup /\ attempt'[r].ok = attempt[r].ok

LEMMA AttemptsMove ==
  ASSUME Prompt, TopUpsInv, AttemptsApart, [Next]_vars
  PROVE  \A r \in Replicas : AttemptMoves(r)
<1>1. TypeOK /\ attempt \in [Replicas -> Attempt] /\ NoAttempt.at = "idle" /\ ~UnknownOutcomes
  BY DEF TopUpsInv, TypeOK, NoAttempt, Prompt
<1>2. CASE attempt' = attempt /\ \A r \in Replicas : ~ChargeCard(r)
  BY <1>2 DEF AttemptMoves
<1>3. ASSUME NEW r \in Replicas, AttemptStep(r) \/ Abandon(r)
      PROVE  \A s \in Replicas : AttemptMoves(s)
  <2>1. \A s \in Replicas : s # r => attempt'[s] = attempt[s]
    BY <1>1, <1>3 DEF AttemptStep, Abandon, Sweep, Claim, ReadBalance, CheckInFlight, CheckCap,
       CheckCard, InsertTopUp, ChargeCard, Charged, RecordIntent, Result, SetAttempt, GoOn, Stop
  <2>2. \A s \in Replicas : s # r => ~ChargeCard(s)
    <3> SUFFICES ASSUME NEW s \in Replicas, s # r, ChargeCard(s) PROVE FALSE
      OBVIOUS
    <3>1. At(s, "charge") /\ attempt'[s] = attempt[s]
      BY <2>1 DEF ChargeCard
    <3>2. attempt'[s].at = "record"
      BY <1>1 DEF ChargeCard, Charged, SetAttempt
    <3> QED BY <3>1, <3>2 DEF At
  <2>3. AttemptMoves(r)
    <3> DEFINE x == attempt[r]
    <3>1. x \in Attempt
      BY <1>1
    <3>2. CASE Sweep(r) \/ Claim(r) \/ ReadBalance(r)
      <4>1. attempt'[r].at \in {"idle", "claim", "balance", "inflight"}
        BY <1>1, <3>1, <3>2 DEF Sweep, Claim, ReadBalance, SetAttempt, GoOn, Stop, At, Attempt
      <4>2. ~ChargeCard(r)
        BY <3>2 DEF Sweep, Claim, ReadBalance, ChargeCard, At
      <4> QED BY <4>1, <4>2 DEF AttemptMoves
    <3>3. CASE CheckInFlight(r) \/ CheckCap(r) \/ CheckCard(r)
      <4>1. ~ChargeCard(r)
        BY <3>3 DEF CheckInFlight, CheckCap, CheckCard, ChargeCard, At
      <4>2. CASE Stop(r)
        BY <1>1, <4>1, <4>2 DEF AttemptMoves, Stop, SetAttempt
      <4>3. x = [at |-> x.at, failures |-> x.failures]
        BY <1>1, <3>3, AttemptParts DEF CheckInFlight, CheckCap, CheckCard, At
      <4>4. \A where : GoOn(r, where) => attempt'[r].at = where
        BY <1>1, <4>3 DEF GoOn, SetAttempt
      <4>5. CASE CheckInFlight(r)
        BY <4>2, <4>4, <4>5 DEF AttemptMoves, CheckInFlight
      <4>6. CASE CheckCap(r)
        BY <4>2, <4>4, <4>6 DEF AttemptMoves, CheckCap
      <4>7. CASE CheckCard(r)
        BY <4>2, <4>4, <4>7 DEF AttemptMoves, CheckCard
      <4> QED BY <3>3, <4>5, <4>6, <4>7
    <3>4. ASSUME NEW t \in Ids, InsertTopUp(r, t) PROVE AttemptMoves(r)
      <4>1. attempt'[r].at = "charge" /\ attempt'[r].topup = t
        BY <1>1, <3>4 DEF InsertTopUp, SetAttempt
      <4> QED BY <3>4, <4>1 DEF AttemptMoves
    <3>5. CASE ChargeCard(r)
      <4>1. x.topup \in Ids
        BY <1>1, <3>5, AttemptParts DEF ChargeCard, HasTopUp, At
      <4>2. /\ attempt'[r].at = "record" /\ attempt'[r].topup = x.topup
            /\ attempt'[r].ok \/ intent'[x.topup] \in {"none", "failed"}
        BY <1>1, <3>5, <4>1 DEF ChargeCard, Charged, SetAttempt, TypeOK
      <4> QED BY <3>5, <4>2 DEF AttemptMoves
    <3>6. CASE RecordIntent(r)
      <4>1. /\ x.at = "record"
            /\ x = [at |-> x.at, failures |-> x.failures, topup |-> x.topup, ok |-> x.ok, pi |-> x.pi]
        BY <1>1, <3>6, AttemptParts DEF RecordIntent, At
      <4>2. attempt'[r] = [x EXCEPT !.at = "result"]
        BY <1>1, <3>6 DEF RecordIntent, GoOn, SetAttempt
      <4>3. attempt'[r].at = "result" /\ attempt'[r].topup = x.topup /\ attempt'[r].ok = x.ok
        BY <4>1, <4>2
      <4> QED BY <3>6, <4>3 DEF AttemptMoves
    <3>7. CASE Result(r) \/ Abandon(r)
      <4>1. attempt'[r].at = "idle"
        BY <1>1, <3>7 DEF Result, Abandon, Stop, SetAttempt
      <4>2. ~ChargeCard(r)
        BY <1>1, <4>1 DEF ChargeCard, Charged, SetAttempt
      <4> QED BY <4>1, <4>2 DEF AttemptMoves
    <3> QED BY <1>3, <3>2, <3>3, <3>4, <3>5, <3>6, <3>7 DEF AttemptStep
  <2>4. \A s \in Replicas : s # r => AttemptMoves(s)
    BY <2>1, <2>2 DEF AttemptMoves
  <2> QED BY <2>3, <2>4
<1>4. CASE attempt' = attempt
  <2>1. ASSUME NEW r \in Replicas, ChargeCard(r) PROVE FALSE
    <3>1. attempt'[r].at = "record" /\ attempt[r].at = "charge"
      BY <1>1, <2>1 DEF ChargeCard, Charged, SetAttempt, At
    <3> QED BY <1>4, <3>1
  <2> QED BY <1>2, <1>4, <2>1
<1>5. ASSUME NEW t \in Ids, CreateTopUp(t) \/ Pay(t) \/ Clears(t) \/ Ages(t)
      PROVE  attempt' = attempt
  BY <1>5 DEF CreateTopUp, Pay, Clears, Ages
<1>6. ASSUME NEW e \in events, WebhookAgain(e) \/ WebhookDone(e) PROVE attempt' = attempt
  BY <1>6 DEF WebhookAgain, WebhookDone, Webhook
<1>7. CASE \/ Spend \/ (\E on \in BOOLEAN : SetAutoRecharge(on)) \/ RemoveCard \/ AddCard
           \/ BecomesDue \/ NextMonth \/ UNCHANGED vars
  BY <1>4, <1>7 DEF Spend, SetAutoRecharge, RemoveCard, AddCard, BecomesDue, NextMonth, vars
<1> QED BY <1>3, <1>4, <1>5, <1>6, <1>7 DEF Next
\* What a new event tells of.
LEMMA EventsMove ==
  ASSUME Prompt, TopUpsInv, DeclinedIsUnpaid, [Next]_vars
  PROVE  \A e \in events' : \/ e \in events
                            \/ /\ e.topup \in Ids /\ intent'[e.topup] # "none"
                               /\ e.type = "failed" /\ IsAuto(e.topup)' => intent'[e.topup] = "failed"
<1> DEFINE New(e) == \/ e \in events
                     \/ /\ e.topup \in Ids /\ intent'[e.topup] # "none"
                        /\ e.type = "failed" /\ IsAuto(e.topup)' => intent'[e.topup] = "failed"
<1> SUFFICES \A e \in events' : New(e)
  OBVIOUS
<1>1. TypeOK /\ ~UnknownOutcomes
  BY DEF TopUpsInv, Prompt
<1>2. ASSUME NEW t \in Ids, NEW type, Emit(t, type), intent'[t] # "none",
             type = "failed" /\ IsAuto(t)' => intent'[t] = "failed"
      PROVE  \A e \in events' : New(e)
  BY <1>2 DEF Emit, Event
<1>3. ASSUME NEW t \in Ids, Pay(t) PROVE \A e \in events' : New(e)
  <2>1. ~IsAuto(t)'
    BY <1>3 DEF Pay, DeclinedIsUnpaid, IsAuto, Made
  <2>2. \E type : Emit(t, type) /\ intent'[t] # "none"
    BY <1>1, <1>3 DEF Pay, TypeOK
  <2> QED BY <1>2, <2>1, <2>2
<1>4. ASSUME NEW t \in Ids, Clears(t) PROVE \A e \in events' : New(e)
  <2>1. IsAuto(t)' = IsAuto(t)
    BY <1>4 DEF Clears, IsAuto, Made
  <2>2. CASE intent' = [intent EXCEPT ![t] = "succeeded"] /\ Emit(t, "succeeded")
    BY <1>1, <1>2, <2>2 DEF TypeOK
  <2>3. CASE /\ intent' = [intent EXCEPT ![t] = IF IsAuto(t) THEN "failed" ELSE "open"]
             /\ Emit(t, "failed")
    <3>1. intent'[t] # "none" /\ (IsAuto(t) => intent'[t] = "failed")
      BY <1>1, <2>3 DEF TypeOK
    <3> QED BY <1>2, <2>1, <2>3, <3>1
  <2> QED BY <1>4, <2>2, <2>3 DEF Clears
<1>5. ASSUME NEW r \in Replicas, ChargeCard(r) PROVE \A e \in events' : New(e)
  <2> DEFINE t == attempt[r].topup
  <2>1. t \in Ids
    BY <1>1, <1>5, AttemptParts DEF ChargeCard, HasTopUp, At
  <2>2. \/ UNCHANGED events
        \/ \E type : Emit(t, type) /\ intent'[t] # "none" /\ (type = "failed" => intent'[t] = "failed")
    BY <1>1, <1>5, <2>1 DEF ChargeCard, TypeOK
  <2> QED BY <1>2, <2>1, <2>2
<1>6. CASE events' \subseteq events
  BY <1>6
<1>7. ASSUME NEW r \in Replicas, AttemptStep(r) \/ Abandon(r) PROVE \A e \in events' : New(e)
  <2>1. CASE ~ChargeCard(r)
    <3>1. events' = events
      BY <1>7, <2>1 DEF AttemptStep, Abandon, Sweep, Claim, ReadBalance, CheckInFlight, CheckCap,
         CheckCard, InsertTopUp, RecordIntent, Result
    <3> QED BY <1>6, <3>1
  <2> QED BY <1>5, <2>1
<1>8. ASSUME NEW d \in events, WebhookAgain(d) \/ WebhookDone(d) PROVE \A e \in events' : New(e)
  <2>1. events' \subseteq events
    BY <1>8 DEF WebhookAgain, WebhookDone, Acked
  <2> QED BY <1>6, <2>1
<1>9. ASSUME NEW t \in Ids, CreateTopUp(t) \/ Ages(t) PROVE \A e \in events' : New(e)
  BY <1>6, <1>9 DEF CreateTopUp, Ages
<1>10. CASE \/ Spend \/ (\E on \in BOOLEAN : SetAutoRecharge(on)) \/ RemoveCard \/ AddCard
            \/ BecomesDue \/ NextMonth \/ UNCHANGED vars
  BY <1>6, <1>10 DEF Spend, SetAutoRecharge, RemoveCard, AddCard, BecomesDue, NextMonth, vars
<1> QED BY <1>3, <1>4, <1>7, <1>8, <1>9, <1>10 DEF Next

\* A charge of the rule that is paying was so before, unless it is made now.
LEMMA PayingBefore ==
  ASSUME NEW t \in Ids, RowMoves(t), IntentMoves(t), IsAuto(t)', Paying(t)',
         ~ \E r \in Replicas : ChargeCard(r) /\ attempt[r].topup = t
  PROVE  /\ IsAuto(t) /\ Paying(t) /\ topup'[t].month = topup[t].month
         /\ topup'[t].fresh => topup[t].fresh
<1>1. Made(t) /\ IsAuto(t) /\ topup'[t].month = topup[t].month /\ (topup'[t].fresh => topup[t].fresh)
  BY DEF RowMoves, IsAuto, Paying
<1>2. Paying(t)
  BY DEF IntentMoves, Paying
<1> QED BY <1>1, <1>2

LEMMA DeclinedStep ==
  ASSUME Prompt, TopUpsInv, TopUpsInv', AttemptsApart, DeclinedIsUnpaid, [Next]_vars
  PROVE  DeclinedIsUnpaid'
<1>1. TypeOK /\ TypeOK' /\ EventsTrue /\ ChargesApart
  BY DEF TopUpsInv
<1>2. \A t \in Ids : RowMoves(t) /\ IntentMoves(t)
  BY RowsMove, IntentsMove
<1>3. \A r \in Replicas : AttemptMoves(r)
  BY AttemptsMove
<1>4. \A r \in Replicas : HasTopUp(r) =>
        attempt[r].topup \in Ids /\ Made(attempt[r].topup) /\ IsAuto(attempt[r].topup)
  BY <1>1, AttemptParts DEF ChargesApart, DeclinedIsUnpaid
<1>5. \A e \in events : e.topup \in Ids /\ Made(e.topup)
  BY <1>1 DEF TypeOK, EventsTrue
<1>6. \A t \in Ids : Made(t) => Made(t)' /\ (IsAuto(t)' <=> IsAuto(t))
  BY <1>2 DEF RowMoves, IsAuto
<1>7. \A r \in Replicas : HasTopUp(r)' => IsAuto(attempt[r].topup)'
  <2> SUFFICES ASSUME NEW r \in Replicas, HasTopUp(r)' PROVE IsAuto(attempt[r].topup)'
    OBVIOUS
  <2>1. ASSUME NEW t \in Ids, t = attempt'[r].topup, InsertTopUp(r, t)
        PROVE  IsAuto(attempt[r].topup)'
    <3>1. topup'[t] = Row("auto")
      BY <1>1, <2>1 DEF InsertTopUp, TypeOK
    <3>2. Row("auto") # NoTopUp /\ Row("auto").source = "auto"
      BY DEF Row, NoTopUp
    <3> QED BY <2>1, <3>1, <3>2 DEF IsAuto, Made
  <2>2. ASSUME NEW t \in Ids, t = attempt'[r].topup, HasTopUp(r), t = attempt[r].topup
        PROVE  IsAuto(attempt[r].topup)'
    <3>1. IsAuto(t)'
      BY <1>4, <1>6, <2>2
    <3> QED BY <2>2, <3>1 DEF IsAuto, Made
  <2> QED BY <1>3, <1>4, <2>1, <2>2 DEF AttemptMoves, HasTopUp, ChargeCard, RecordIntent, At
<1>8. ASSUME NEW r \in Replicas, ChargeCard(r)
      PROVE  /\ intent'[attempt[r].topup] # "open"
             /\ topup' = topup
  <2>1. attempt[r].topup \in Ids
    BY <1>4, <1>8 DEF ChargeCard, HasTopUp, At
  <2> QED BY <1>1, <1>8, <2>1 DEF ChargeCard, TypeOK, Prompt
<1>9. \A t \in Ids : IsAuto(t)' => intent'[t] # "open"
  <2> SUFFICES ASSUME NEW t \in Ids, IsAuto(t)' PROVE intent'[t] # "open"
    OBVIOUS
  <2>1. CASE ~Made(t)
    BY <1>2, <2>1 DEF RowMoves
  <2>2. CASE Made(t)
    <3>1. IsAuto(t) /\ intent[t] # "open"
      BY <1>6, <2>2 DEF DeclinedIsUnpaid
    <3> QED BY <1>2, <1>8, <3>1 DEF IntentMoves
  <2> QED BY <2>1, <2>2
<1>10. \A e \in events' : /\ intent'[e.topup] # "none"
                          /\ e.type = "failed" /\ IsAuto(e.topup)' => intent'[e.topup] = "failed"
  <2> SUFFICES ASSUME NEW e \in events, e \in events'
               PROVE  /\ intent'[e.topup] # "none"
                      /\ e.type = "failed" /\ IsAuto(e.topup)' => intent'[e.topup] = "failed"
    BY EventsMove
  <2>1. /\ e.topup \in Ids /\ Made(e.topup) /\ intent[e.topup] # "none"
        /\ e.type = "failed" /\ IsAuto(e.topup) => intent[e.topup] = "failed"
    BY <1>5 DEF DeclinedIsUnpaid
  <2> QED BY <1>2, <1>6, <2>1 DEF IntentMoves
<1>11. \A t \in Ids : IsAuto(t)' /\ topup'[t].status = "failed" => intent'[t] \in {"none", "failed"}
  <2> SUFFICES ASSUME NEW t \in Ids, IsAuto(t)', topup'[t].status = "failed"
               PROVE  intent'[t] \in {"none", "failed"}
    OBVIOUS
  <2>1. Made(t) /\ IsAuto(t)
    BY <1>2, <1>6 DEF RowMoves
  <2>2. CASE topup[t].status = "failed"
    <3>1. intent[t] \in {"none", "failed"}
      BY <2>1, <2>2 DEF DeclinedIsUnpaid
    <3>2. ASSUME NEW r \in Replicas, ChargeCard(r), attempt[r].topup = t PROVE FALSE
      BY <2>2, <3>2 DEF ChargeCard, DeclinedIsUnpaid
    <3> QED BY <1>2, <3>1, <3>2 DEF IntentMoves
  <2>3. CASE topup[t].status # "failed"
    <3>1. /\ intent' = intent
          /\ \/ \E e \in events : e.topup = t /\ e.type = "failed"
             \/ \E r \in Replicas : At(r, "result") /\ ~attempt[r].ok /\ attempt[r].topup = t
      BY <1>2, <2>1, <2>3 DEF RowMoves
    <3> QED BY <2>1, <3>1 DEF DeclinedIsUnpaid, At
  <2> QED BY <2>2, <2>3
<1>12. \A r \in Replicas : At(r, "charge")' => topup'[attempt'[r].topup].status = "pending"
  <2> SUFFICES ASSUME NEW r \in Replicas, At(r, "charge")'
               PROVE  topup'[attempt'[r].topup].status = "pending"
    OBVIOUS
  <2>1. CASE InsertTopUp(r, attempt'[r].topup) /\ attempt'[r].topup \in Ids
    BY <1>1, <2>1 DEF InsertTopUp, Row, TypeOK
  <2>2. CASE attempt'[r] = attempt[r]
    <3> DEFINE t == attempt[r].topup
    <3>1. At(r, "charge")
      BY <2>2 DEF At
    <3>2. t \in Ids /\ Made(t) /\ topup[t].status = "pending" /\ intent[t] = "none"
      BY <1>1, <1>4, <3>1 DEF DeclinedIsUnpaid, ChargesApart, HasTopUp, At
    <3>3. ~ \E e \in events : e.topup = t
      BY <3>2 DEF DeclinedIsUnpaid
    <3>4. ~ \E s \in Replicas : At(s, "result")
      BY <3>1 DEF AttemptsApart, Busy, At
    <3> QED BY <1>2, <2>2, <3>2, <3>3, <3>4 DEF RowMoves
  <2> QED BY <1>3, <2>1, <2>2 DEF AttemptMoves, At
<1>13. \A r \in Replicas : attempt'[r].at \in {"record", "result"} =>
         attempt'[r].ok \/ intent'[attempt'[r].topup] \in {"none", "failed"}
  <2> SUFFICES ASSUME NEW r \in Replicas, attempt'[r].at \in {"record", "result"},
                      ~ ChargeCard(r)
               PROVE  attempt'[r].ok \/ intent'[attempt'[r].topup] \in {"none", "failed"}
    <3>1. ASSUME NEW r \in Replicas, ChargeCard(r)
          PROVE  attempt'[r].ok \/ intent'[attempt'[r].topup] \in {"none", "failed"}
      <4>1. attempt'[r].at # "result" /\ At(r, "charge")
        BY <1>1, <3>1 DEF ChargeCard, Charged, SetAttempt, TypeOK
      <4>2. attempt'[r].at = "record"
        BY <1>1, <3>1 DEF ChargeCard, Charged, SetAttempt, TypeOK
      <4> QED BY <1>3, <4>1, <4>2 DEF AttemptMoves, RecordIntent, At
    <3> QED BY <3>1
  <2> DEFINE t == attempt[r].topup
  <2>1. /\ attempt[r].at \in {"record", "result"}
        /\ attempt'[r].topup = t /\ attempt'[r].ok = attempt[r].ok
    BY <1>3 DEF AttemptMoves, RecordIntent, At
  <2>2. t \in Ids /\ IsAuto(t)' /\ (attempt[r].ok \/ intent[t] \in {"none", "failed"})
    BY <1>4, <1>6, <2>1 DEF DeclinedIsUnpaid, HasTopUp
  <2>3. \A s \in Replicas : ~ChargeCard(s)
    <3>1. \A s \in Replicas : ChargeCard(s) => s = r
      BY <2>1 DEF AttemptsApart, Busy, ChargeCard, At
    <3> QED BY <3>1
  <2> QED BY <1>2, <2>1, <2>2, <2>3 DEF IntentMoves
<1> QED BY <1>7, <1>9, <1>10, <1>11, <1>12, <1>13 DEF DeclinedIsUnpaid
LEMMA SeenStep ==
  ASSUME Prompt, TopUpsInv, TopUpsInv', Stays, AttemptsApart, AttemptsApart', DeclinedIsUnpaid,
         OutstandingSeen, [Next]_vars
  PROVE  OutstandingSeen'
<1>1. TypeOK /\ TypeOK' /\ EventsTrue /\ ChargesApart /\ CreditMatchesPayment /\ CreditMatchesPayment'
  BY DEF TopUpsInv
<1>2. \A t \in Ids : RowMoves(t) /\ IntentMoves(t)
  BY RowsMove, IntentsMove
<1>3. \A r \in Replicas : AttemptMoves(r)
  BY AttemptsMove
<1>4. ASSUME NEW t \in Ids, Outstanding(t)',
             ~ \E r \in Replicas : ChargeCard(r) /\ attempt[r].topup = t
      PROVE  Outstanding(t)
  <2>1. /\ IsAuto(t) /\ Paying(t) /\ topup'[t].month = topup[t].month
        /\ topup'[t].fresh => topup[t].fresh
    BY <1>2, <1>4, PayingBefore DEF Outstanding
  <2>2. credited'[t] = 0 => credited[t] = 0
    BY <1>1 DEF CreditMatchesPayment, Stays
  <2> QED BY <1>4, <2>1, <2>2 DEF Outstanding
<1>5. \A r, s \in Replicas : ChargeCard(r) /\ Busy(s) => r = s
  BY DEF AttemptsApart, ChargeCard, At, Busy
<1>6. \A t, u \in Ids : Outstanding(t)' /\ Outstanding(u)' => t = u
  <2>1. CASE \E r \in Replicas : ChargeCard(r)
    <3>1. PICK r \in Replicas : ChargeCard(r)
      BY <2>1
    <3>2. \A t \in Ids : ~Outstanding(t)
      BY <3>1 DEF OutstandingSeen, ChargeCard, At
    <3>3. \A s \in Replicas : ChargeCard(s) => s = r
      BY <1>5, <3>1 DEF ChargeCard, At, Busy
    <3> QED BY <1>4, <3>2, <3>3
  <2> QED BY <1>4, <2>1 DEF OutstandingSeen
<1>7. ASSUME NEW r \in Replicas, attempt'[r].at \in {"cap", "card", "insert", "charge"}
      PROVE  \A t \in Ids : ~Outstanding(t)'
  <2>1. Busy(r) /\ ~ \E s \in Replicas : ChargeCard(s)
    <3>1. (Busy(r) /\ attempt[r].at # "charge") \/ (attempt[r].at = "charge" /\ ~ChargeCard(r))
      BY <1>3, <1>7 DEF AttemptMoves, Busy, CheckInFlight, CheckCap, CheckCard, InsertTopUp, At,
         ChargeCard
    <3> QED BY <1>5, <3>1 DEF Busy, ChargeCard, At
  <2>2. \A t \in Ids : Outstanding(t)' => Outstanding(t)
    BY <1>4, <2>1
  <2>3. CASE CheckInFlight(r) /\ attempt'[r].at = "cap"
    <3>1. ~ \E t \in Ids : InFlight(t)
      <4>1. CASE Stop(r)
        BY <1>1, <2>3, <4>1 DEF Stop, SetAttempt, NoAttempt, TypeOK
      <4> QED BY <2>3, <4>1 DEF CheckInFlight
    <3>2. ASSUME NEW t \in Ids, Outstanding(t) PROVE InFlight(t)
      <4>1. /\ topup[t] \in TopUpRow
            /\ topup[t].status \in {"pending", "processing", "succeeded", "failed"}
        BY <1>1, <3>2 DEF Outstanding, IsAuto, Made, TypeOK, TopUpRow
      <4>2. topup[t].status # "succeeded" /\ topup[t].status # "failed"
        BY <1>1, <3>2 DEF Outstanding, CreditMatchesPayment, DeclinedIsUnpaid, Paying
      <4> QED BY <3>2, <4>1, <4>2 DEF Outstanding, InFlight, Unsettled
    <3> QED BY <2>2, <3>1, <3>2
  <2>4. CASE attempt[r].at \in {"cap", "card", "insert", "charge"}
    BY <2>2, <2>4 DEF OutstandingSeen
  <2> QED BY <1>3, <1>7, <2>3, <2>4 DEF AttemptMoves, CheckCap, CheckCard, InsertTopUp, At
<1>8. ASSUME NEW r \in Replicas, attempt'[r].at \in {"record", "result"}
      PROVE  \A t \in Ids : Outstanding(t)' => t = attempt'[r].topup
  <2>1. CASE ChargeCard(r) /\ attempt'[r].topup = attempt[r].topup
    <3>1. \A t \in Ids : ~Outstanding(t)
      BY <2>1 DEF OutstandingSeen, ChargeCard, At
    <3>2. \A s \in Replicas : ChargeCard(s) => s = r
      BY <1>5, <2>1 DEF ChargeCard, At, Busy
    <3> QED BY <1>4, <2>1, <3>1, <3>2
  <2>2. CASE attempt[r].at \in {"record", "result"} /\ attempt'[r].topup = attempt[r].topup
    <3>1. \A s \in Replicas : ~ChargeCard(s)
      BY <1>5, <2>2 DEF ChargeCard, At, Busy
    <3> QED BY <1>4, <2>2, <3>1 DEF OutstandingSeen
  <2> QED BY <1>3, <1>8, <2>1, <2>2 DEF AttemptMoves, RecordIntent, At
<1> QED BY <1>6, <1>7, <1>8 DEF OutstandingSeen

\* Charges of the rule are few enough to be counted.
LEMMA ChargesFinite ==
  ASSUME NEW S, S \subseteq Ids
  PROVE  IsFiniteSet(S) /\ Cardinality(S) \in Nat
<1>1. IsFiniteSet(Ids)
  BY TopUpsAssumption
<1>2. IsFiniteSet(S)
  BY <1>1, FS_Subset
<1> QED BY <1>2, FS_CardinalityType

LEMMA FewerCharges ==
  ASSUME NEW S, NEW T, T \subseteq Ids, S \subseteq T
  PROVE  Cardinality(S) <= Cardinality(T)
<1>1. IsFiniteSet(T)
  BY ChargesFinite
<1> QED BY <1>1, FS_Subset

LEMMA CapStep ==
  ASSUME Prompt, TopUpsInv, TopUpsInv', AttemptsApart, DeclinedIsUnpaid, WithinCap, [Next]_vars
  PROVE  WithinCap'
<1>0. Cap \in Nat
  BY TopUpsAssumption
<1>1. TypeOK /\ TypeOK' /\ EventsTrue /\ ChargesApart /\ CreditMatchesPayment
  BY DEF TopUpsInv
<1>2. \A t \in Ids : RowMoves(t) /\ IntentMoves(t)
  BY RowsMove, IntentsMove
<1>3. \A r \in Replicas : AttemptMoves(r)
  BY AttemptsMove
<1>4. \A m : ChargedIn(m) \subseteq Ids /\ ChargedIn(m)' \subseteq Ids
  BY DEF ChargedIn
<1>5. \A m : Cardinality(ChargedIn(m)) \in Nat /\ Cardinality(ChargedIn(m)') \in Nat
  BY <1>4, ChargesFinite
<1>6. month \in Nat /\ (month' = month \/ month' = month + 1)
  <2>1. month' = month \/ month' = month + 1
    BY DEF Next, vars, CreateTopUp, Pay, Clears, Ages, Spend, SetAutoRecharge, RemoveCard, AddCard,
       AttemptStep, Abandon, Sweep, Claim, ReadBalance, CheckInFlight, CheckCap, CheckCard,
       InsertTopUp, ChargeCard, RecordIntent, Result, WebhookAgain, WebhookDone, Webhook,
       BecomesDue, NextMonth
  <2> QED BY <1>1, <2>1, TopUpsAssumption DEF TypeOK
<1>7. \A t \in Ids : Made(t) => topup[t].month \in Nat /\ topup[t].month <= month
  BY <1>1, TopUpsAssumption DEF TypeOK, TopUpRow, WithinCap, Made
<1>8. \A t \in Ids : Made(t)' => topup'[t].month <= month'
  BY <1>2, <1>6, <1>7 DEF RowMoves
<1>9. ASSUME ~ \E r \in Replicas : ChargeCard(r), NEW m
      PROVE  ChargedIn(m)' \subseteq ChargedIn(m) /\ Cardinality(ChargedIn(m)') <= Cardinality(ChargedIn(m))
  <2>1. \A t \in Ids : IsAuto(t)' /\ Paying(t)' =>
          IsAuto(t) /\ Paying(t) /\ topup'[t].month = topup[t].month
    BY <1>2, <1>9, PayingBefore
  <2>2. ChargedIn(m)' \subseteq ChargedIn(m)
    BY <2>1 DEF ChargedIn
  <2> QED BY <1>4, <2>2, FewerCharges
<1>10. \A r, s \in Replicas : ChargeCard(r) /\ Busy(s) => r = s
  BY DEF AttemptsApart, ChargeCard, At, Busy
<1>11. \A m \in 1 .. MaxMonth : Cardinality(ChargedIn(m)') <= Cap
  <2>1. CASE \E r \in Replicas : ChargeCard(r)
    <3>1. PICK r \in Replicas : ChargeCard(r)
      BY <2>1
    <3> DEFINE t == attempt[r].topup
    <3>2. \A s \in Replicas : ChargeCard(s) => s = r
      BY <1>10, <3>1 DEF ChargeCard, At, Busy
    <3>3. /\ t \in Ids /\ topup' = topup
          /\ Cardinality(ChargedIn(topup[t].month)) < Cap
      BY <1>1, <3>1, AttemptParts DEF ChargeCard, HasTopUp, At, WithinCap
    <3>4. \A u \in Ids : u # t /\ IsAuto(u)' /\ Paying(u)' =>
            IsAuto(u) /\ Paying(u) /\ topup'[u].month = topup[u].month
      BY <1>2, <3>2, PayingBefore
    <3> SUFFICES ASSUME NEW m \in 1 .. MaxMonth PROVE Cardinality(ChargedIn(m)') <= Cap
      OBVIOUS
    <3>5. Cardinality(ChargedIn(m)) <= Cap
      BY DEF WithinCap
    <3>6. CASE m # topup[t].month
      <4>1. ChargedIn(m)' \subseteq ChargedIn(m)
        BY <3>3, <3>4, <3>6 DEF ChargedIn
      <4>2. Cardinality(ChargedIn(m)') <= Cardinality(ChargedIn(m))
        BY <1>4, <4>1, FewerCharges
      <4> QED BY <1>0, <1>5, <3>5, <4>2
    <3>7. CASE m = topup[t].month
      <4> DEFINE S == ChargedIn(m)
      <4>1. ChargedIn(m)' \subseteq S \cup {t}
        BY <3>3, <3>4 DEF ChargedIn
      <4>2. S \cup {t} \subseteq Ids
        BY <1>4, <3>3
      <4>3. Cardinality(ChargedIn(m)') <= Cardinality(S \cup {t})
        BY <4>1, <4>2, FewerCharges
      <4>4. IsFiniteSet(S) /\ Cardinality(S) < Cap
        BY <1>4, <3>3, <3>7, ChargesFinite
      <4>5. Cardinality(S \cup {t}) = Cardinality(S) \/ Cardinality(S \cup {t}) = Cardinality(S) + 1
        BY <4>4, FS_AddElement
      <4> HIDE DEF S
      <4>6. Cardinality(S) \in Nat
        BY <1>5 DEF S
      <4>7. Cardinality(ChargedIn(m)') \in Nat
        BY <1>5
      <4> QED BY <1>0, <4>3, <4>4, <4>5, <4>6, <4>7
    <3> QED BY <3>6, <3>7
  <2>2. CASE ~ \E r \in Replicas : ChargeCard(r)
    <3> SUFFICES ASSUME NEW m \in 1 .. MaxMonth PROVE Cardinality(ChargedIn(m)') <= Cap
      OBVIOUS
    <3>1. Cardinality(ChargedIn(m)) <= Cap
      BY DEF WithinCap
    <3>2. Cardinality(ChargedIn(m)') <= Cardinality(ChargedIn(m))
      BY <1>9, <2>2
    <3> QED BY <1>0, <1>5, <3>1, <3>2
  <2> QED BY <2>1, <2>2
<1>12. ASSUME NEW m \in Nat, Cardinality(ChargedIn(m)) < Cap, ~ \E r \in Replicas : ChargeCard(r)
       PROVE  Cardinality(ChargedIn(m)') < Cap
  BY <1>0, <1>5, <1>9, <1>12
<1>13. ASSUME NEW r \in Replicas, attempt'[r].at \in {"card", "insert", "charge"}
       PROVE  /\ ~ \E s \in Replicas : ChargeCard(s)
              /\ CheckCap(r) \/ Busy(r)
  <2>1. Busy(r) /\ (attempt[r].at # "charge" \/ ~ChargeCard(r))
    BY <1>3, <1>13 DEF AttemptMoves, Busy, CheckInFlight, CheckCap, CheckCard, InsertTopUp, At,
       ChargeCard
  <2>2. \A s \in Replicas : ~ChargeCard(s)
    BY <1>10, <2>1 DEF ChargeCard, At
  <2> QED BY <2>1, <2>2
<1>14. ASSUME NEW r \in Replicas, attempt'[r].at \in {"card", "insert"}
       PROVE  Cardinality(ChargedIn(month))' < Cap
  <2> SUFFICES ASSUME NEW n \in Nat, n = month' PROVE Cardinality(ChargedIn(n)') < Cap
    BY <1>6 DEF ChargedIn
  <2>1. CASE CheckCap(r) /\ attempt'[r].at = "card"
    <3>1. Spent(month) + 1 <= Cap
      <4>1. CASE Stop(r)
        BY <1>1, <2>1, <4>1 DEF Stop, SetAttempt, NoAttempt, TypeOK
      <4>2. {t \in Ids : /\ IsAuto(t) /\ topup[t].month = month
                         /\ topup[t].status \in Unsettled \cup {"succeeded"}} \subseteq Ids
        OBVIOUS
      <4>3. Spent(month) \in Nat
        BY <4>2, ChargesFinite DEF Spent
      <4> QED BY <1>0, <2>1, <4>1, <4>3 DEF CheckCap
    <3> DEFINE S == {t \in Ids : /\ IsAuto(t) /\ topup[t].month = month
                                 /\ topup[t].status \in Unsettled \cup {"succeeded"}}
    <3>2. ChargedIn(month) \subseteq S
      <4> SUFFICES ASSUME NEW t \in Ids, IsAuto(t), Paying(t)
                   PROVE  topup[t].status \in Unsettled \cup {"succeeded"}
        BY DEF ChargedIn
      <4>1. topup[t].status \in {"pending", "processing", "succeeded", "failed"}
        BY <1>1 DEF IsAuto, Made, TypeOK, TopUpRow
      <4>2. topup[t].status # "failed"
        BY DEF DeclinedIsUnpaid, Paying
      <4> QED BY <4>1, <4>2 DEF Unsettled
    <3>3. Cardinality(ChargedIn(month)) <= Cardinality(S) /\ Cardinality(S) \in Nat
      <4>1. S \subseteq Ids
        OBVIOUS
      <4> QED BY <3>2, <4>1, FewerCharges, ChargesFinite
    <3>4. Cardinality(S) = Spent(month)
      BY DEF Spent
    <3> HIDE DEF S
    <3>5. Cardinality(ChargedIn(month)) < Cap
      BY <1>0, <1>5, <3>1, <3>3, <3>4
    <3>6. month' = month
      BY <2>1 DEF CheckCap
    <3> QED BY <1>6, <1>12, <1>13, <1>14, <3>5, <3>6
  <2>2. CASE attempt[r].at \in {"card", "insert"}
    <3>1. Cardinality(ChargedIn(month)) < Cap
      BY <2>2 DEF WithinCap
    <3>2. CASE month' = month
      BY <1>6, <1>12, <1>13, <1>14, <3>1, <3>2
    <3>3. CASE month' = month + 1
      <4>1. ChargedIn(n) = {}
        BY <1>6, <1>7, <3>3 DEF ChargedIn, IsAuto
      <4>2. Cardinality(ChargedIn(n)) = 0
        BY <4>1, FS_EmptySet
      <4>3. 0 < Cap
        BY <1>0, <1>5, <3>1
      <4> QED BY <1>12, <1>13, <1>14, <4>2, <4>3
    <3> QED BY <1>6, <3>2, <3>3
  <2> QED BY <1>3, <1>14, <2>1, <2>2 DEF AttemptMoves, CheckCard, At
<1>15. ASSUME NEW r \in Replicas, attempt'[r].at = "charge"
       PROVE  Cardinality(ChargedIn(topup[attempt[r].topup].month))' < Cap
  <2>1. ASSUME NEW t \in Ids, t = attempt'[r].topup, InsertTopUp(r, t)
        PROVE  Cardinality(ChargedIn(topup[attempt[r].topup].month))' < Cap
    <3>1. Cardinality(ChargedIn(month)) < Cap
      BY <2>1 DEF WithinCap, InsertTopUp, At
    <3>2. topup'[t].month = month
      BY <1>1, <2>1 DEF InsertTopUp, Row, TypeOK
    <3>3. Cardinality(ChargedIn(month)') < Cap
      <4> SUFFICES ASSUME NEW n \in Nat, n = month PROVE Cardinality(ChargedIn(n)') < Cap
        BY <1>6, <2>1 DEF InsertTopUp, ChargedIn
      <4> QED BY <1>12, <1>13, <1>15, <3>1
    <3> QED BY <2>1, <3>2, <3>3 DEF ChargedIn, InsertTopUp
  <2>2. CASE attempt'[r] = attempt[r]
    <3> DEFINE m == topup[attempt[r].topup].month
    <3>1. At(r, "charge") /\ attempt[r].topup \in Ids /\ Made(attempt[r].topup)
      BY <1>1, <1>15, <2>2, AttemptParts DEF At, HasTopUp, ChargesApart
    <3>2. m \in Nat /\ Cardinality(ChargedIn(m)) < Cap /\ topup'[attempt[r].topup].month = m
      BY <1>2, <1>7, <3>1 DEF WithinCap, RowMoves
    <3>3. \A n \in Nat : n = m => Cardinality(ChargedIn(n)') < Cap
      BY <1>12, <1>13, <1>15, <3>2
    <3> QED BY <2>2, <3>2, <3>3 DEF ChargedIn
  <2> QED BY <1>3, <1>15, <2>1, <2>2 DEF AttemptMoves, At
<1> QED BY <1>8, <1>11, <1>14, <1>15 DEF WithinCap, At

LEMMA ChargeInitHolds == Init => ChargeInv
<1> SUFFICES ASSUME Init PROVE ChargeInv
  OBVIOUS
<1>1. /\ \A r \in Replicas : attempt[r].at = "idle"
      /\ \A t \in Ids : ~Made(t)
      /\ events = {}
  BY DEF Init, NoAttempt, Made
<1>2. \A t \in Ids : ~IsAuto(t)
  BY <1>1 DEF IsAuto
<1>3. AttemptsApart /\ DeclinedIsUnpaid /\ OutstandingSeen
  BY <1>1, <1>2 DEF AttemptsApart, DeclinedIsUnpaid, OutstandingSeen, Busy, HasTopUp, At, Outstanding
<1>4. WithinCap
  <2>1. \A m : ChargedIn(m) = {}
    BY <1>2 DEF ChargedIn
  <2>2. \A m : Cardinality(ChargedIn(m)) = 0
    BY <2>1, FS_EmptySet
  <2>3. Cap \in Nat
    BY TopUpsAssumption
  <2> QED BY <1>1, <2>2, <2>3 DEF WithinCap, At
<1> QED BY <1>3, <1>4 DEF ChargeInv

LEMMA ChargeStep ==
  ASSUME Prompt, TopUpsInv, ChargeInv, [Next]_vars
  PROVE  TopUpsInv' /\ ChargeInv'
<1>1. TopUpsInv' /\ Stays
  BY StepHolds
<1>2. AttemptsApart'
  BY ApartStep DEF ChargeInv
<1>3. DeclinedIsUnpaid' /\ WithinCap'
  BY <1>1, DeclinedStep, CapStep DEF ChargeInv
<1>4. OutstandingSeen'
  BY <1>1, <1>2, SeenStep DEF ChargeInv
<1> QED BY <1>1, <1>2, <1>3, <1>4 DEF ChargeInv

\* With attempts that end before their claim does, and answers that can be
\* believed, no two charges of the rule are under way at once, whatever
\* replicas sweep, rules change and webhooks do (autorecharge.go:36-43,
\* 420-424).
THEOREM OneChargeAtATime == ASSUME Prompt PROVE Spec => []OneChargeInFlight
<1>1. ChargeInv => OneChargeInFlight
  <2> SUFFICES ASSUME ChargeInv PROVE OneChargeInFlight
    OBVIOUS
  <2> DEFINE S == {t \in Ids : /\ IsAuto(t) /\ topup[t].fresh /\ credited[t] = 0
                               /\ intent[t] \in {"processing", "succeeded"}}
  <2>1. \A t, u \in S : t = u
    BY DEF ChargeInv, OutstandingSeen, Outstanding, Paying
  <2>2. CASE S = {}
    <3>1. Cardinality(S) = 0
      BY <2>2, FS_EmptySet
    <3> QED BY <3>1 DEF OneChargeInFlight
  <2>3. CASE \E t : S = {t}
    <3>1. PICK t : S = {t}
      BY <2>3
    <3> HIDE DEF S
    <3>2. Cardinality(S) = 1
      BY <3>1, FS_Singleton
    <3> USE DEF S
    <3> QED BY <3>2 DEF OneChargeInFlight
  <2>4. S = {} \/ \E t : S = {t}
    <3> HIDE DEF S
    <3> QED BY <2>1
  <2> QED BY <2>2, <2>3, <2>4
<1>2. Init => TopUpsInv /\ ChargeInv
  BY InitHolds, ChargeInitHolds
<1>3. TopUpsInv /\ ChargeInv /\ [Next]_vars => (TopUpsInv /\ ChargeInv)'
  BY ChargeStep
<1> QED BY <1>1, <1>2, <1>3, PTL DEF Spec

\* Under the same conditions the rule charges no more in a month than the
\* customer agreed to, charges in flight included (autorecharge.go:104-117,
\* 437-451).
THEOREM CapKept == ASSUME Prompt PROVE Spec => []CapRespected
<1>1. ChargeInv => CapRespected
  BY DEF ChargeInv, WithinCap, ChargedIn, Paying, CapRespected
<1>2. Init => TopUpsInv /\ ChargeInv
  BY InitHolds, ChargeInitHolds
<1>3. TopUpsInv /\ ChargeInv /\ [Next]_vars => (TopUpsInv /\ ChargeInv)'
  BY ChargeStep
<1> QED BY <1>1, <1>2, <1>3, PTL DEF Spec

\* Both together: the rule keeps what it promises.
THEOREM RuleIsObeyed == ASSUME Prompt PROVE Spec => []RuleObeyed
BY OneChargeAtATime, CapKept, PTL DEF RuleObeyed
=============================================================================
