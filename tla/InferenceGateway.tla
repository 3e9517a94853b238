-------------------------- MODULE InferenceGateway --------------------------
(***************************************************************************)
(* Prompts to one model of Teepin Inference: the credit check with its    *)
(* cached balance (billing/credit_guard.go), the gateway's admission (a    *)
(* slot of the account, then one of the least loaded backend's,            *)
(* inferencegateway/gateway.go), and the bill for what was served          *)
(* (api/inference_handlers.go).                                            *)
(***************************************************************************)
EXTENDS Integers, Sequences, FiniteSets

CONSTANTS Prompts,      \* requests under way at once
          Accounts, Asker,          \* Asker[r]: the account of request r
          Backends,      \* node services
          Externals,     \* whether some of the models are external ones
          AccountCap,    \* defaultPerAccountCap
          Capacities,    \* what max_concurrency a mount may be configured with
          WorstCase,     \* inferencePreflightCost of a request that has a price
          Charges,       \* what a request may turn out to cost
          StartCredit, GrantSize,
          MaxGrants,     \* bound: credit added
          MaxRemounts    \* bound: changes of a backend's configuration

NoBackend == "none"

\* An absent max_concurrency is the default one.
ASSUME GatewayAssumption ==
    /\ IsFiniteSet(Prompts) /\ Asker \in [Prompts -> Accounts]
    /\ NoBackend \notin Backends
    /\ AccountCap \in Nat \ {0} /\ WorstCase \in Nat \ {0}
    /\ Capacities \subseteq Nat \ {0} /\ Charges \subseteq Nat
    /\ StartCredit \in Nat /\ GrantSize \in Nat

VARIABLES reqs,             \* the requests
          accountInFlight, inFlight,   \* the gateway's counters
          sems,             \* sems[b]: the channels backend b has had, newest last
          mounts,           \* mounts[b]: max_concurrency, 0 while not mounted
          credit,           \* each account's balance
          cached,           \* balanceCache: Uncached, or a balance that was read
          grants, remounts

inferenceVars ==
    <<reqs, accountInFlight, inFlight, sems, mounts, credit, cached, grants, remounts>>

Uncached == <<>>
NewRequest == [pc |-> "idle", read |-> 0, on |-> NoBackend, sem |-> 0, cost |-> 0]

InferenceInit ==
    /\ reqs = [r \in Prompts |-> NewRequest]
    /\ accountInFlight = [a \in Accounts |-> 0]
    /\ inFlight = [b \in Backends |-> 0]
    /\ sems = [b \in Backends |-> <<>>]
    /\ mounts \in [Backends -> Capacities]
    /\ credit = [a \in Accounts |-> StartCredit]
    /\ cached = [a \in Accounts |-> Uncached]
    /\ grants = 0 /\ remounts = 0

At(r, pc) == reqs[r].pc = pc
To(r, pc) == reqs' = [reqs EXCEPT ![r].pc = pc]
Done(r)   == reqs' = [reqs EXCEPT ![r] = NewRequest]

----------------------------------------------------------------------------
(* The credit check.                                                       *)

Affordable(balance) == balance > 0 /\ balance >= WorstCase
Judge(r, balance) == IF Affordable(balance) THEN To(r, "admitted") ELSE Done(r)

\* CreditAvailable: the cached balance, or the ledger's, which is read first
\* and put into the cache after.
CheckCached(r) ==
    /\ At(r, "idle") /\ cached[Asker[r]] # Uncached
    /\ Judge(r, Head(cached[Asker[r]]))
    /\ UNCHANGED <<accountInFlight, inFlight, sems, mounts, credit, cached, grants, remounts>>

ReadCredit(r) ==
    /\ At(r, "idle") /\ cached[Asker[r]] = Uncached
    /\ reqs' = [reqs EXCEPT ![r].pc = "reading", ![r].read = credit[Asker[r]]]
    /\ UNCHANGED <<accountInFlight, inFlight, sems, mounts, credit, cached, grants, remounts>>

PutBalance(r) ==
    /\ At(r, "reading")
    /\ cached' = [cached EXCEPT ![Asker[r]] = <<reqs[r].read>>]
    /\ IF Affordable(reqs[r].read)
       THEN reqs' = [reqs EXCEPT ![r] = [NewRequest EXCEPT !.pc = "admitted"]]
       ELSE Done(r)
    /\ UNCHANGED <<accountInFlight, inFlight, sems, mounts, credit, grants, remounts>>

\* balanceCacheTTL.
CacheExpires(a) ==
    /\ cached[a] # Uncached
    /\ cached' = [cached EXCEPT ![a] = Uncached]
    /\ UNCHANGED <<reqs, accountInFlight, inFlight, sems, mounts, credit, grants, remounts>>

\* GrantCredit, or a top-up that settles, drops the cached balance.
AddCredit(a) ==
    /\ grants < MaxGrants
    /\ grants' = grants + 1
    /\ credit' = [credit EXCEPT ![a] = @ + GrantSize]
    /\ cached' = [cached EXCEPT ![a] = Uncached]
    /\ UNCHANGED <<reqs, accountInFlight, inFlight, sems, mounts, remounts>>

----------------------------------------------------------------------------
(* Admission.                                                              *)

\* acquireAccountSlot.
AccountSlot(r) ==
    LET a == Asker[r] IN
    /\ At(r, "admitted")
    /\ IF accountInFlight[a] >= AccountCap
       THEN Done(r) /\ UNCHANGED accountInFlight
       ELSE /\ To(r, "slotted")
            /\ accountInFlight' = [accountInFlight EXCEPT ![a] = @ + 1]
    /\ UNCHANGED <<inFlight, sems, mounts, credit, cached, grants, remounts>>

FreeAccountSlot(r) == accountInFlight' = [accountInFlight EXCEPT ![Asker[r]] = @ - 1]

\* resolve fails: it gives the account's slot back (leaks: it does not).
LeaksSlot(r) == Done(r) /\ UNCHANGED accountInFlight
Fails(r) == Done(r) /\ FreeAccountSlot(r)

\* An external model: its provider is built, or its key cannot be read.
External(r) ==
    /\ At(r, "slotted") /\ Externals
    /\ \/ Fails(r)
       \/ To(r, "serving") /\ UNCHANGED accountInFlight
    /\ UNCHANGED <<inFlight, sems, mounts, credit, cached, grants, remounts>>

\* candidatesFor and pickLeastLoaded, then semFor: a channel of the capacity
\* the mount has now, a new one when that has changed.
Mounted == {b \in Backends : mounts[b] # 0}
LeastLoaded == {b \in Mounted : \A other \in Mounted : inFlight[b] <= inFlight[other]}
Newest(b) == sems[b][Len(sems[b])]

Pick(r) ==
    /\ At(r, "slotted")
    /\ \/ Mounted = {} /\ Fails(r) /\ UNCHANGED sems
       \/ \E b \in LeastLoaded :
            LET fits == sems[b] # <<>> /\ Newest(b).cap = mounts[b] IN
            /\ sems' = IF fits THEN sems
                       ELSE [sems EXCEPT ![b] = Append(@, [cap |-> mounts[b], used |-> 0])]
            /\ reqs' = [reqs EXCEPT ![r].pc = "queued", ![r].on = b,
                                    ![r].sem = IF fits THEN Len(sems[b]) ELSE Len(sems[b]) + 1]
            /\ UNCHANGED accountInFlight
    /\ UNCHANGED <<inFlight, mounts, credit, cached, grants, remounts>>

\* acquireBackendSlot: a token of the channel, now or within QueueWait,
Admit(r) ==
    LET b == reqs[r].on  s == reqs[r].sem IN
    /\ At(r, "queued") /\ sems[b][s].used < sems[b][s].cap
    /\ sems' = [sems EXCEPT ![b][s].used = @ + 1]
    /\ To(r, "tokened")
    /\ UNCHANGED <<accountInFlight, inFlight, mounts, credit, cached, grants, remounts>>

CountIn(r) ==
    /\ At(r, "tokened")
    /\ inFlight' = [inFlight EXCEPT ![reqs[r].on] = @ + 1]
    /\ To(r, "serving")
    /\ UNCHANGED <<accountInFlight, sems, mounts, credit, cached, grants, remounts>>

\* ... or the wait is over, or the caller gone.
QueueTimeout(r) ==
    /\ At(r, "queued")
    /\ Fails(r)
    /\ UNCHANGED <<inFlight, sems, mounts, credit, cached, grants, remounts>>

\* The provider answers, or fails: no usage, no cost.
Answers(r) ==
    /\ At(r, "serving")
    /\ \E cost \in Charges \cup {0} :
         reqs' = [reqs EXCEPT ![r].pc = "answered", ![r].cost = cost]
    /\ UNCHANGED <<accountInFlight, inFlight, sems, mounts, credit, cached, grants, remounts>>

\* release: the token, the count, the account's slot.
Release(r) ==
    LET b == reqs[r].on IN
    /\ At(r, "answered")
    /\ IF b = NoBackend THEN To(r, "counted") /\ UNCHANGED sems
       ELSE /\ sems' = [sems EXCEPT ![b][reqs[r].sem].used = @ - 1]
            /\ To(r, "released")
    /\ UNCHANGED <<accountInFlight, inFlight, mounts, credit, cached, grants, remounts>>

CountOut(r) ==
    /\ At(r, "released")
    /\ inFlight' = [inFlight EXCEPT ![reqs[r].on] = @ - 1]
    /\ To(r, "counted")
    /\ UNCHANGED <<accountInFlight, sems, mounts, credit, cached, grants, remounts>>

ReleaseAccount(r) ==
    /\ At(r, "counted")
    /\ FreeAccountSlot(r)
    /\ reqs' = [reqs EXCEPT ![r].pc = IF reqs[r].cost = 0 THEN "idle" ELSE "billing",
                            ![r].on = NoBackend, ![r].sem = 0]
    /\ UNCHANGED <<inFlight, sems, mounts, credit, cached, grants, remounts>>

----------------------------------------------------------------------------
(* The bill.                                                               *)

\* settle: the usage record and the draw, capped at the balance, or a failure
\* that is logged.
Draw(r) ==
    LET a == Asker[r]
        applied == IF reqs[r].cost <= credit[a] THEN reqs[r].cost ELSE credit[a] IN
    /\ At(r, "billing")
    /\ \/ Done(r) /\ UNCHANGED credit
       \/ /\ credit' = [credit EXCEPT ![a] = @ - applied]
          /\ reqs' = [reqs EXCEPT ![r].pc = "drawn", ![r].cost = applied]
    /\ UNCHANGED <<accountInFlight, inFlight, sems, mounts, cached, grants, remounts>>

\* balances.adjust, after the commit; no entry stays no entry.
Adjust(r) ==
    LET a == Asker[r] IN
    /\ At(r, "drawn")
    /\ cached' = IF cached[a] = Uncached THEN cached
                 ELSE [cached EXCEPT ![a] = <<Head(@) - reqs[r].cost>>]
    /\ Done(r)
    /\ UNCHANGED <<accountInFlight, inFlight, sems, mounts, credit, grants, remounts>>

\* A mount is reconfigured, unmounted or mounted again.
Remount(b, cap) ==
    /\ remounts < MaxRemounts /\ cap # mounts[b]
    /\ remounts' = remounts + 1
    /\ mounts' = [mounts EXCEPT ![b] = cap]
    /\ UNCHANGED <<reqs, accountInFlight, inFlight, sems, credit, cached, grants>>

InferenceNext ==
    \/ \E r \in Prompts :
         \/ CheckCached(r) \/ ReadCredit(r) \/ PutBalance(r)
         \/ AccountSlot(r) \/ External(r) \/ Pick(r) \/ Admit(r) \/ CountIn(r)
         \/ QueueTimeout(r) \/ Answers(r) \/ Release(r) \/ CountOut(r) \/ ReleaseAccount(r)
         \/ Draw(r) \/ Adjust(r)
    \/ \E a \in Accounts : CacheExpires(a) \/ AddCredit(a)
    \/ \E b \in Backends, cap \in Capacities \cup {0} : Remount(b, cap)

InferenceSpec == InferenceInit /\ [][InferenceNext]_inferenceVars

----------------------------------------------------------------------------
\* No path of a request leaks a slot or frees one twice: the counters are the
\* requests that hold one, whatever fails, times out or is reconfigured, and a
\* channel never holds more than it was made for.
Holding(pcs) == {r \in Prompts : reqs[r].pc \in pcs}

SlotsExact ==
    /\ \A a \in Accounts :
         accountInFlight[a] = Cardinality({r \in Holding({"slotted", "queued", "tokened",
             "serving", "answered", "released", "counted"}) : Asker[r] = a})
    /\ \A b \in Backends :
         /\ inFlight[b] = Cardinality({r \in Holding({"serving", "answered", "released"}) :
                                         reqs[r].on = b})
         /\ \A s \in DOMAIN sems[b] :
              /\ sems[b][s].used = Cardinality({r \in Holding({"tokened", "serving", "answered"}) :
                                                  reqs[r].on = b /\ reqs[r].sem = s})
              /\ sems[b][s].used <= sems[b][s].cap
=============================================================================
