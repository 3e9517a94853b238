---------------------------- MODULE CryptoTopUps ----------------------------
(***************************************************************************)
(* USDC top-ups (src/pkg/billing/crypto_topups.go, src/pkg/solana): a      *)
(* customer asks for a payment link, a wallet pays on chain, and watchers, *)
(* one per replica, look for finalized transactions carrying the link's    *)
(* reference and turn each into credit.  The chain is append-only; a       *)
(* transaction may carry several references.                               *)
(***************************************************************************)
EXTENDS Integers, Sequences, FiniteSets

CONSTANTS
    Links,          \* requests for a payment link; each may become a top-up
    Watchers,       \* the replicas' payment watchers
    MicroPerCent,   \* USDC base units in one cent
    LeastCents, MostCents,      \* MinTopUp and MaxCryptoTopUp
    MaxUnpaid,      \* maxPendingCrypto
    WatchWindow,    \* cryptoWatchWindow, in ticks of the clock below
    Transfers,      \* the net changes of our USDC balance a transaction makes
    MaxTransactions, MaxTicks   \* bounds on the chain and on the clock

ASSUME CryptoAssumption == /\ MicroPerCent \in Nat \ {0}
                           /\ LeastCents \in Nat /\ MostCents \in Nat
                           /\ Transfers \subseteq Int

VARIABLES
    usdc,       \* billing.credit_topups with provider 'solana', by link
    counted,    \* link -> the unpaid top-ups its handler has counted
    onChain,    \* the finalized transactions, oldest first
    look,       \* watcher -> the top-ups claimed and the transactions to read
    tick        \* the clock; one tick is at least every re-check interval

cryptoVars == <<usdc, counted, onChain, look, tick>>

Unmade == "unmade"
Unlooked == [due |-> {}, at |-> Unmade, read |-> {}]

MadeAt(l) == usdc[l].created + WatchWindow > tick
Waiting(l) == usdc[l].status = "pending"

\* MicroToCents: whole cents, rounded down.
ToCents(micro) == micro \div MicroPerCent

\* ValidateUSDCPayment: the transaction carries the reference and raised our
\* balance.  One that failed on chain moved nothing.
IsPayment(x, l) == l \in onChain[x].refs /\ onChain[x].micro > 0

\* Mutant: the signature's index is not unique.
AnySignature(x, l) == TRUE

\* The unique index on solana_signature.
SignatureFree(x, l) == \A k \in Links \ {l} : usdc[k].sig # x

InRange(x) == ToCents(onChain[x].micro) \in LeastCents .. MostCents

CryptoInit ==
    /\ usdc = [l \in Links |->
                 [status |-> Unmade, created |-> 0, sig |-> 0,
                  credited |-> 0, due |-> TRUE]]
    /\ counted = [l \in Links |-> Unmade]
    /\ onChain = <<>>
    /\ look = [w \in Watchers |-> Unlooked]
    /\ tick = 0

\* CreateCryptoTopUp, as far as the count of unpaid links; the insert is a
\* statement of its own.
CountUnpaid(l) ==
    /\ usdc[l].status = Unmade /\ counted[l] = Unmade
    /\ Cardinality({k \in Links : Waiting(k) /\ MadeAt(k)}) < MaxUnpaid
    /\ counted' = [counted EXCEPT ![l] = "counted"]
    /\ UNCHANGED <<usdc, onChain, look, tick>>

InsertLink(l) ==
    /\ counted[l] = "counted"
    /\ counted' = [counted EXCEPT ![l] = "made"]
    /\ usdc' = [usdc EXCEPT ![l].status = "pending", ![l].created = tick]
    /\ UNCHANGED <<onChain, look, tick>>

\* A wallet's transaction is finalized: any references known to its sender,
\* any net change of our balance.
Finalize(refs, micro) ==
    /\ Len(onChain) < MaxTransactions
    /\ \A l \in refs : usdc[l].status # Unmade
    /\ onChain' = Append(onChain, [refs |-> refs, micro |-> micro, at |-> tick])
    /\ UNCHANGED <<usdc, counted, look, tick>>

Tick ==
    /\ tick < MaxTicks
    /\ tick' = tick + 1
    /\ usdc' = [l \in Links |-> [usdc[l] EXCEPT !.due = TRUE]]
    /\ UNCHANGED <<counted, onChain, look>>

\* Sweep: close what has waited past the window, then claim every due top-up
\* (last_checked_at) in one statement.
SweepLinks(w) ==
    LET late == {l \in Links : Waiting(l) /\ ~MadeAt(l)}
        claimed == {l \in Links : Waiting(l) /\ MadeAt(l) /\ usdc[l].due}
    IN  /\ look[w] = Unlooked
        /\ late \cup claimed # {}
        /\ usdc' = [l \in Links |->
                      IF l \in late THEN [usdc[l] EXCEPT !.status = "failed"]
                      ELSE IF l \in claimed THEN [usdc[l] EXCEPT !.due = FALSE]
                      ELSE usdc[l]]
        /\ look' = [look EXCEPT ![w].due = claimed]
        /\ UNCHANGED <<counted, onChain, tick>>

\* check: ask for the signatures that carry the reference.  The call may fail;
\* the top-up is then left for later.
LookUp(w, l, answered) ==
    LET known == {x \in DOMAIN onChain : l \in onChain[x].refs}
    IN  /\ look[w].at = Unmade /\ l \in look[w].due
        /\ look' = [look EXCEPT ![w] =
             [due |-> @.due \ {l},
              at |-> IF answered /\ known # {} THEN l ELSE Unmade,
              read |-> IF answered THEN known ELSE {}]]
        /\ UNCHANGED <<usdc, counted, onChain, tick>>

\* The signatures are taken oldest first; the end of the list ends the check.
Oldest(w, x) == x \in look[w].read /\ \A y \in look[w].read : x <= y

Onward(w, x) ==
    IF look[w].read = {x} THEN [look[w] EXCEPT !.at = Unmade, !.read = {}]
    ELSE [look[w] EXCEPT !.read = @ \ {x}]

\* A transaction that failed, cannot be read, or is no payment to this link.
SkipTransaction(w, x) ==
    /\ Oldest(w, x)
    /\ look' = [look EXCEPT ![w] = Onward(w, x)]
    /\ UNCHANGED <<usdc, counted, onChain, tick>>

\* SettleCryptoTopUp's transaction, under the row's lock.
SettleLink(l, x) ==
    IF ~Waiting(l) THEN usdc
    ELSE IF ~InRange(x)
    THEN [usdc EXCEPT ![l].status = "review", ![l].sig = x]
    ELSE [usdc EXCEPT ![l].status = "succeeded", ![l].sig = x,
                      ![l].credited = @ + ToCents(onChain[x].micro)]

\* The oldest unread transaction is settled: the check ends, unless another
\* top-up has the signature already.
SettlePayment(w, x) ==
    LET l == look[w].at
    IN  /\ Oldest(w, x)
        /\ IsPayment(x, l)
        /\ IF Waiting(l) /\ ~SignatureFree(x, l)
           THEN /\ look' = [look EXCEPT ![w] = Onward(w, x)]
                /\ UNCHANGED usdc
           ELSE /\ usdc' = SettleLink(l, x)
                /\ look' = [look EXCEPT ![w] = [@ EXCEPT !.at = Unmade, !.read = {}]]
        /\ UNCHANGED <<counted, onChain, tick>>

\* The settlement fails (the database, the account's billing address): the
\* transaction rolls back and the check ends.
SettleFails(w, x) ==
    /\ Oldest(w, x)
    /\ IsPayment(x, look[w].at)
    /\ look' = [look EXCEPT ![w] = [@ EXCEPT !.at = Unmade, !.read = {}]]
    /\ UNCHANGED <<usdc, counted, onChain, tick>>

CryptoNext ==
    \/ \E l \in Links : CountUnpaid(l) \/ InsertLink(l)
    \/ \E refs \in SUBSET Links \ {{}}, micro \in Transfers : Finalize(refs, micro)
    \/ Tick
    \/ \E w \in Watchers :
          \/ SweepLinks(w)
          \/ \E x \in DOMAIN onChain :
                SkipTransaction(w, x) \/ SettlePayment(w, x) \/ SettleFails(w, x)
          \/ \E l \in Links, answered \in BOOLEAN : LookUp(w, l, answered)

CryptoSpec == CryptoInit /\ [][CryptoNext]_cryptoVars

-----------------------------------------------------------------------------
\* However many top-ups one transaction names, and however many watchers look
\* at them, what it brought in is credited at most once, in whole cents
\* rounded down (crypto_topups.go:201-209).
TransactionPaysOnce ==
    \A x \in DOMAIN onChain :
        LET paid == {l \in Links : usdc[l].sig = x}
        IN  /\ Cardinality(paid) <= 1
            /\ \A l \in paid : usdc[l].credited * MicroPerCent <= onChain[x].micro
=============================================================================
