--------------------------- MODULE MCCreditLedger ---------------------------
(***************************************************************************)
(* Small instances of CreditLedger for TLC.                                *)
(***************************************************************************)
EXTENDS CreditLedger

\* A grant that lapses at time 1, and a purchase.
GrantAndPurchase       == <<3, 2>>
GrantThenNeverExpiring == <<1, 2>>

\* Two usage records; each settlement may be tried more than once.
Prices      == [r \in {"r1", "r2"} |-> IF r = "r1" THEN 2 ELSE 3]
TwoForFirst == [t \in {"t1", "t2", "t3"} |-> IF t = "t3" THEN "r2" ELSE "r1"]
=============================================================================
