--------------------------- MODULE PrepaidAccount ---------------------------
(***************************************************************************)
(* What the credit ledger promises for an account whose credit never       *)
(* lapses: money is added in one step, and each usage record is paid once, *)
(* in one step, with as much of its cost as the balance covers.            *)
(***************************************************************************)
EXTENDS Integers

CONSTANTS
  Records,   \* usage records
  Cost,      \* Cost[r]: price of record r
  Deposits   \* amounts that may be granted or bought

VARIABLES
  balance,   \* spendable credit
  drawn      \* drawn[r]: what record r was paid with, 0 while unpaid

Init ==
  /\ balance = 0
  /\ drawn = [r \in Records |-> 0]

Deposit(a) ==
  /\ balance' = balance + a
  /\ UNCHANGED drawn

Pay(r) ==
  LET amount == IF Cost[r] <= balance THEN Cost[r] ELSE balance
  IN  /\ drawn[r] = 0
      /\ amount > 0
      /\ drawn' = [drawn EXCEPT ![r] = amount]
      /\ balance' = balance - amount

Next ==
  \/ \E a \in Deposits : Deposit(a)
  \/ \E r \in Records : Pay(r)

Spec == Init /\ [][Next]_<<balance, drawn>>
=============================================================================
