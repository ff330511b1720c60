------------------------------ MODULE StockBook ------------------------------
(***************************************************************************)
(* What the inventory promises to the documents that move stock: each is   *)
(* posted as one indivisible step that adds its whole effect to the        *)
(* balances and takes no more than there is.  Row locks, transactions and  *)
(* movements are not visible here.                                         *)
(***************************************************************************)
EXTENDS Integers

CONSTANTS
  Keys,        \* the (warehouse, product variant) pairs
  Documents,   \* the documents that move stock
  Delta,       \* Delta[d][k]: what document d adds to the balance of k
  Opening,     \* the balances before the first document
  Repeatable,  \* documents that may be posted again
  Unguarded    \* Unguarded[d]: balances that d may overdraw

VARIABLES
  balance,  \* the quantity on hand of each pair
  posted    \* the documents posted so far

vars == <<balance, posted>>

Init == balance = Opening /\ posted = {}

Post(d) ==
  /\ d \in posted => d \in Repeatable
  /\ posted'  = posted \cup {d}
  /\ balance' = [k \in Keys |-> balance[k] + Delta[d][k]]
  /\ \A k \in Keys \ Unguarded[d] : Delta[d][k] < 0 => balance'[k] >= 0

Spec == Init /\ [][\E d \in Documents : Post(d)]_vars
=============================================================================
