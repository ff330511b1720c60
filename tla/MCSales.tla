------------------------------- MODULE MCSales -------------------------------
(***************************************************************************)
(* Constants of the runs of SaleLifecycle and SaleReturns: two sales that  *)
(* want the same units, and the returns of a third.                        *)
(*                                                                         *)
(* The two share no state, so that one run checks both: a behaviour is one *)
(* of either, the other one being left as it begins.                       *)
(***************************************************************************)
EXTENDS SaleLifecycle, SaleReturns, TLC

CONSTANTS s1, s2, confirm1, confirm2, confirm3, cancel1, cancel2, ship1,
          deliver1, pay1, pay2, r1, r2, r3, d1, d2

TwoSales == {s1, s2}

Mixed == {confirm1, confirm2, confirm3, cancel1, cancel2, ship1, deliver1, pay1, pay2}

OpOf == [r \in Requests |->
  CASE r \in {confirm1, confirm2, confirm3} -> "confirm"
    [] r \in {cancel1, cancel2} -> "cancel"
    [] r = ship1 -> "ship"
    [] r = deliver1 -> "deliver"
    [] r \in {pay1, pay2} -> "pay"]

\* The third confirmation is of the other sale.
SaleOfRequest == [r \in Requests |-> IF r = confirm3 THEN s2 ELSE s1]

\* Requests that do the same to the same sale.
RequestSymmetry ==
  Permutations({confirm1, confirm2}) \cup Permutations({cancel1, cancel2})
    \cup Permutations({pay1, pay2})
-----------------------------------------------------------------------------
L(i, q, d, restock) ==
  [item |-> i, quantity |-> q, discount |-> d, restock |-> restock]

TwoItems   == {1, 2}
TwoAndOne  == 1 :> 2 @@ 2 :> 1
AllForOne  == 1 :> 1 @@ 2 :> 1

ThreeReturns  == {r1, r2, r3}

\* More than was sold, in two lines of the first item and at a discount; one damaged
\* unit of the second; all units of the first.
SomeLines ==
  r1 :> <<L(1, 1, 0, TRUE), L(1, 2, 1, FALSE), L(2, 1, 0, TRUE)>>
  @@ r2 :> <<L(2, 1, 0, FALSE)>>
  @@ r3 :> <<L(1, 2, 0, TRUE)>>

TwoRedeemers == {d1, d2}
ThreeAndTwo == d1 :> 3 @@ d2 :> 2
-----------------------------------------------------------------------------
VARIABLE model  \* the one of the two that this behaviour is of

bothVars == <<saleVars, vars, model>>

EitherInit == SaleInit /\ Init /\ model \in {"sales", "returns"}

EitherNext ==
  \/ model = "sales" /\ SaleNext /\ UNCHANGED <<vars, model>>
  \/ model = "returns" /\ Next /\ UNCHANGED <<saleVars, model>>

EitherSpec == EitherInit /\ [][EitherNext]_bothVars
=============================================================================
