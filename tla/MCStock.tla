------------------------------- MODULE MCStock -------------------------------
(***************************************************************************)
(* Constants of the runs of StockLedger and PurchaseReceipts: the stock of *)
(* two variants in one warehouse, ranked 1 and 2, and of the first in      *)
(* another, ranked 3; a purchase order of two units of one item and one of *)
(* another.                                                                *)
(*                                                                         *)
(* The two share no state, so that one run checks both: a behaviour is one *)
(* of either, the other one being left as it begins.                       *)
(***************************************************************************)
EXTENDS StockSerial, PurchaseReceipts, TLC

CONSTANTS sale, twoLines, transfer, adjust, receipt, back, supplier,
          confirm1, confirm2, confirm3, move1, count1, receive1, take1, take2,
          send1,
          submit1, approve1, acknowledge1, reject1, cancel1, close1, goods1, goods2,
          goods3, return1, return2, return3, complete1, withdraw1

L(k, c) == [key |-> k, change |-> c]

ThreeKeys == 1..3

AllDocuments == {sale, twoLines, transfer, adjust, receipt, back, supplier}

KindOfDocument ==
  sale :> "issue" @@ twoLines :> "issue" @@ transfer :> "transfer"
  @@ adjust :> "adjustment" @@ receipt :> "receipt"
  @@ back :> "saleReturn" @@ supplier :> "purchaseReturn"

\* A sale and one of a single row in two lines, a transfer out of that row, a
\* write-off, a receipt whose order items are not in the order of their
\* variants, a customer's and a supplier's return.
LinesOfDocument ==
  sale :> <<L(2, -1), L(1, -1)>> @@ twoLines :> <<L(3, -1), L(3, -1)>>
  @@ transfer :> <<L(3, -1), L(1, 1)>>
  @@ adjust :> <<L(2, -1)>> @@ receipt :> <<L(2, 2), L(1, 1)>>
  @@ back :> <<L(1, 1), L(2, 1)>> @@ supplier :> <<L(1, -1), L(1, -1)>>

\* The sale is confirmed twice, and the customer's return too.
AllRequests == {confirm1, confirm2, confirm3, move1, count1, receive1, take1,
                take2, send1}

DocumentOf ==
  [r \in Requests |->
    CASE r \in {confirm1, confirm2} -> sale [] r = confirm3 -> twoLines
      [] r = move1 -> transfer [] r = count1 -> adjust
      [] r = receive1 -> receipt [] r \in {take1, take2} -> back
      [] r = send1 -> supplier]

OneOfEach == [k \in Keys |-> 1]

RequestSymmetry == Permutations({confirm1, confirm2}) \cup Permutations({take1, take2})
-----------------------------------------------------------------------------
TwoItems  == {1, 2}
TwoAndOne == 1 :> 2 @@ 2 :> 1

Part(i, q, n) == [item |-> i, quantity |-> q, rejected |-> n]

OrderOpOf == [r \in OrderRequests |->
  CASE r = submit1 -> "submit" [] r = approve1 -> "approve"
    [] r = acknowledge1 -> "confirm" [] r = reject1 -> "reject"
    [] r = cancel1 -> "cancel" [] r = close1 -> "close"
    [] r \in {goods1, goods2, goods3} -> "receive"
    [] r \in {return1, return2, return3} -> "return"
    [] r = complete1 -> "complete" [] r = withdraw1 -> "withdraw"]

\* All of the order, one unit received and one rejected of the first item in two
\* lines, one unit; all of it, one unit in each of two lines, and one unit go back.
PartsOf == [r \in OrderRequests |->
  CASE r = goods1 -> <<Part(1, 2, 0), Part(2, 1, 0)>>
    [] r = goods2 -> <<Part(1, 1, 0), Part(1, 0, 1), Part(2, 0, 1)>>
    [] r = goods3 -> <<Part(1, 1, 0)>>
    [] r = return1 -> <<Part(1, 2, 0), Part(2, 1, 0)>>
    [] r = return2 -> <<Part(1, 1, 0), Part(1, 1, 0)>>
    [] r = return3 -> <<Part(1, 1, 0)>>
    [] OTHER -> <<>>]

YearOf   == [r \in OrderRequests |-> IF r = goods3 THEN 2026 ELSE 2025]
ReturnBy == [r \in Doing({"complete", "withdraw"}) |->
              IF r = complete1 THEN return1 ELSE return2]

AllOfOrder == {submit1, approve1, acknowledge1, reject1, cancel1, close1,
               goods1, goods2, goods3, return1, return2, return3, complete1, withdraw1}
-----------------------------------------------------------------------------
VARIABLE model  \* the one of the two that this behaviour is of

bothVars == <<vars, orderVars, model>>

EitherInit == Init /\ OrderInit /\ model \in {"stock", "order"}

EitherNext ==
  \/ model = "stock" /\ Next /\ UNCHANGED <<orderVars, model>>
  \/ model = "order" /\ OrderNext /\ UNCHANGED <<vars, model>>

EitherSpec == EitherInit /\ [][EitherNext]_bothVars
=============================================================================
