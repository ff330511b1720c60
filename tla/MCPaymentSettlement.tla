------------------------ MODULE MCPaymentSettlement ------------------------
(***************************************************************************)
(* Constants of the model-checking runs of PaymentSettlement.              *)
(***************************************************************************)
EXTENDS PaymentSettlement, TLC

CONSTANTS k1, both, both2, again, first, reverse1, reverse2, move, void1, post1,
          credit1, close2

TwoInvoices == {1, 2}
TotalOfTwo  == [i \in TwoInvoices |-> 2]
TotalOfOne  == [i \in TwoInvoices |-> 1]
OnlySecond  == {2}

OpOf == [r \in Requests |->
  CASE r \in {both, both2, again, first} -> "pay"
    [] r \in {reverse1, reverse2} -> "reverse"
    [] r = move -> "reallocate"
    [] r = post1 -> "post"
    [] r = void1 -> "void"
    [] r = credit1 -> "credit"
    [] r = close2 -> "close"]

\* A payment of both invoices; one of the second and its retry in another year,
\* which two requests reverse and one moves to the first.
TargetsOf == [r \in Requests |->
  CASE r \in {both, both2} -> {1, 2}
    [] r \in {first, again, close2} -> {2}
    [] OTHER -> {1}]

KeyOfPay  == [r \in Requests |-> IF r \in {first, again} THEN k1 ELSE None]
YearOf    == [r \in Requests |-> IF r \in {again, both2} THEN 2026 ELSE 2025]
NamedBy   == [r \in Doing({"reverse", "reallocate"}) |-> first]

Mixed == {both, both2, again, first, reverse1, reverse2, move, void1, post1,
          credit1, close2}

\* Requests that do the same to the same rows.
RequestSymmetry == Permutations({reverse1, reverse2})
=============================================================================
