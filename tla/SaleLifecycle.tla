---------------------------- MODULE SaleLifecycle ----------------------------
(***************************************************************************)
(* The life of a sale after it was created (modules/sales/services) under  *)
(* concurrent requests: confirm(), cancel(), ship(), deliver() and the     *)
(* applyPayment() of a receipt.                                            *)
(*                                                                         *)
(* All but applyPayment() read the sale without a lock, check what they    *)
(* read, and save() the entity later: TypeORM reads the row again and      *)
(* updates the columns in which the entity differs from that second read.  *)
(* applyPayment() works under SELECT ... FOR UPDATE.  The sales have one   *)
(* item each, all of one stock row, which confirm() locks.                 *)
(***************************************************************************)
EXTENDS Naturals, FiniteSets, FiniteSetsExt, Functions

CONSTANTS
  Sales,       \* the sales
  Requests,    \* the HTTP requests
  None,        \* no request
  Op,          \* what each request does
  SaleOf,      \* the sale it does it to
  SaleTotal,   \* grandTotal of every sale
  PerSale,     \* base quantity of the item of every sale
  Opening      \* onHandQuantity before the first confirmation

Ops == {"confirm", "cancel", "ship", "deliver", "pay"}

ASSUME SaleAssumption ==
  /\ None \notin Requests
  /\ Op \in [Requests -> Ops] /\ SaleOf \in [Requests -> Sales]
  /\ SaleTotal \in Nat /\ Opening \in Nat /\ PerSale \in Nat \ {0}

ASSUME SalesAssumption == IsFiniteSet(Sales)

VARIABLES
  sale,       \* the sales rows: status, fulfillmentStatus, paidAmount
  onHand,     \* committed onHandQuantity of the stock row
  issued,     \* committed SALE_ISSUE movements of each sale
  earned,     \* sales with an EARN transaction, UNIQUE per sale
  allocated,  \* history: payments committed against each sale
  cancels,    \* history: the cancellations that found their sale DRAFT
  doubled,    \* history: sales with two confirmations under way at one time
  overtaken,  \* history: sales paid between a request's read and its save()'s
  stockLock,  \* the request whose transaction has the stock row
  saleLock,   \* the payment whose transaction has each sale row
  stage,      \* where each request is
  entity,     \* the sale as the request changes it
  seen,       \* the row as save() has read it, or as applyPayment() has
  quantity    \* onHandQuantity as confirm() has read it under its lock

stored   == <<sale, onHand, issued, earned, allocated>>
locks    == <<stockLock, saleLock>>
history  == <<cancels, doubled, overtaken>>
working  == <<entity, seen, quantity>>
saleVars == <<stored, history, locks, stage, working>>
-----------------------------------------------------------------------------
SaleStatus  == {"DRAFT", "CONFIRMED", "CANCELLED"}
Fulfillment == {"NULL", "PENDING_SHIPMENT", "SHIPPED", "DELIVERED"}
Sale        == [status : SaleStatus, fulfillment : Fulfillment, paid : 0..SaleTotal]
Draft       == [status |-> "DRAFT", fulfillment |-> "NULL", paid |-> 0]

\* Slip: ship() refuses only what is shipped already.
AllowedUnlessShipped(op, s) ==
  \/ op \in {"confirm", "cancel"} /\ s.status = "DRAFT"
  \/ op = "ship" /\ s.fulfillment # "SHIPPED"
  \/ op = "deliver" /\ s.fulfillment = "SHIPPED"

\* The guards of the handlers, over the sale they have read.
Allowed(op, s) ==
  \/ op \in {"confirm", "cancel"} /\ s.status = "DRAFT"
  \/ op = "ship" /\ s.fulfillment = "PENDING_SHIPMENT"
  \/ op = "deliver" /\ s.fulfillment = "SHIPPED"

\* What the handlers assign to the entity.
Changed(op, s) ==
  CASE op = "confirm" -> [s EXCEPT !.status = "CONFIRMED",
                                   !.fulfillment = "PENDING_SHIPMENT"]
    [] op = "cancel"  -> [s EXCEPT !.status = "CANCELLED"]
    [] op = "ship"    -> [s EXCEPT !.fulfillment = "SHIPPED"]
    [] op = "deliver" -> [s EXCEPT !.fulfillment = "DELIVERED"]

\* Slip: every column is written.
SaveWhole(row, e, read) == e

\* UPDATE of the columns of row in which e differs from what save() read.
Save(row, e, read) ==
  [c \in DOMAIN row |-> IF e[c] # read[c] THEN e[c] ELSE row[c]]

SaleInit ==
  /\ sale = [s \in Sales |-> Draft]
  /\ onHand = Opening
  /\ issued    = [s \in Sales |-> 0]
  /\ allocated = [s \in Sales |-> 0]
  /\ earned = {} /\ cancels = {} /\ doubled = {} /\ overtaken = {}
  /\ stockLock = None
  /\ saleLock = [s \in Sales |-> None]
  /\ stage  = [r \in Requests |-> "idle"]
  /\ entity = [r \in Requests |-> Draft]
  /\ seen   = [r \in Requests |-> Draft]
  /\ quantity = [r \in Requests |-> 0]
-----------------------------------------------------------------------------
Proceed(r, where) == stage' = [stage EXCEPT ![r] = where]

\* A request that its guards refuse changes nothing, and is no step.
Finish(r) ==
  /\ Proceed(r, "done")
  /\ entity'   = [entity EXCEPT ![r] = Draft]
  /\ seen'     = [seen EXCEPT ![r] = Draft]
  /\ quantity' = [quantity EXCEPT ![r] = 0]

\* The confirmations of a sale whose transaction is open or about to begin.
Confirmations(s) ==
  {q \in Requests : /\ Op[q] = "confirm" /\ SaleOf[q] = s
                    /\ stage[q] \in {"stock", "commit"}}

\* The requests that have read s and whose save() has yet to read it.
Readers(s) == {q \in Requests : SaleOf[q] = s /\ stage[q] \in {"stock", "save"}}

\* findByIdInCompany() and the check of the status.
Read(r) ==
  /\ stage[r] = "idle" /\ Op[r] # "pay"
  /\ Allowed(Op[r], sale[SaleOf[r]])
  /\ entity' = [entity EXCEPT ![r] = Changed(Op[r], sale[SaleOf[r]])]
  /\ cancels' = IF Op[r] = "cancel" THEN cancels \cup {r} ELSE cancels
  /\ doubled' = IF Op[r] = "confirm" /\ Confirmations(SaleOf[r]) # {}
                THEN doubled \cup {SaleOf[r]} ELSE doubled
  /\ Proceed(r, IF Op[r] = "confirm" THEN "stock" ELSE "save")
  /\ UNCHANGED <<stored, overtaken, locks, seen, quantity>>

\* Slip: the stock row is read without its lock.
LockStockNot(r) ==
  /\ stage[r] = "stock" /\ onHand >= PerSale
  /\ seen' = [seen EXCEPT ![r] = sale[SaleOf[r]]]
  /\ quantity' = [quantity EXCEPT ![r] = onHand]
  /\ Proceed(r, "commit")
  /\ UNCHANGED <<stored, history, locks, entity>>

\* confirm()'s transaction takes the stock row, checks it and, inserting the
\* movement, fixes the snapshot that save() will read the sale from.
LockStock(r) ==
  /\ stage[r] = "stock" /\ stockLock = None
  /\ onHand >= PerSale
  /\ stockLock' = r
  /\ seen' = [seen EXCEPT ![r] = sale[SaleOf[r]]]
  /\ quantity' = [quantity EXCEPT ![r] = onHand]
  /\ Proceed(r, "commit")
  /\ UNCHANGED <<stored, history, saleLock, entity>>

\* Stock, movement, sale and loyalty points become visible together; the
\* UPDATE of the sale waits for a payment that has the row.
CommitConfirm(r) ==
  LET s == SaleOf[r] IN
  /\ stage[r] = "commit" /\ saleLock[s] = None
  /\ onHand' = quantity[r] - PerSale
  /\ issued' = [issued EXCEPT ![s] = @ + 1]
  /\ sale'   = [sale EXCEPT ![s] = Save(@, entity[r], seen[r])]
  /\ earned' = earned \cup {s}
  /\ stockLock' = None
  /\ Finish(r)
  /\ UNCHANGED <<allocated, history, saleLock>>

\* A line lacks stock, a statement of the transaction fails or the process dies.
RollbackConfirm(r) ==
  /\ stage[r] \in {"stock", "commit"}
  /\ stockLock' = IF stockLock = r THEN None ELSE stockLock
  /\ Finish(r)
  /\ UNCHANGED <<stored, history, saleLock>>

\* cancel(), ship(), deliver(): the second read, in save().
SaveReads(r) ==
  /\ stage[r] = "save"
  /\ seen' = [seen EXCEPT ![r] = sale[SaleOf[r]]]
  /\ Proceed(r, "update")
  /\ UNCHANGED <<stored, history, locks, entity, quantity>>

\* And its UPDATE.
SaveUpdates(r) ==
  LET s == SaleOf[r] IN
  /\ stage[r] = "update" /\ saleLock[s] = None
  /\ sale' = [sale EXCEPT ![s] = Save(@, entity[r], seen[r])]
  /\ Finish(r)
  /\ UNCHANGED <<onHand, issued, earned, allocated, history, locks>>

\* applyPayment() of a payment of 1 locks the sale and reads it; an amount
\* above the grand total is refused.
LockSale(r) ==
  LET s == SaleOf[r] IN
  /\ stage[r] = "idle" /\ Op[r] = "pay" /\ saleLock[s] = None
  /\ sale[s].paid + 1 <= SaleTotal
  /\ saleLock' = [saleLock EXCEPT ![s] = r]
  /\ seen' = [seen EXCEPT ![r] = sale[s]]
  /\ Proceed(r, "pay")
  /\ UNCHANGED <<stored, history, stockLock, entity, quantity>>

\* The payment's transaction commits the new paidAmount, with its allocation.
CommitPayment(r) ==
  LET s == SaleOf[r] IN
  /\ stage[r] = "pay"
  /\ sale' = [sale EXCEPT ![s].paid = seen[r].paid + 1]
  /\ allocated' = [allocated EXCEPT ![s] = @ + 1]
  /\ saleLock' = [saleLock EXCEPT ![s] = None]
  /\ overtaken' = IF Readers(s) # {} THEN overtaken \cup {s} ELSE overtaken
  /\ Finish(r)
  /\ UNCHANGED <<onHand, issued, earned, cancels, doubled, stockLock>>

\* Another target, the posting or the process fails.
RollbackPayment(r) ==
  /\ stage[r] = "pay"
  /\ saleLock' = [saleLock EXCEPT ![SaleOf[r]] = None]
  /\ Finish(r)
  /\ UNCHANGED <<stored, history, stockLock>>

SaleNext ==
  \E r \in Requests :
    \/ Read(r) \/ LockStock(r) \/ CommitConfirm(r) \/ RollbackConfirm(r)
    \/ SaveReads(r) \/ SaveUpdates(r)
    \/ LockSale(r) \/ CommitPayment(r) \/ RollbackPayment(r)

SaleSpec == SaleInit /\ [][SaleNext]_saleVars
-----------------------------------------------------------------------------
\* sales.service.ts 961-963: confirm() "is only reachable once per Sale, since a
\* second call fails assertTransitionAllowed()": the units of a sale leave the
\* stock once.
IssuedOnce == \A s \in Sales : issued[s] <= 1

\* Units leave the stock only through a recorded issue and never more than
\* there are, also when confirmations compete for the last of them; and those
\* of a sale leave it once, whatever stale save() of its status came between,
\* unless two confirmations of the sale were under way at one time.
StockAccounted ==
  /\ onHand + PerSale * SumFunctionOnSet(issued, Sales) = Opening
  /\ onHand >= 0
  /\ \A s \in Sales \ doubled : issued[s] <= 1

\* What is shipped or waits for shipment was issued from stock, as was what
\* says CONFIRMED and what earned points: no stale save() makes it so without
\* the issue.  No CONFIRMED sale loses its fulfillment status, unless two
\* cancellations have read it as a draft.
ConfirmedWasIssued ==
  \A s \in Sales :
    /\ sale[s].status = "CONFIRMED"
       /\ (\A q, r \in cancels : SaleOf[q] = s /\ SaleOf[r] = s => q = r)
       => sale[s].fulfillment # "NULL"
    /\ sale[s].fulfillment # "NULL" \/ sale[s].status = "CONFIRMED" \/ s \in earned
       => issued[s] > 0

\* paidAmount is the total of the payments allocated to the sale, and within
\* the grand total, although confirm(), cancel(), ship() and deliver() save a
\* sale that was read without a lock: only a payment that commits between such a
\* request's first read of the sale and its save()'s can be lost.
PaymentsAddUp ==
  \A s \in Sales \ overtaken :
    sale[s].paid = allocated[s] /\ allocated[s] <= SaleTotal
=============================================================================
