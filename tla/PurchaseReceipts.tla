--------------------------- MODULE PurchaseReceipts ---------------------------
(***************************************************************************)
(* One purchase order from its submission to what is received against it   *)
(* and sent back: the transitions of PurchaseOrdersService, create() of    *)
(* GoodsReceiptsService, and create(), complete(), cancel() of             *)
(* PurchaseReturnsService.                                                 *)
(*                                                                         *)
(* The transitions read the order without a lock and save() it later.  A   *)
(* receipt locks each order item and adds up earlier receipts in a locking *)
(* read, which sees what is committed.  A return fixes its snapshot at its *)
(* first read, locks each order item and adds up earlier returns in a      *)
(* plain read, which sees that snapshot.                                   *)
(***************************************************************************)
EXTENDS Naturals, Sequences, FiniteSets, FiniteSetsExt, Functions

CONSTANTS
  OrderItems,     \* the order's items, as their ranks in the sort order
  Ordered,        \* quantity of each
  OrderRequests,  \* the HTTP requests
  OrderOp,        \* what each request does
  ReceiptLines,   \* lines of receipts and returns, [item, quantity, rejected], in item order
  Year,           \* year of a receipt, which names its number counter
  ReturnOf,       \* the return that complete() or cancel() names
  MaxUnderWay     \* requests that may be under way at one time

Transitions == {"submit", "approve", "confirm", "reject", "cancel", "close"}
OrderOps == Transitions \cup {"receive", "return", "complete", "withdraw"}

Doing(ops) == {r \in OrderRequests : OrderOp[r] \in ops}
Receivers  == Doing({"receive"})
Returners  == Doing({"return"})
Movers     == Doing(Transitions)

ASSUME ReceiptsAssumption ==
  /\ OrderItems \subseteq Nat /\ Ordered \in [OrderItems -> Nat]
  /\ OrderOp \in [OrderRequests -> OrderOps]
  /\ ReceiptLines \in [OrderRequests -> Seq([item : OrderItems, quantity : Nat, rejected : Nat])]
  /\ \A r \in Receivers \cup Returners : ReceiptLines[r] # <<>>
  /\ \A r \in Returners : \A n \in DOMAIN ReceiptLines[r] :
       ReceiptLines[r][n].quantity > 0 /\ ReceiptLines[r][n].rejected = 0
  /\ ReturnOf \in [Doing({"complete", "withdraw"}) -> Returners]
  /\ MaxUnderWay \in Nat

VARIABLES
  orderStatus,  \* status of the order
  receipts,     \* the receipts that are committed
  returns,      \* status of each return, NONE before it is inserted
  at,           \* where each request is
  itemLocks,    \* the order items its transaction has locked
  nextLine,     \* its next line
  snapshot,     \* the receipts and returns in its snapshot
  assigned,     \* the status a transition has assigned
  reread,       \* the status its save() has read
  raced,        \* history: the order changed under a transition that had read it
  unseen        \* history: items of which a return did not see another one

orderRows    == <<orderStatus, receipts, returns, raced, unseen>>
requestLocal == <<itemLocks, nextLine, snapshot, assigned, reread>>
orderVars    == <<orderRows, requestLocal, at>>
-----------------------------------------------------------------------------
OrderStatus == {"DRAFT", "SUBMITTED", "APPROVED", "CONFIRMED", "REJECTED", "CLOSED",
                "CANCELLED"}

\* ALLOWED_TRANSITIONS
Successors == [s \in OrderStatus |->
  CASE s = "DRAFT"     -> {"SUBMITTED", "APPROVED", "CONFIRMED", "CANCELLED"}
    [] s = "SUBMITTED" -> {"APPROVED", "CONFIRMED", "REJECTED", "CANCELLED"}
    [] s \in {"APPROVED", "CONFIRMED"} -> {"CLOSED"}
    [] OTHER -> {}]

Goal == [submit |-> "SUBMITTED", approve |-> "APPROVED", confirm |-> "CONFIRMED",
         reject |-> "REJECTED", cancel |-> "CANCELLED", close |-> "CLOSED"]

LinesWith(r, i) == {n \in DOMAIN ReceiptLines[r] : ReceiptLines[r][n].item = i}

\* Units of item i in the lines of request r, and of the requests in S.
HandledBy(r, i) ==
  SumFunctionOnSet([n \in DOMAIN ReceiptLines[r] |->
                      ReceiptLines[r][n].quantity + ReceiptLines[r][n].rejected],
                   LinesWith(r, i))
GoodsOf(r, i) ==
  SumFunctionOnSet([n \in DOMAIN ReceiptLines[r] |-> ReceiptLines[r][n].quantity],
                   LinesWith(r, i))

Handled(S, i) == SumFunctionOnSet([r \in OrderRequests |-> HandledBy(r, i)], S)
Goods(S, i)   == SumFunctionOnSet([r \in OrderRequests |-> GoodsOf(r, i)], S)

ReturnsMade == {r \in Returners : returns[r] \notin {"NONE", "CANCELLED"}}
Nothing == [receipts |-> {}, returns |-> {}]

OrderInit ==
  /\ orderStatus = "DRAFT" /\ receipts = {}
  /\ returns = [r \in Returners |-> "NONE"]
  /\ at        = [r \in OrderRequests |-> "idle"]
  /\ itemLocks = [r \in OrderRequests |-> {}]
  /\ nextLine  = [r \in OrderRequests |-> 1]
  /\ snapshot  = [r \in OrderRequests |-> Nothing]
  /\ assigned  = [r \in Movers |-> "DRAFT"]
  /\ reread    = [r \in Movers |-> "DRAFT"]
  /\ raced = FALSE /\ unseen = {}

UnderWay(r) == at[r] \notin {"idle", "done"}
MayBegin == Cardinality({r \in OrderRequests : UnderWay(r)}) < MaxUnderWay
Goto(r, where) == at' = [at EXCEPT ![r] = where]

\* A refused request changes nothing, and is no step; it may be sent again.
End(r, where) ==
  /\ Goto(r, where)
  /\ itemLocks' = [itemLocks EXCEPT ![r] = {}]
  /\ nextLine'  = [nextLine EXCEPT ![r] = 1]
  /\ snapshot'  = [snapshot EXCEPT ![r] = Nothing]
  /\ UNCHANGED <<assigned, reread>>
-----------------------------------------------------------------------------
\* GoodsReceiptsService.create(): the plain read of the order.
ReadOrder(r) ==
  /\ at[r] = "idle" /\ r \in Receivers /\ MayBegin
  /\ orderStatus \in {"APPROVED", "CONFIRMED"}
  /\ Goto(r, "begin")
  /\ snapshot' = [snapshot EXCEPT ![r].receipts = receipts]
  /\ UNCHANGED <<orderRows, itemLocks, nextLine, assigned, reread>>

\* generateReceiptNumber(): the year's counter is locked until the end.
LockCounter(r) ==
  /\ at[r] = "begin"
  /\ \A q \in Receivers : at[q] \in {"lock", "commit"} => Year[q] # Year[r]
  /\ Goto(r, "lock")
  /\ UNCHANGED <<orderRows, requestLocal>>

\* PurchaseReturnsService.create(): its first reads; what was received is read here.
BeginReturn(r) ==
  /\ at[r] = "idle" /\ r \in Returners /\ MayBegin
  /\ Goto(r, "lock")
  /\ snapshot' = [snapshot EXCEPT ![r] = [receipts |-> receipts, returns |-> ReturnsMade]]
  /\ UNCHANGED <<orderRows, itemLocks, nextLine, assigned, reread>>

\* Slip: a plain SUM, as before the comment in the code.
FitsInSnapshot(r, l) ==
  IF r \in Receivers
  THEN Handled(snapshot[r].receipts, l.item) + l.quantity + l.rejected <= Ordered[l.item]
  ELSE Goods(snapshot[r].returns, l.item) + l.quantity
         <= Goods(snapshot[r].receipts, l.item)

\* Slip: drafts are not counted.
FitsCompleted(r, l) ==
  IF r \in Receivers
  THEN Handled(receipts, l.item) + l.quantity + l.rejected <= Ordered[l.item]
  ELSE Goods({q \in snapshot[r].returns : returns[q] = "COMPLETED"}, l.item) + l.quantity
         <= Goods(snapshot[r].receipts, l.item)

\* What remains of the order item, by the locking SUM for a receipt, by the
\* snapshot for a return, is enough for the line.
Fits(r, l) ==
  IF r \in Receivers
  THEN Handled(receipts, l.item) + l.quantity + l.rejected <= Ordered[l.item]
  ELSE Goods(snapshot[r].returns, l.item) + l.quantity
         <= Goods(snapshot[r].receipts, l.item)

\* The next line's order item is locked and the line is checked.
LockOrderItem(r) ==
  LET l == ReceiptLines[r][nextLine[r]] IN
  /\ at[r] = "lock"
  /\ \A q \in OrderRequests \ {r} : l.item \notin itemLocks[q]
  /\ Fits(r, l)
  /\ itemLocks' = [itemLocks EXCEPT ![r] = @ \cup {l.item}]
  /\ nextLine'  = [nextLine EXCEPT ![r] = @ + 1]
  /\ Goto(r, IF nextLine[r] = Len(ReceiptLines[r]) THEN "commit" ELSE "lock")
  /\ UNCHANGED <<orderRows, snapshot, assigned, reread>>

\* The receipt, its items, the stock and the movements become visible.
CommitReceipt(r) ==
  /\ at[r] = "commit" /\ r \in Receivers
  /\ receipts' = receipts \cup {r}
  /\ End(r, "done")
  /\ UNCHANGED <<orderStatus, returns, raced, unseen>>

\* The return is inserted as DRAFT.
CommitReturn(r) ==
  /\ at[r] = "commit" /\ r \in Returners
  /\ returns' = [returns EXCEPT ![r] = "DRAFT"]
  /\ unseen' = unseen \cup {i \in itemLocks[r] :
       \E q \in ReturnsMade \ snapshot[r].returns : GoodsOf(q, i) > 0}
  /\ End(r, "done")
  /\ UNCHANGED <<orderStatus, receipts, raced>>

\* A line does not fit, a statement fails, the process dies.
Abandon(r) ==
  /\ at[r] \in {"begin", "lock", "commit"}
  /\ End(r, "idle")
  /\ UNCHANGED orderRows

\* complete() and cancel() of a return, under its lock from the first read on.
Settle(r) ==
  /\ at[r] = "idle" /\ OrderOp[r] \in {"complete", "withdraw"} /\ MayBegin
  /\ returns[ReturnOf[r]] = "DRAFT"
  /\ returns' = [returns EXCEPT ![ReturnOf[r]] =
                  IF OrderOp[r] = "complete" THEN "COMPLETED" ELSE "CANCELLED"]
  /\ Goto(r, "done")
  /\ UNCHANGED <<orderStatus, receipts, raced, unseen, requestLocal>>
-----------------------------------------------------------------------------
AllHandled == \A i \in OrderItems : Handled(receipts, i) >= Ordered[i]

\* Slip: nobody asks for outstanding quantities, or for receipts.
MayMoveBlindly(r) == Goal[OrderOp[r]] \in Successors[orderStatus]

\* assertTransitionAllowed(), the count of receipts of cancel() and
\* assertCloseable(), whose balance depends on payments.
MayMove(r) ==
  /\ Goal[OrderOp[r]] \in Successors[orderStatus]
  /\ OrderOp[r] = "cancel" => receipts = {}
  /\ OrderOp[r] = "close" => receipts # {} /\ AllHandled

\* A transition reads the order without a lock, checks it and assigns the status.
BeginTransition(r) ==
  /\ at[r] = "idle" /\ r \in Movers /\ MayBegin
  /\ MayMove(r)
  /\ Goto(r, "save") /\ assigned' = [assigned EXCEPT ![r] = Goal[OrderOp[r]]]
  /\ UNCHANGED <<orderRows, itemLocks, nextLine, snapshot, reread>>

\* save() reads the order again.
TransitionReads(r) ==
  /\ at[r] = "save"
  /\ reread' = [reread EXCEPT ![r] = orderStatus]
  /\ Goto(r, "update")
  /\ UNCHANGED <<orderRows, itemLocks, nextLine, snapshot, assigned>>

\* And updates the status if it differs.
TransitionUpdates(r) ==
  /\ at[r] = "update"
  /\ orderStatus' = IF assigned[r] # reread[r] THEN assigned[r] ELSE orderStatus
  /\ raced' = (raced \/ \E q \in Movers \ {r} : UnderWay(q))
  /\ Goto(r, "done")
  /\ assigned' = [assigned EXCEPT ![r] = "DRAFT"] /\ reread' = [reread EXCEPT ![r] = "DRAFT"]
  /\ UNCHANGED <<receipts, returns, unseen, itemLocks, nextLine, snapshot>>

OrderNext ==
  \E r \in OrderRequests :
    \/ ReadOrder(r) \/ LockCounter(r) \/ BeginReturn(r) \/ LockOrderItem(r)
    \/ CommitReceipt(r) \/ CommitReturn(r) \/ Abandon(r) \/ Settle(r)
    \/ BeginTransition(r) \/ TransitionReads(r) \/ TransitionUpdates(r)

OrderSpec == OrderInit /\ [][OrderNext]_orderVars
-----------------------------------------------------------------------------
\* Items that one of the requests names in two lines, each checked without the other.
NamedTwice(S) == {i \in OrderItems : \E r \in S : Cardinality(LinesWith(r, i)) > 1}

\* Concurrent receipts of one order item, also of two years, whose number counters
\* do not keep them apart, never handle more than was ordered, unless one of them
\* names the item twice.
HandledWithinOrdered ==
  \A i \in OrderItems \ NamedTwice(receipts) : Handled(receipts, i) <= Ordered[i]

\* The returns that are not cancelled send back no more of an item than was
\* received, unless one of them was created in a snapshot that misses another, or
\* names the item twice.
ReturnedWithinReceived ==
  \A i \in OrderItems \ (unseen \cup NamedTwice(ReturnsMade)) :
    Goods(ReturnsMade, i) <= Goods(receipts, i)

\* Goods are received against a released order only, and it is closed only when
\* everything is handled: no approval, cancellation or rejection comes between,
\* unless two transitions of the order overlap.
StatusFitsReceipts ==
  /\ orderStatus = "CLOSED" => receipts # {} /\ AllHandled
  /\ ~raced /\ receipts # {} => orderStatus \in {"APPROVED", "CONFIRMED", "CLOSED"}
=============================================================================
