----------------------------- MODULE SaleReturns -----------------------------
(***************************************************************************)
(* Customer returns of one confirmed sale (modules/sales-returns):         *)
(* create(), confirm(), cancel() of SaleReturnsService and the applyRefund *)
(* that a refund payment calls; and redeem() of LoyaltyService, which      *)
(* spends the points that the sale has earned and a return takes back.     *)
(*                                                                         *)
(* create() reads the sale first, which fixes the snapshot its plain reads *)
(* see (MySQL REPEATABLE READ), then locks each SaleItem and adds up the   *)
(* returns it can see.  The three others work under the lock of the return *)
(* row, which they take before they read anything, and are atomic here.    *)
(* redeem() reads the loyalty program first, then locks the points of the  *)
(* customer, and adds up those its snapshot shows.                         *)
(***************************************************************************)
EXTENDS Integers, Sequences, FiniteSets, FiniteSetsExt, Functions

CONSTANTS
  Items,       \* the sale's items, as their ranks in the sort order
  Sold,        \* quantity of each item
  Price,       \* unitPriceSnapshot of each item
  GrandTotal,  \* grandTotal of the sale: prices less line discounts
  Earned,      \* points of the sale's EARN transaction
  Returns,     \* the returns that may be requested
  Lines,       \* lines of each, [item, quantity, discount, restock], in item order
  Redeemers,   \* the customer's requests to redeem, which may be sent again
  Points,      \* points that each asks for
  MaxOpen      \* transactions of create() and redeem() open at one time

ASSUME ReturnsAssumption ==
  /\ Items \subseteq Nat
  /\ Sold \in [Items -> Nat] /\ Price \in [Items -> Nat]
  /\ GrandTotal \in Nat \ {0} /\ Earned \in Nat /\ MaxOpen \in Nat
  /\ Points \in [Redeemers -> Nat \ {0}]
  /\ Lines \in [Returns ->
       Seq([item : Items, quantity : Nat \ {0}, discount : Nat, restock : BOOLEAN]) \ {<<>>}]

ASSUME ItemsAssumption == IsFiniteSet(Items)

VARIABLES
  status,     \* status of each return, "NONE" before it is inserted
  refunded,   \* refundedAmount
  restocked,  \* units of each item put back into stock
  reversed,   \* points taken back by REVERSAL transactions
  pc,         \* where each create() is
  visible,    \* the returns its snapshot shows as not cancelled
  held,       \* the SaleItem rows it has locked
  line,       \* the next line to lock and check
  blind,      \* history: items returned in a snapshot that missed another return
  redeemed,   \* points spent by REDEEM transactions
  redeem,     \* where each redeem() is, and what its snapshot shows
  overlapped  \* history: a redeem() in a snapshot that missed another

rows    == <<status, refunded, restocked, reversed>>
local   == <<pc, visible, held, line>>
loyalty == <<redeemed, redeem, overlapped>>
vars    == <<rows, local, blind, loyalty>>
-----------------------------------------------------------------------------
Status == {"NONE", "DRAFT", "CONFIRMED", "REFUNDED", "CANCELLED"}

LinesOf(r, i) == {n \in DOMAIN Lines[r] : Lines[r][n].item = i}
UnitsOf(r, N) == SumFunctionOnSet([n \in DOMAIN Lines[r] |-> Lines[r][n].quantity], N)

Quantity(r, i) == UnitsOf(r, LinesOf(r, i))
Restock(r, i)  == UnitsOf(r, {n \in LinesOf(r, i) : Lines[r][n].restock})

TotalUnits(S, i) == SumFunctionOnSet([r \in Returns |-> Quantity(r, i)], S)

\* refundAmount: unit prices less the discounts of the return's own lines,
\* whatever the sale's discounts.
LineTotal(l) == Price[l.item] * l.quantity - l.discount
Eligible(r)  == SumFunctionOnSet([n \in DOMAIN Lines[r] |-> LineTotal(Lines[r][n])],
                                 DOMAIN Lines[r])

\* Slip: rounded up.
ReversalRoundedUp(r) ==
  (Earned * Min({Eligible(r), GrandTotal}) + GrandTotal - 1) \div GrandTotal

\* floor(points * min(refundAmount / grandTotal, 1))
ReversalPoints(r) == (Earned * Min({Eligible(r), GrandTotal})) \div GrandTotal

Counted == {r \in Returns : status[r] \notin {"NONE", "CANCELLED"}}

NoRedeem == [pc |-> "idle", balance |-> 0, redeemed |-> 0]

Open(r)  == pc[r] \in {"lock", "insert"}
MayStart ==
  Cardinality({r \in Returns : Open(r)})
    + Cardinality({d \in Redeemers : redeem[d].pc # "idle"}) < MaxOpen

Init ==
  /\ status    = [r \in Returns |-> "NONE"]
  /\ refunded  = [r \in Returns |-> 0]
  /\ restocked = [i \in Items |-> 0]
  /\ reversed  = 0
  /\ pc      = [r \in Returns |-> "idle"]
  /\ visible = [r \in Returns |-> {}]
  /\ held    = [r \in Returns |-> {}]
  /\ line    = [r \in Returns |-> 1]
  /\ blind   = {}
  /\ redeemed = 0 /\ overlapped = FALSE
  /\ redeem   = [d \in Redeemers |-> NoRedeem]
-----------------------------------------------------------------------------
\* create(): the plain read of the sale.
Snapshot(r) ==
  /\ pc[r] = "idle" /\ status[r] = "NONE" /\ MayStart
  /\ pc' = [pc EXCEPT ![r] = "lock"]
  /\ visible' = [visible EXCEPT ![r] = Counted]
  /\ UNCHANGED <<rows, held, line, blind, loyalty>>

\* Slip: earlier returns are not counted.
LockItemAlone(r) ==
  LET l == Lines[r][line[r]] IN
  /\ pc[r] = "lock"
  /\ \A q \in Returns \ {r} : l.item \notin held[q]
  /\ l.quantity <= Sold[l.item]
  /\ LineTotal(l) >= 0
  /\ held' = [held EXCEPT ![r] = @ \cup {l.item}]
  /\ line' = [line EXCEPT ![r] = @ + 1]
  /\ pc'   = [pc EXCEPT ![r] = IF line[r] = Len(Lines[r]) THEN "insert" ELSE "lock"]
  /\ UNCHANGED <<rows, visible, blind, loyalty>>

\* The SaleItem of the next line is locked; what remains returnable of it, in the
\* snapshot, is enough for this line, and the line for its discount.
LockItem(r) ==
  LET l == Lines[r][line[r]] IN
  /\ pc[r] = "lock"
  /\ \A q \in Returns \ {r} : l.item \notin held[q]
  /\ l.quantity + TotalUnits(visible[r], l.item) <= Sold[l.item]
  /\ LineTotal(l) >= 0
  /\ held' = [held EXCEPT ![r] = @ \cup {l.item}]
  /\ line' = [line EXCEPT ![r] = @ + 1]
  /\ pc'   = [pc EXCEPT ![r] = IF line[r] = Len(Lines[r]) THEN "insert" ELSE "lock"]
  /\ UNCHANGED <<rows, visible, blind, loyalty>>

Close(r) ==
  /\ visible' = [visible EXCEPT ![r] = {}]
  /\ held' = [held EXCEPT ![r] = {}]
  /\ line' = [line EXCEPT ![r] = 1]
  /\ pc'   = [pc EXCEPT ![r] = "idle"]

\* The return is inserted as DRAFT and the transaction commits.
Insert(r) ==
  /\ pc[r] = "insert"
  /\ status' = [status EXCEPT ![r] = "DRAFT"]
  /\ blind' = blind \cup {i \in Items : /\ Quantity(r, i) > 0
                                       /\ TotalUnits(Counted \ visible[r], i) > 0}
  /\ Close(r)
  /\ UNCHANGED <<refunded, restocked, reversed, loyalty>>

\* A line asks for too much, a statement fails, the process dies.
Abort(r) ==
  /\ Open(r)
  /\ Close(r)
  /\ UNCHANGED <<rows, blind, loyalty>>

PointsLocked == \E d \in Redeemers : redeem[d].pc = "locked"

\* Slip: the status is not checked under the lock.
ConfirmAgain(r) ==
  /\ status[r] \in {"DRAFT", "CONFIRMED"}
  /\ status'    = [status EXCEPT ![r] = "CONFIRMED"]
  /\ restocked' = [i \in Items |-> restocked[i] + Restock(r, i)]
  /\ reversed'  = reversed + ReversalPoints(r)
  /\ UNCHANGED <<refunded, local, blind, loyalty>>

\* confirm(): RESTOCK lines go back into stock, points are taken back in
\* proportion, after a redeem() that has locked them; a failure rolls all of it back.
Confirm(r) ==
  /\ status[r] = "DRAFT"
  /\ ReversalPoints(r) > 0 => ~PointsLocked
  /\ status'    = [status EXCEPT ![r] = "CONFIRMED"]
  /\ restocked' = [i \in Items |-> restocked[i] + Restock(r, i)]
  /\ reversed'  = reversed + ReversalPoints(r)
  /\ UNCHANGED <<refunded, local, blind, loyalty>>

\* cancel(), under the lock of the return.
Cancel(r) ==
  /\ status[r] = "DRAFT"
  /\ status' = [status EXCEPT ![r] = "CANCELLED"]
  /\ UNCHANGED <<refunded, restocked, reversed, local, blind, loyalty>>

\* Slip: only the status is checked.
ApplyRefundAny(r, amount) ==
  /\ status[r] \in {"CONFIRMED", "REFUNDED"}
  /\ refunded' = [refunded EXCEPT ![r] = @ + amount]
  /\ status'   = [status EXCEPT ![r] =
       IF refunded[r] + amount >= Eligible(r) THEN "REFUNDED" ELSE "CONFIRMED"]
  /\ UNCHANGED <<restocked, reversed, local, blind, loyalty>>

\* applyRefund() of an amount within what is still eligible.
ApplyRefund(r, amount) ==
  /\ status[r] \in {"CONFIRMED", "REFUNDED"}
  /\ refunded[r] + amount <= Eligible(r)
  /\ refunded' = [refunded EXCEPT ![r] = @ + amount]
  /\ status'   = [status EXCEPT ![r] =
       IF refunded[r] + amount >= Eligible(r) THEN "REFUNDED" ELSE "CONFIRMED"]
  /\ UNCHANGED <<restocked, reversed, local, blind, loyalty>>

\* redeem(): the read of the program fixes what its sum will see.
ReadProgram(d) ==
  /\ redeem[d].pc = "idle" /\ MayStart
  /\ redeem' = [redeem EXCEPT ![d] =
       [pc |-> "read", balance |-> Earned - reversed - redeemed, redeemed |-> redeemed]]
  /\ UNCHANGED <<rows, local, blind, redeemed, overlapped>>

\* All points of the customer are locked, and new ones kept out.
LockPoints(d) ==
  /\ redeem[d].pc = "read" /\ ~PointsLocked
  /\ redeem' = [redeem EXCEPT ![d].pc = "locked"]
  /\ UNCHANGED <<rows, local, blind, redeemed, overlapped>>

\* Slip: only what the returns took back is counted.
RedeemEarned(d) ==
  /\ redeem[d].pc = "locked"
  /\ Points[d] <= redeem[d].balance + redeem[d].redeemed
  /\ redeemed' = redeemed + Points[d]
  /\ overlapped' = (overlapped \/ redeemed # redeem[d].redeemed)
  /\ redeem' = [redeem EXCEPT ![d] = NoRedeem]
  /\ UNCHANGED <<rows, local, blind>>

\* The sum in the snapshot is enough; the points are spent.
Redeem(d) ==
  /\ redeem[d].pc = "locked"
  /\ Points[d] <= redeem[d].balance
  /\ redeemed' = redeemed + Points[d]
  /\ overlapped' = (overlapped \/ redeemed # redeem[d].redeemed)
  /\ redeem' = [redeem EXCEPT ![d] = NoRedeem]
  /\ UNCHANGED <<rows, local, blind>>

\* The balance is too small, or something fails.
RefuseRedeem(d) ==
  /\ redeem[d].pc # "idle"
  /\ redeem' = [redeem EXCEPT ![d] = NoRedeem]
  /\ UNCHANGED <<rows, local, blind, redeemed, overlapped>>

Next ==
  \/ \E r \in Returns :
       \/ Snapshot(r) \/ LockItem(r) \/ Insert(r) \/ Abort(r)
       \/ Confirm(r) \/ Cancel(r)
       \/ \E amount \in 1..Eligible(r) : ApplyRefund(r, amount)
  \/ \E d \in Redeemers : ReadProgram(d) \/ LockPoints(d) \/ Redeem(d) \/ RefuseRedeem(d)

Spec == Init /\ [][Next]_vars
-----------------------------------------------------------------------------
\* Items that one return names in two lines, each checked without the other.
Twice == {i \in Items : \E r \in Counted : Cardinality(LinesOf(r, i)) > 1}

\* Over-returning is prevented (comment of create()): the returns that are not
\* cancelled hold no more units of an item than were sold, unless one of them was
\* created in a snapshot that misses another, or names the item twice.
NotOverReturned == \A i \in Items \ (blind \cup Twice) : TotalUnits(Counted, i) <= Sold[i]

Confirmed == {r \in Returns : status[r] \in {"CONFIRMED", "REFUNDED"}}

\* The units put back into stock are those of the confirmed returns, each once,
\* and never more than were sold unless more were returned.
RestockedOnce ==
  \A i \in Items :
    /\ restocked[i] = SumFunctionOnSet([r \in Returns |-> Restock(r, i)], Confirmed)
    /\ i \notin blind \cup Twice => restocked[i] <= Sold[i]

\* Money goes back only for confirmed returns, never more than their lines are
\* worth, and REFUNDED says that all of it went back.
RefundsAreEligible ==
  \A r \in Returns :
    /\ refunded[r] > 0 => status[r] \in {"CONFIRMED", "REFUNDED"}
    /\ status[r] # "NONE" => refunded[r] <= Eligible(r)
    /\ status[r] = "REFUNDED" <=> refunded[r] > 0 /\ refunded[r] = Eligible(r)

Undiscounted ==
  SumFunctionOnSet([i \in Items |-> Price[i] * Sold[i]], Items) <= GrandTotal

\* However the returns of a sale without discount are rounded, discounted and raced
\* by redemptions, they take back no more points than the sale earned (comment of
\* confirm(); unless more was returned than sold), and no more are spent, unless two
\* redemptions overlap.
PointsWithinEarned ==
  /\ Undiscounted /\ blind = {} /\ Twice = {} => reversed <= Earned
  /\ ~overlapped => redeemed <= Earned
=============================================================================
