----------------------------- MODULE StockLedger -----------------------------
(***************************************************************************)
(* warehouse_stock and the append-only stock_movements (modules/inventory) *)
(* under the documents that write them: sale confirmation, transfer,       *)
(* adjustment, goods receipt, sale-return confirmation and purchase-return *)
(* completion.  Each document runs in one database transaction that locks  *)
(* stock rows one SELECT ... FOR UPDATE at a time, works on the entities   *)
(* it has read, writes absolute quantities and inserts signed movements,   *)
(* and makes all of it visible when it commits.                            *)
(*                                                                         *)
(* A stock row is identified by its place in the (warehouseId,             *)
(* productVariantId) order the services sort by.  A document is posted by  *)
(* requests: of a sale and of a return there may be several, which confirm *)
(* or complete the same document; a request that fails is back where it    *)
(* started and may be sent again.                                          *)
(***************************************************************************)
EXTENDS Integers, Sequences, FiniteSets

CONSTANTS
  Keys,       \* the stock rows, as their ranks in the sort order
  Documents,  \* the documents
  Kind,       \* the kind of each document
  Lines,      \* its lines, [key, change], in the order they are written
  Opening,    \* the opening balance of each row
  Requests,   \* the requests that post them
  DocOf,      \* the document of each request
  MaxOpen     \* transactions that may be open at one time

Kinds == {"issue", "transfer", "adjustment", "receipt", "saleReturn",
          "purchaseReturn"}

\* Kinds whose document is written by the request that posts it; its transaction
\* starts by locking the company's number counter.
Numbered == {"transfer", "adjustment", "receipt"}

ASSUME StockAssumption ==
  /\ Keys \subseteq Nat
  /\ Kind \in [Documents -> Kinds]
  /\ Lines \in [Documents -> Seq([key : Keys, change : Int])]
  /\ \A d \in Documents : Lines[d] # <<>>
  /\ Opening \in [Keys -> Nat]
  /\ DocOf \in [Requests -> Documents]
  /\ MaxOpen \in Nat

\* Returns sort their items by variant, of one warehouse; the table has an end.
ASSUME OrderAssumption ==
  /\ IsFiniteSet(Keys)
  /\ \A d \in Documents : Kind[d] \in {"saleReturn", "purchaseReturn"} =>
       \A i, j \in DOMAIN Lines[d] : i <= j => Lines[d][i].key <= Lines[d][j].key

\* A transfer, an adjustment and a receipt are new documents each time.
ASSUME RequestAssumption ==
  \A q, r \in Requests : Kind[DocOf[r]] \in Numbered /\ DocOf[q] = DocOf[r] => q = r

VARIABLES
  onHand,  \* committed onHandQuantity of each row
  ledger,  \* committed SUM(quantityChange) of the movements of each row
  pc,      \* where each request's transaction is
  held,    \* the rows it has locked
  stock,   \* onHandQuantity of the entities it holds
  moved,   \* SUM(quantityChange) of the movements it has inserted
  line     \* the next line to write

vars == <<onHand, ledger, pc, held, stock, moved, line>>
-----------------------------------------------------------------------------
KindOf(r)  == Kind[DocOf[r]]
LinesOf(r) == Lines[DocOf[r]]

\* The other requests that post the same document.
Rivals(r) == {q \in Requests \ {r} : DocOf[q] = DocOf[r]}

\* Requests that lock, check and write one line after the other; the others
\* lock all their rows in key order, check all lines, then write.
LineByLine == {r \in Requests :
                 KindOf(r) \in {"receipt", "saleReturn", "purchaseReturn"}}

Active(r) == pc[r] \notin {"idle", "done"}

KeysOf(r) == {LinesOf(r)[i].key : i \in DOMAIN LinesOf(r)}

LockedByOthers(r) == UNION {held[q] : q \in Requests \ {r}}

\* Slip: the targets are not sorted.
WantsInLineOrder(r, k) ==
  /\ pc[r] = "lock"
  /\ \E i \in DOMAIN LinesOf(r) :
       /\ k = LinesOf(r)[i].key
       /\ IF r \in LineByLine THEN i = line[r]
          ELSE k \notin held[r] /\ \A j \in 1..(i - 1) : LinesOf(r)[j].key \in held[r]

\* The row whose lock the transaction asks for next.
Wants(r, k) ==
  /\ pc[r] = "lock"
  /\ IF r \in LineByLine
     THEN k = LinesOf(r)[line[r]].key
     ELSE /\ k \in KeysOf(r) \ held[r]
          /\ \A j \in KeysOf(r) \ held[r] : k <= j

\* Slip: off by one.
SufficientButOne(r, i) ==
  LET l == LinesOf(r)[i] IN l.change < 0 => stock[r][l.key] + l.change >= -1

Sufficient(r, i) ==
  LET l == LinesOf(r)[i] IN l.change < 0 => stock[r][l.key] + l.change >= 0

Zero == [k \in Keys |-> 0]

Init ==
  /\ onHand = Opening
  /\ ledger = Opening
  /\ pc    = [r \in Requests |-> "idle"]
  /\ held  = [r \in Requests |-> {}]
  /\ stock = [r \in Requests |-> Zero]
  /\ moved = [r \in Requests |-> Zero]
  /\ line  = [r \in Requests |-> 1]
-----------------------------------------------------------------------------
\* Slip: a return's status, too, is read before the transaction.
BeginUnlocked(r) ==
  /\ pc[r] = "idle"
  /\ Cardinality({q \in Requests : Active(q)}) < MaxOpen
  /\ \A q \in Rivals(r) : pc[q] # "done"
  /\ KindOf(r) \in Numbered =>
       \A q \in Requests : KindOf(q) = KindOf(r) => ~Active(q)
  /\ pc' = [pc EXCEPT ![r] = "lock"]
  /\ UNCHANGED <<onHand, ledger, held, stock, moved, line>>

\* The document is still to be posted, and the transaction begins, up to the number
\* counter's lock where there is one.  Sales confirm() reads the status before
\* its transaction and without a lock; a return's is read under its row lock,
\* which the transaction keeps.
Begin(r) ==
  /\ pc[r] = "idle"
  /\ Cardinality({q \in Requests : Active(q)}) < MaxOpen
  /\ \A q \in Rivals(r) : pc[q] # "done" /\ (KindOf(r) # "issue" => ~Active(q))
  /\ KindOf(r) \in Numbered =>
       \A q \in Requests : KindOf(q) = KindOf(r) => ~Active(q)
  /\ pc' = [pc EXCEPT ![r] = "lock"]
  /\ UNCHANGED <<onHand, ledger, held, stock, moved, line>>

\* Slip: a row the transaction has written already is read as it was before.
LockRowRereads(r, k) ==
  /\ Wants(r, k)
  /\ k \notin LockedByOthers(r)
  /\ held'  = [held EXCEPT ![r] = @ \cup {k}]
  /\ stock' = [stock EXCEPT ![r][k] = onHand[k]]
  /\ pc'    = [pc EXCEPT ![r] = IF r \in LineByLine THEN "write" ELSE "lock"]
  /\ UNCHANGED <<onHand, ledger, moved, line>>

\* lockWarehouseStockRow(): waits for the row's lock, then reads the committed
\* quantity, or the transaction's own if it has the row already.
LockRow(r, k) ==
  /\ Wants(r, k)
  /\ k \notin LockedByOthers(r)
  /\ held'  = [held EXCEPT ![r] = @ \cup {k}]
  /\ stock' = [stock EXCEPT ![r][k] = IF k \in held[r] THEN @ ELSE onHand[k]]
  /\ pc'    = [pc EXCEPT ![r] = IF r \in LineByLine THEN "write" ELSE "lock"]
  /\ UNCHANGED <<onHand, ledger, moved, line>>

\* All rows are locked: every line is checked before any is written.
CheckLines(r) ==
  /\ pc[r] = "lock" /\ r \notin LineByLine
  /\ KeysOf(r) \subseteq held[r]
  /\ \A i \in DOMAIN LinesOf(r) : Sufficient(r, i)
  /\ pc' = [pc EXCEPT ![r] = "write"]
  /\ UNCHANGED <<onHand, ledger, held, stock, moved, line>>

\* The entity's new quantity is written and the movement inserted.  Where lines
\* are locked one by one they are checked one by one.
WriteLine(r) ==
  /\ pc[r] = "write" /\ line[r] \in DOMAIN LinesOf(r)
  /\ r \in LineByLine => Sufficient(r, line[r])
  /\ LET l == LinesOf(r)[line[r]] IN
       /\ stock' = [stock EXCEPT ![r][l.key] = @ + l.change]
       /\ moved' = [moved EXCEPT ![r][l.key] = @ + l.change]
  /\ line' = [line EXCEPT ![r] = @ + 1]
  /\ pc'   = [pc EXCEPT ![r] = IF r \in LineByLine /\ line[r] < Len(LinesOf(r))
                               THEN "lock" ELSE "write"]
  /\ UNCHANGED <<onHand, ledger, held>>

Commit(r) ==
  /\ pc[r] = "write" /\ line[r] > Len(LinesOf(r))
  /\ onHand' = [k \in Keys |-> IF k \in held[r] THEN stock[r][k] ELSE onHand[k]]
  /\ ledger' = [k \in Keys |-> ledger[k] + moved[r][k]]
  /\ pc'   = [pc EXCEPT ![r] = "done"]
  /\ held' = [held EXCEPT ![r] = {}]
  /\ UNCHANGED <<stock, moved, line>>

\* A line is refused, a statement fails, the process dies, or the database
\* picks the transaction as a deadlock's victim: everything is undone.
Rollback(r) ==
  /\ Active(r)
  /\ pc'    = [pc EXCEPT ![r] = "idle"]
  /\ held'  = [held EXCEPT ![r] = {}]
  /\ stock' = [stock EXCEPT ![r] = Zero]
  /\ moved' = [moved EXCEPT ![r] = Zero]
  /\ line'  = [line EXCEPT ![r] = 1]
  /\ UNCHANGED <<onHand, ledger>>

Next ==
  \E r \in Requests :
    \/ Begin(r)
    \/ \E k \in Keys : LockRow(r, k)
    \/ CheckLines(r)
    \/ WriteLine(r)
    \/ Commit(r)
    \/ Rollback(r)

Spec == Init /\ [][Next]_vars
-----------------------------------------------------------------------------
\* The columns and the transactions' own state have values they can have, and
\* a row is locked by one transaction.
TypeOK ==
  /\ onHand \in [Keys -> Int] /\ ledger \in [Keys -> Int]
  /\ pc \in [Requests -> {"idle", "lock", "write", "done"}]
  /\ held \in [Requests -> SUBSET Keys]
  /\ \A r, q \in Requests : r # q => held[r] \cap held[q] = {}
  /\ stock \in [Requests -> [Keys -> Int]]
  /\ moved \in [Requests -> [Keys -> Int]]
  /\ line \in [Requests -> Nat \ {0}]
  /\ \A r \in Requests : line[r] <= Len(LinesOf(r)) + 1

\* INVENTORY_ARCHITECTURE.md 19.4: the movements of a row add up to its
\* quantity on hand, although the quantity is written as an absolute value
\* computed from an earlier read and the movements as differences.
Reconciled == \A k \in Keys : onHand[k] = ledger[k]

\* Rows that a document names in two lines which are both checked before either
\* is written.
Twice(d) ==
  {k \in Keys : /\ Kind[d] \in {"issue", "transfer", "adjustment"}
                /\ \E i, j \in DOMAIN Lines[d] :
                     i # j /\ Lines[d][i].key = k /\ Lines[d][j].key = k}

\* INVENTORY_ARCHITECTURE.md 2: onHandQuantity is "enforced >= 0 at the transaction
\* layer".
NoRowBelowZero == \A k \in Keys : onHand[k] >= 0

\* No document drives a row below zero but one that names the row in two lines,
\* each of which finds enough by itself.
NeverNegative ==
  \A k \in Keys :
    onHand[k] >= 0 \/ \E r \in Requests : pc[r] = "done" /\ k \in Twice(DocOf[r])

\* INVENTORY_ARCHITECTURE.md 7: no set of transactions waits in a circle, each
\* for a row that another one has locked, unless a receipt is among them, whose
\* order items come in another order than their variants.
WaitsFor(r, q) == \E k \in Keys : Wants(r, k) /\ k \in held[q]

OnlyReceiptsDeadlock ==
  \A S \in (SUBSET {r \in Requests : pc[r] = "lock"}) \ {{}} :
    (\A r \in S : \E q \in S \ {r} : WaitsFor(r, q)) =>
      \E r \in S : KindOf(r) = "receipt"
                   /\ \E j, k \in Keys : Wants(r, k) /\ j \in held[r] /\ k < j
=============================================================================
