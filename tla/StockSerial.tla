----------------------------- MODULE StockSerial -----------------------------
(***************************************************************************)
(* StockLedger implements StockBook: whatever the interleaving of locks,   *)
(* writes and rollbacks, the committed quantities change as if the         *)
(* documents had been posted one after the other.                          *)
(***************************************************************************)
EXTENDS StockLedger

\* What line i of a document adds to a row.
Change(d, k, i) == IF Lines[d][i].key = k THEN Lines[d][i].change ELSE 0

\* What its first n lines add to a row.
Added(d, k) ==
  LET added[n \in 0..Len(Lines[d])] ==
        IF n = 0 THEN 0 ELSE added[n - 1] + Change(d, k, n)
  IN  added

\* What the lines of a document add to each row.
Delta == [d \in Documents |-> [k \in Keys |-> Added(d, k)[Len(Lines[d])]]]

Sales == {d \in Documents : Kind[d] = "issue"}

Posted == {DocOf[r] : r \in {q \in Requests : pc[q] = "done"}}

Book == INSTANCE StockBook WITH
  balance <- onHand, posted <- Posted,
  Repeatable <- Sales, Unguarded <- [d \in Documents |-> Twice(d)]

\* Each commit is one step of StockBook, everything else leaves it alone: no
\* document but a sale is posted by two of its requests, and none takes more
\* than there is of a row it names in one line.  Two confirmations of a sale
\* that both read DRAFT post it twice, which StockBook permits for sales only.
Serializable == Book!Spec
=============================================================================
