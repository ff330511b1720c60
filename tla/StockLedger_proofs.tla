-------------------------- MODULE StockLedger_proofs --------------------------
(***************************************************************************)
(* Proofs about StockLedger, for any rows, documents, lines, requests and  *)
(* opening balances: the types, the reconciliation of quantities and       *)
(* movements, that no document drives a row below zero but one that names  *)
(* it in two lines which are checked before either is written, who waits   *)
(* for whom, and that StockLedger implements StockBook.                    *)
(***************************************************************************)
EXTENDS StockSerial, SequenceTheorems, FiniteSetTheorems, TLAPS

\* A transaction that is not running has no lock, one that starts is at the
\* first line, and one that writes has the row of its line locked.
LinesAreLocked ==
  \A r \in Requests :
    /\ ~Active(r) => held[r] = {}
    /\ pc[r] = "idle" => line[r] = 1
    /\ pc[r] = "lock" /\ r \in LineByLine => line[r] \in DOMAIN LinesOf(r)
    /\ pc[r] = "write" /\ line[r] \in DOMAIN LinesOf(r) =>
         IF r \in LineByLine THEN LinesOf(r)[line[r]].key \in held[r]
                             ELSE KeysOf(r) \subseteq held[r]

\* The entity a transaction has of a locked row is the committed quantity and
\* what it has moved itself; it has moved nothing of other rows.
EntityIsCurrent ==
  \A r \in Requests, k \in Keys :
    /\ k \in held[r] => stock[r][k] = onHand[k] + moved[r][k]
    /\ k \notin held[r] /\ pc[r] # "done" => moved[r][k] = 0

\* The inductive invariant behind Reconciled.
LedgerInv == TypeOK /\ LinesAreLocked /\ EntityIsCurrent /\ Reconciled

\* A document has a first line.
LEMMA DocumentLines ==
  ASSUME NEW d \in Documents
  PROVE  Len(Lines[d]) \in Nat /\ DOMAIN Lines[d] = 1..Len(Lines[d]) /\ 1 \in DOMAIN Lines[d]
<1>1. Lines[d] \in Seq([key : Keys, change : Int]) /\ Lines[d] # <<>>
  BY StockAssumption
<1> QED BY <1>1

\* So has a request.
LEMMA FirstLine ==
  ASSUME NEW r \in Requests
  PROVE  /\ DocOf[r] \in Documents /\ LinesOf(r) = Lines[DocOf[r]]
         /\ Len(LinesOf(r)) \in Nat /\ DOMAIN LinesOf(r) = 1..Len(LinesOf(r))
         /\ 1 \in DOMAIN LinesOf(r)
<1>1. DocOf[r] \in Documents /\ LinesOf(r) = Lines[DocOf[r]]
  BY StockAssumption DEF LinesOf
<1> QED BY <1>1, DocumentLines

\* A line names a row and a change.
LEMMA LineType ==
  ASSUME NEW r \in Requests, NEW i \in DOMAIN LinesOf(r)
  PROVE  LinesOf(r)[i].key \in Keys /\ LinesOf(r)[i].change \in Int
<1>1. LinesOf(r) \in Seq([key : Keys, change : Int])
  BY FirstLine, StockAssumption
<1>2. LinesOf(r)[i] \in [key : Keys, change : Int]
  BY <1>1, FirstLine, ElementOfSeq
<1> QED BY <1>2

LEMMA InitLedger == Init => LedgerInv
<1> SUFFICES ASSUME Init PROVE LedgerInv
  OBVIOUS
<1> USE StockAssumption DEF Init
<1>1. TypeOK
  BY DEF TypeOK, Zero
<1>2. LinesAreLocked
  BY DEF LinesAreLocked, Active
<1>3. EntityIsCurrent
  BY DEF EntityIsCurrent, Zero
<1>4. Reconciled
  BY DEF Reconciled
<1> QED BY <1>1, <1>2, <1>3, <1>4 DEF LedgerInv

LEMMA StepLedger == LedgerInv /\ [Next]_vars => LedgerInv'
<1> SUFFICES ASSUME LedgerInv, [Next]_vars PROVE LedgerInv'
  OBVIOUS
<1> USE DEF LedgerInv
<1>1. ASSUME NEW r \in Requests, Begin(r) PROVE LedgerInv'
  <2> USE <1>1 DEF Begin
  <2>1. TypeOK'
    BY DEF TypeOK
  <2>2. LinesAreLocked'
    BY FirstLine DEF LinesAreLocked, TypeOK, Active, LineByLine, KeysOf
  <2>3. EntityIsCurrent'
    BY DEF EntityIsCurrent, TypeOK
  <2>4. Reconciled'
    BY DEF Reconciled
  <2> QED BY <2>1, <2>2, <2>3, <2>4
<1>2. ASSUME NEW r \in Requests, NEW k \in Keys, LockRow(r, k) PROVE LedgerInv'
  <2> USE <1>2 DEF LockRow
  <2>1. TypeOK'
    BY DEF TypeOK, LockedByOthers
  <2>2. LinesAreLocked'
    BY FirstLine DEF LinesAreLocked, TypeOK, Active, Wants, LineByLine, KeysOf
  <2>3. EntityIsCurrent'
    <3> SUFFICES ASSUME NEW q \in Requests, NEW j \in Keys
                 PROVE  /\ j \in held'[q] => stock'[q][j] = onHand'[j] + moved'[q][j]
                        /\ j \notin held'[q] /\ pc'[q] # "done" => moved'[q][j] = 0
      BY DEF EntityIsCurrent
    <3>1. /\ onHand[j] \in Int
          /\ j \in held[q] => stock[q][j] = onHand[j] + moved[q][j]
          /\ j \notin held[q] /\ pc[q] # "done" => moved[q][j] = 0
      BY DEF EntityIsCurrent, TypeOK
    <3>2. CASE q = r /\ j = k
      BY <3>1, <3>2 DEF TypeOK, Wants
    <3>3. CASE ~(q = r /\ j = k)
      BY <3>1, <3>3 DEF TypeOK, Wants
    <3> QED BY <3>2, <3>3
  <2>4. Reconciled'
    BY DEF Reconciled
  <2> QED BY <2>1, <2>2, <2>3, <2>4
<1>3. ASSUME NEW r \in Requests, CheckLines(r) PROVE LedgerInv'
  <2> USE <1>3 DEF CheckLines
  <2>1. TypeOK'
    BY DEF TypeOK
  <2>2. LinesAreLocked'
    BY FirstLine DEF LinesAreLocked, TypeOK, Active, LineByLine, KeysOf
  <2>3. EntityIsCurrent'
    BY DEF EntityIsCurrent, TypeOK
  <2>4. Reconciled'
    BY DEF Reconciled
  <2> QED BY <2>1, <2>2, <2>3, <2>4
<1>4. ASSUME NEW r \in Requests, WriteLine(r) PROVE LedgerInv'
  <2> DEFINE k == LinesOf(r)[line[r]].key
             c == LinesOf(r)[line[r]].change
  <2>0. k \in Keys /\ c \in Int /\ k \in held[r]
    BY <1>4, LineType DEF WriteLine, LinesAreLocked, KeysOf
  <2>1. /\ stock' = [stock EXCEPT ![r][k] = stock[r][k] + c]
        /\ moved' = [moved EXCEPT ![r][k] = moved[r][k] + c]
        /\ line'  = [line EXCEPT ![r] = line[r] + 1]
        /\ pc'    = [pc EXCEPT ![r] = IF r \in LineByLine /\ line[r] < Len(LinesOf(r))
                                      THEN "lock" ELSE "write"]
        /\ UNCHANGED <<onHand, ledger, held>>
        /\ pc[r] = "write" /\ line[r] \in DOMAIN LinesOf(r)
    BY <1>4 DEF WriteLine
  <2> HIDE DEF k, c
  <2>2. TypeOK'
    <3>1. /\ stock' \in [Requests -> [Keys -> Int]]
          /\ moved' \in [Requests -> [Keys -> Int]]
      BY <2>0, <2>1 DEF TypeOK
    <3>2. /\ line' \in [Requests -> Nat \ {0}]
          /\ \A q \in Requests : line'[q] <= Len(LinesOf(q)) + 1
      BY <2>1, FirstLine DEF TypeOK
    <3>3. pc' \in [Requests -> {"idle", "lock", "write", "done"}]
      BY <2>1 DEF TypeOK
    <3> QED BY <2>1, <3>1, <3>2, <3>3 DEF TypeOK
  <2>3. LinesAreLocked'
    <3>1. /\ line[r] \in Nat /\ line'[r] = line[r] + 1 /\ Active(r)
          /\ pc'[r] = IF r \in LineByLine /\ line[r] < Len(LinesOf(r)) THEN "lock" ELSE "write"
      BY <2>1 DEF TypeOK, Active
    <3>2. r \notin LineByLine => KeysOf(r) \subseteq held[r]
      BY <2>1 DEF LinesAreLocked
    <3>3. /\ pc'[r] = "lock" => line'[r] \in DOMAIN LinesOf(r)
          /\ pc'[r] = "write" /\ line'[r] \in DOMAIN LinesOf(r) => r \notin LineByLine
      BY <2>1, <3>1, FirstLine
    <3>4. \A q \in Requests \ {r} : pc'[q] = pc[q] /\ line'[q] = line[q]
      BY <2>1 DEF TypeOK
    <3> SUFFICES ASSUME NEW q \in Requests
                 PROVE  /\ ~Active(q)' => held[q] = {}
                        /\ pc'[q] = "idle" => line'[q] = 1
                        /\ pc'[q] = "lock" /\ q \in LineByLine => line'[q] \in DOMAIN LinesOf(q)
                        /\ pc'[q] = "write" /\ line'[q] \in DOMAIN LinesOf(q) =>
                             IF q \in LineByLine THEN LinesOf(q)[line'[q]].key \in held[q]
                                                 ELSE KeysOf(q) \subseteq held[q]
      BY <2>1 DEF LinesAreLocked, LineByLine, KeysOf
    <3>5. CASE q = r
      BY <3>1, <3>2, <3>3, <3>5 DEF Active
    <3>6. CASE q # r
      BY <3>4, <3>6 DEF LinesAreLocked, Active
    <3> QED BY <3>5, <3>6
  <2>4. EntityIsCurrent'
    <3> SUFFICES ASSUME NEW q \in Requests, NEW j \in Keys
                 PROVE  /\ j \in held'[q] => stock'[q][j] = onHand'[j] + moved'[q][j]
                        /\ j \notin held'[q] /\ pc'[q] # "done" => moved'[q][j] = 0
      BY DEF EntityIsCurrent
    <3>1. /\ stock[q][j] \in Int /\ moved[q][j] \in Int /\ onHand[j] \in Int
          /\ j \in held[q] => stock[q][j] = onHand[j] + moved[q][j]
          /\ j \notin held[q] /\ pc[q] # "done" => moved[q][j] = 0
      BY DEF EntityIsCurrent, TypeOK
    <3>2. CASE q = r /\ j = k
      <4>1. stock'[q][j] = stock[q][j] + c /\ moved'[q][j] = moved[q][j] + c
        BY <2>1, <3>2 DEF TypeOK
      <4> QED BY <2>0, <2>1, <3>1, <3>2, <4>1
    <3>3. CASE ~(q = r /\ j = k)
      <4>1. stock'[q][j] = stock[q][j] /\ moved'[q][j] = moved[q][j]
        BY <2>0, <2>1, <3>3 DEF TypeOK
      <4>2. pc'[q] # "done" => pc[q] # "done"
        BY <2>1 DEF TypeOK
      <4> QED BY <2>1, <3>1, <4>1, <4>2
    <3> QED BY <3>2, <3>3
  <2>5. Reconciled'
    BY <2>1 DEF Reconciled
  <2> QED BY <2>2, <2>3, <2>4, <2>5
<1>5. ASSUME NEW r \in Requests, Commit(r) PROVE LedgerInv'
  <2> USE <1>5 DEF Commit
  <2>1. TypeOK'
    BY DEF TypeOK
  <2>2. LinesAreLocked'
    BY FirstLine DEF LinesAreLocked, TypeOK, Active, LineByLine, KeysOf
  <2>3. EntityIsCurrent'
    <3> SUFFICES ASSUME NEW q \in Requests, NEW k \in Keys
                 PROVE  /\ k \in held'[q] => stock'[q][k] = onHand'[k] + moved'[q][k]
                        /\ k \notin held'[q] /\ pc'[q] # "done" => moved'[q][k] = 0
      BY DEF EntityIsCurrent
    <3>1. CASE q = r
      BY <3>1 DEF TypeOK
    <3>2. CASE q # r
      BY <3>2 DEF TypeOK, EntityIsCurrent
    <3> QED BY <3>1, <3>2
  <2>4. Reconciled'
    <3> SUFFICES ASSUME NEW k \in Keys PROVE onHand'[k] = ledger'[k]
      BY DEF Reconciled
    <3>1. /\ onHand[k] = ledger[k]
          /\ onHand[k] \in Int /\ moved[r][k] \in Int
          /\ k \in held[r] => stock[r][k] = onHand[k] + moved[r][k]
          /\ k \notin held[r] => moved[r][k] = 0
      BY DEF Reconciled, EntityIsCurrent, TypeOK
    <3> QED BY <3>1
  <2> QED BY <2>1, <2>2, <2>3, <2>4
<1>6. ASSUME NEW r \in Requests, Rollback(r) PROVE LedgerInv'
  <2> USE <1>6 DEF Rollback
  <2>1. TypeOK'
    BY StockAssumption DEF TypeOK, Zero
  <2>2. LinesAreLocked'
    BY FirstLine DEF LinesAreLocked, TypeOK, Active, LineByLine, KeysOf
  <2>3. EntityIsCurrent'
    BY DEF EntityIsCurrent, TypeOK, Zero
  <2>4. Reconciled'
    BY DEF Reconciled
  <2> QED BY <2>1, <2>2, <2>3, <2>4
<1>7. CASE UNCHANGED vars
  BY <1>7 DEF vars, TypeOK, LinesAreLocked, EntityIsCurrent, Reconciled, Active,
              LineByLine, KeysOf
<1> QED BY <1>1, <1>2, <1>3, <1>4, <1>5, <1>6, <1>7 DEF Next

LEMMA AlwaysLedger == Spec => []LedgerInv
BY InitLedger, StepLedger, PTL DEF Spec

\* The types hold in every reachable state.
THEOREM StockTypes == Spec => []TypeOK
BY AlwaysLedger, PTL DEF LedgerInv

\* The movements of every row always add up to its quantity on hand.
THEOREM StockReconciled == Spec => []Reconciled
BY AlwaysLedger, PTL DEF LedgerInv
-----------------------------------------------------------------------------
(* No negative stock.                                                      *)

\* A row that a transaction takes from is not negative by its own account, nor is
\* it after any line that was checked with all the others and is not yet
\* written, unless the document names the row in two lines.
EnoughLeft ==
  \A r \in Requests :
    /\ \A k \in Keys : moved[r][k] < 0 => stock[r][k] >= 0 \/ k \in Twice(DocOf[r])
    /\ pc[r] = "write" /\ r \notin LineByLine =>
         \A i \in DOMAIN LinesOf(r) :
           line[r] <= i => Sufficient(r, i) \/ LinesOf(r)[i].key \in Twice(DocOf[r])

NonNegativeInv == LedgerInv /\ NeverNegative /\ EnoughLeft

\* Two lines of one row, where all lines are checked first.
LEMMA TwoLines ==
  ASSUME NEW r \in Requests, r \notin LineByLine,
         NEW i \in DOMAIN LinesOf(r), NEW j \in DOMAIN LinesOf(r), i # j,
         LinesOf(r)[i].key = LinesOf(r)[j].key
  PROVE  LinesOf(r)[i].key \in Twice(DocOf[r])
<1>1. Kind[DocOf[r]] \in {"issue", "transfer", "adjustment"}
  BY StockAssumption DEF LineByLine, KindOf, Kinds
<1> QED BY <1>1, LineType DEF Twice, LinesOf

\* What a step leaves as it was for a request.
LEMMA OthersKeepEnough ==
  ASSUME EnoughLeft, NEW r \in Requests,
         stock'[r] = stock[r], moved'[r] = moved[r], line'[r] = line[r],
         pc'[r] = "write" => pc[r] = "write"
  PROVE  /\ \A k \in Keys : moved'[r][k] < 0 => stock'[r][k] >= 0 \/ k \in Twice(DocOf[r])
         /\ pc'[r] = "write" /\ r \notin LineByLine =>
              \A i \in DOMAIN LinesOf(r) : line'[r] <= i =>
                Sufficient(r, i)' \/ LinesOf(r)[i].key \in Twice(DocOf[r])
BY DEF EnoughLeft, Sufficient

\* Nothing makes a row negative that leaves the quantities and the finished
\* requests alone.
LEMMA StaysNonNegative ==
  ASSUME NeverNegative, onHand' = onHand,
         \A r \in Requests : pc[r] = "done" => pc'[r] = "done"
  PROVE  NeverNegative'
BY DEF NeverNegative, Twice

LEMMA StepNonNegative == NonNegativeInv /\ [Next]_vars => NonNegativeInv'
<1> SUFFICES ASSUME NonNegativeInv, [Next]_vars PROVE NonNegativeInv'
  OBVIOUS
<1>0. LedgerInv /\ LedgerInv' /\ TypeOK /\ LinesAreLocked /\ EntityIsCurrent
      /\ NeverNegative /\ EnoughLeft
  BY StepLedger DEF NonNegativeInv, LedgerInv
<1> DEFINE Enough(q) ==
      /\ \A k \in Keys : moved'[q][k] < 0 => stock'[q][k] >= 0 \/ k \in Twice(DocOf[q])
      /\ pc'[q] = "write" /\ q \notin LineByLine =>
           \A i \in DOMAIN LinesOf(q) : line'[q] <= i =>
             Sufficient(q, i)' \/ LinesOf(q)[i].key \in Twice(DocOf[q])
<1>a. (\A q \in Requests : Enough(q)) => EnoughLeft'
  BY DEF EnoughLeft, LineByLine, LinesOf, KindOf, Twice
<1> HIDE DEF Enough
<1>1. ASSUME NEW r \in Requests, Begin(r) \/ CheckLines(r) \/ Rollback(r)
      PROVE  NonNegativeInv'
  <2>1. NeverNegative'
    BY <1>0, <1>1, StaysNonNegative DEF Begin, CheckLines, Rollback, Active, TypeOK
  <2>2. ASSUME NEW q \in Requests, q # r PROVE Enough(q)
    <3>1. /\ stock'[q] = stock[q] /\ moved'[q] = moved[q] /\ line'[q] = line[q]
          /\ pc'[q] = pc[q]
      BY <1>0, <1>1, <2>2 DEF Begin, CheckLines, Rollback, TypeOK
    <3> QED BY <1>0, <3>1, OthersKeepEnough DEF Enough
  <2>3. Enough(r)
    <3>1. CASE Begin(r)
      BY <1>0, <3>1 DEF Begin, Enough, EnoughLeft, TypeOK
    <3>2. CASE CheckLines(r)
      BY <1>0, <3>2 DEF CheckLines, Enough, EnoughLeft, Sufficient, TypeOK
    <3>3. CASE Rollback(r)
      BY <1>0, <3>3 DEF Rollback, Enough, Zero, TypeOK
    <3> QED BY <1>1, <3>1, <3>2, <3>3
  <2> QED BY <1>0, <1>a, <2>1, <2>2, <2>3 DEF NonNegativeInv
<1>2. ASSUME NEW r \in Requests, NEW k \in Keys, LockRow(r, k)
      PROVE  NonNegativeInv'
  <2>1. NeverNegative'
    BY <1>0, <1>2, StaysNonNegative DEF LockRow, Wants, TypeOK
  <2>2. ASSUME NEW q \in Requests, q # r PROVE Enough(q)
    <3>1. /\ stock'[q] = stock[q] /\ moved'[q] = moved[q] /\ line'[q] = line[q]
          /\ pc'[q] = pc[q]
      BY <1>0, <1>2, <2>2 DEF LockRow, TypeOK
    <3> QED BY <1>0, <3>1, OthersKeepEnough DEF Enough
  <2>3. Enough(r)
    <3>1. moved' = moved /\ pc[r] = "lock" /\ (pc'[r] = "write" => r \in LineByLine)
      BY <1>0, <1>2 DEF LockRow, Wants, TypeOK
    <3>2. k \notin held[r] => moved[r][k] = 0
      BY <1>0, <3>1 DEF EntityIsCurrent
    <3>3. \A j \in Keys : moved[r][j] < 0 => stock'[r][j] = stock[r][j]
      BY <1>0, <1>2, <3>2 DEF LockRow, TypeOK
    <3> QED BY <1>0, <3>1, <3>3 DEF Enough, EnoughLeft
  <2> QED BY <1>0, <1>a, <2>1, <2>2, <2>3 DEF NonNegativeInv
<1>3. ASSUME NEW r \in Requests, WriteLine(r) PROVE NonNegativeInv'
  <2> DEFINE l == line[r]
             k == LinesOf(r)[l].key
             c == LinesOf(r)[l].change
  <2>1. /\ k \in Keys /\ c \in Int /\ l \in DOMAIN LinesOf(r) /\ l \in Nat
        /\ pc[r] = "write" /\ (r \in LineByLine => Sufficient(r, l))
    BY <1>0, <1>3, LineType DEF WriteLine, TypeOK
  <2>2. /\ stock' = [stock EXCEPT ![r][k] = stock[r][k] + c]
        /\ moved' = [moved EXCEPT ![r][k] = moved[r][k] + c]
        /\ line' = [line EXCEPT ![r] = l + 1]
    BY <1>3 DEF WriteLine
  <2>3. c < 0 => stock[r][k] + c >= 0 \/ k \in Twice(DocOf[r])
    <3>1. Sufficient(r, l) \/ k \in Twice(DocOf[r])
      BY <1>0, <2>1 DEF EnoughLeft
    <3> QED BY <3>1 DEF Sufficient
  <2>4. NeverNegative'
    BY <1>0, <1>3, StaysNonNegative DEF WriteLine, TypeOK
  <2>5. ASSUME NEW q \in Requests, q # r PROVE Enough(q)
    <3>1. /\ stock'[q] = stock[q] /\ moved'[q] = moved[q] /\ line'[q] = line[q]
          /\ pc'[q] = pc[q]
      BY <1>0, <1>3, <2>5 DEF WriteLine, TypeOK
    <3> QED BY <1>0, <3>1, OthersKeepEnough DEF Enough
  <2>6. \A j \in Keys : moved'[r][j] < 0 => stock'[r][j] >= 0 \/ j \in Twice(DocOf[r])
    <3> HIDE DEF k, c
    <3> SUFFICES ASSUME NEW j \in Keys, moved'[r][j] < 0
                 PROVE  stock'[r][j] >= 0 \/ j \in Twice(DocOf[r])
      OBVIOUS
    <3>1. stock[r][j] \in Int /\ moved[r][j] \in Int
      BY <1>0 DEF TypeOK
    <3>2. moved[r][j] < 0 => stock[r][j] >= 0 \/ j \in Twice(DocOf[r])
      BY <1>0 DEF EnoughLeft
    <3>3. CASE j # k
      <4>1. stock'[r][j] = stock[r][j] /\ moved'[r][j] = moved[r][j]
        BY <1>0, <2>1, <2>2, <3>3 DEF TypeOK
      <4> QED BY <3>2, <4>1
    <3>4. CASE j = k
      <4>1. stock'[r][j] = stock[r][j] + c /\ moved'[r][j] = moved[r][j] + c
        BY <1>0, <2>1, <2>2, <3>4 DEF TypeOK
      <4> QED BY <2>1, <2>3, <3>1, <3>2, <3>4, <4>1
    <3> QED BY <3>3, <3>4
  <2>7. ASSUME r \notin LineByLine, NEW i \in DOMAIN LinesOf(r), line'[r] <= i
        PROVE  Sufficient(r, i)' \/ LinesOf(r)[i].key \in Twice(DocOf[r])
    <3>1. line'[r] = l + 1 /\ i \in Nat /\ l \in Nat
      BY <1>0, <2>1, <2>2, <2>7, FirstLine DEF TypeOK
    <3>2. line[r] <= i /\ i # l
      BY <2>7, <3>1
    <3>3. Sufficient(r, i) \/ LinesOf(r)[i].key \in Twice(DocOf[r])
      BY <1>0, <2>1, <2>7, <3>2 DEF EnoughLeft
    <3>4. CASE LinesOf(r)[i].key = k
      BY <2>1, <2>7, <3>2, <3>4, TwoLines
    <3>5. CASE LinesOf(r)[i].key # k
      <4>1. stock'[r][LinesOf(r)[i].key] = stock[r][LinesOf(r)[i].key]
        <5> HIDE DEF k, c
        <5> QED BY <1>0, <2>1, <2>2, <2>7, <3>5, LineType DEF TypeOK
      <4> QED BY <3>3, <4>1 DEF Sufficient
    <3> QED BY <3>4, <3>5
  <2>8. Enough(r)
    BY <2>6, <2>7 DEF Enough
  <2> QED BY <1>0, <1>a, <2>4, <2>5, <2>8 DEF NonNegativeInv
<1>4. ASSUME NEW r \in Requests, Commit(r) PROVE NonNegativeInv'
  <2>1. /\ pc[r] = "write" /\ pc' = [pc EXCEPT ![r] = "done"]
        /\ UNCHANGED <<stock, moved, line>>
    BY <1>4 DEF Commit
  <2>2. NeverNegative'
    <3> SUFFICES ASSUME NEW k \in Keys, ~(onHand'[k] >= 0)
                 PROVE  \E q \in Requests : pc'[q] = "done" /\ k \in Twice(DocOf[q])
      BY DEF NeverNegative, Twice
    <3>1. \A q \in Requests : pc[q] = "done" => pc'[q] = "done"
      BY <1>0, <2>1 DEF TypeOK
    <3>2. onHand[k] \in Int /\ moved[r][k] \in Int /\ stock[r][k] \in Int
          /\ onHand'[k] = IF k \in held[r] THEN stock[r][k] ELSE onHand[k]
      BY <1>0, <1>4 DEF Commit, TypeOK
    <3>3. CASE onHand[k] >= 0
      <4>1. k \in held[r] /\ ~(stock[r][k] >= 0) /\ moved[r][k] < 0
        BY <1>0, <3>2, <3>3 DEF EntityIsCurrent
      <4>2. k \in Twice(DocOf[r]) /\ pc'[r] = "done"
        BY <1>0, <2>1, <4>1 DEF EnoughLeft, TypeOK
      <4> QED BY <4>2
    <3>4. CASE ~(onHand[k] >= 0)
      BY <1>0, <3>1, <3>4 DEF NeverNegative
    <3> QED BY <3>3, <3>4
  <2>3. ASSUME NEW q \in Requests PROVE Enough(q)
    BY <1>0, <2>1, OthersKeepEnough DEF Enough, TypeOK
  <2> QED BY <1>0, <1>a, <2>2, <2>3 DEF NonNegativeInv
<1>5. CASE UNCHANGED vars
  <2>1. NeverNegative'
    BY <1>0, <1>5, StaysNonNegative DEF vars
  <2>2. ASSUME NEW q \in Requests PROVE Enough(q)
    BY <1>0, <1>5, OthersKeepEnough DEF Enough, vars
  <2> QED BY <1>0, <1>a, <2>1, <2>2 DEF NonNegativeInv
<1> QED BY <1>1, <1>2, <1>3, <1>4, <1>5 DEF Next

LEMMA AlwaysNonNegative == Spec => []NonNegativeInv
<1>1. Init => NonNegativeInv
  <2> SUFFICES ASSUME Init PROVE NonNegativeInv
    OBVIOUS
  <2>1. NeverNegative
    BY StockAssumption DEF Init, NeverNegative
  <2>2. EnoughLeft
    BY DEF Init, EnoughLeft, Zero
  <2> QED BY <2>1, <2>2, InitLedger DEF NonNegativeInv
<1> QED BY <1>1, StepNonNegative, PTL DEF Spec

\* Whatever the documents, a row falls below zero only where a finished sale,
\* transfer or adjustment names it in two lines.
THEOREM StockNeverNegative == Spec => []NeverNegative
BY AlwaysNonNegative, PTL DEF NonNegativeInv
-----------------------------------------------------------------------------
\* A document has the rows of lines it is past; one that locks all its rows
\* first has none behind one it still wants.
HeldInOrder ==
  \A r \in Requests : \A k \in held[r] :
    IF r \in LineByLine
    THEN \E i \in DOMAIN LinesOf(r) :
           k = LinesOf(r)[i].key /\ i <= line[r] /\ (pc[r] = "lock" => i < line[r])
    ELSE pc[r] = "lock" => \A j \in KeysOf(r) \ held[r] : k <= j

OrderInv == LedgerInv /\ HeldInOrder

LEMMA StepOrder == OrderInv /\ [Next]_vars => HeldInOrder'
<1> SUFFICES ASSUME OrderInv, [Next]_vars,
                    NEW q \in Requests, NEW j \in held'[q]
             PROVE  IF q \in LineByLine
                    THEN \E i \in DOMAIN LinesOf(q) :
                           /\ j = LinesOf(q)[i].key /\ i <= line'[q]
                           /\ pc'[q] = "lock" => i < line'[q]
                    ELSE pc'[q] = "lock" => \A k \in KeysOf(q) \ held'[q] : j <= k
  BY DEF HeldInOrder, LineByLine, KeysOf
<1> DEFINE Goal == IF q \in LineByLine
                   THEN \E i \in DOMAIN LinesOf(q) :
                          /\ j = LinesOf(q)[i].key /\ i <= line'[q]
                          /\ pc'[q] = "lock" => i < line'[q]
                   ELSE pc'[q] = "lock" => \A k \in KeysOf(q) \ held'[q] : j <= k
<1>0. TypeOK /\ LinesAreLocked /\ DOMAIN LinesOf(q) \subseteq Nat /\ Keys \subseteq Nat
  BY FirstLine, StockAssumption DEF OrderInv, LedgerInv
<1>1. j \in held[q] =>
        IF q \in LineByLine
        THEN \E i \in DOMAIN LinesOf(q) :
               j = LinesOf(q)[i].key /\ i <= line[q] /\ (pc[q] = "lock" => i < line[q])
        ELSE pc[q] = "lock" => \A k \in KeysOf(q) \ held[q] : j <= k
  BY DEF OrderInv, HeldInOrder
<1>2. ASSUME NEW r \in Requests, Begin(r) PROVE Goal
  BY <1>0, <1>1, <1>2 DEF Begin, TypeOK, LinesAreLocked, Active
<1>3. ASSUME NEW r \in Requests, NEW k \in Keys, LockRow(r, k) PROVE Goal
  <2>1. CASE q = r /\ r \in LineByLine
    <3>1. pc[r] = "lock" /\ line'[r] = line[r] /\ pc'[r] = "write"
          /\ held'[r] = held[r] \cup {k}
          /\ k = LinesOf(r)[line[r]].key /\ line[r] \in DOMAIN LinesOf(r) /\ line[r] \in Nat
      BY <1>0, <1>3, <2>1 DEF LockRow, Wants, TypeOK, LinesAreLocked
    <3>2. CASE j = k
      BY <2>1, <3>1, <3>2
    <3>3. CASE j \in held[r]
      BY <1>1, <2>1, <3>1, <3>3
    <3> QED BY <2>1, <3>1, <3>2, <3>3
  <2>2. CASE q = r /\ r \notin LineByLine
    <3>1. /\ pc[r] = "lock" /\ held'[r] = held[r] \cup {k} /\ k \in KeysOf(r) \ held[r]
          /\ \A i \in KeysOf(r) \ held[r] : k <= i
      BY <1>0, <1>3, <2>2 DEF LockRow, Wants, TypeOK
    <3> QED BY <1>1, <2>2, <3>1
  <2>3. CASE q # r
    BY <1>0, <1>1, <1>3, <2>3 DEF LockRow, TypeOK
  <2> QED BY <2>1, <2>2, <2>3
<1>4. ASSUME NEW r \in Requests, CheckLines(r) PROVE Goal
  BY <1>0, <1>1, <1>4 DEF CheckLines, TypeOK
<1>5. ASSUME NEW r \in Requests, WriteLine(r) PROVE Goal
  <2>1. CASE q = r
    <3>1. /\ pc[r] = "write" /\ line[r] \in Nat /\ line'[r] = line[r] + 1
          /\ held' = held /\ (r \notin LineByLine => pc'[r] = "write")
      BY <1>0, <1>5 DEF WriteLine, TypeOK
    <3>2. CASE r \in LineByLine
      <4>1. PICK i \in DOMAIN LinesOf(r) : j = LinesOf(r)[i].key /\ i <= line[r]
        BY <1>1, <2>1, <3>1, <3>2
      <4>2. i \in Nat /\ i <= line'[r] /\ i < line'[r]
        BY <1>0, <2>1, <3>1, <4>1
      <4> QED BY <2>1, <3>2, <4>1, <4>2
    <3> QED BY <1>1, <2>1, <3>1, <3>2
  <2>2. CASE q # r
    BY <1>0, <1>1, <1>5, <2>2 DEF WriteLine, TypeOK
  <2> QED BY <2>1, <2>2
<1>6. ASSUME NEW r \in Requests, Commit(r) \/ Rollback(r) PROVE Goal
  <2>1. q # r
    BY <1>0, <1>6 DEF Commit, Rollback, TypeOK
  <2> QED BY <1>0, <1>1, <1>6, <2>1 DEF Commit, Rollback, TypeOK
<1>7. CASE UNCHANGED vars
  BY <1>1, <1>7 DEF vars
<1> QED BY <1>2, <1>3, <1>4, <1>5, <1>6, <1>7 DEF Next

\* But for a receipt, a document waits for no row before one it has.
LEMMA WaitsUpwards ==
  ASSUME OrderInv, NEW r \in Requests, KindOf(r) # "receipt",
         NEW k \in Keys, Wants(r, k), NEW j \in held[r]
  PROVE  j <= k
<1>1. CASE r \in LineByLine
  <2>1. PICK i \in DOMAIN LinesOf(r) : j = LinesOf(r)[i].key /\ i < line[r]
    BY <1>1 DEF OrderInv, HeldInOrder, Wants
  <2>2. line[r] \in DOMAIN LinesOf(r) /\ k = LinesOf(r)[line[r]].key
        /\ i \in Nat /\ line[r] \in Nat
    BY <1>1, FirstLine DEF OrderInv, LedgerInv, LinesAreLocked, Wants
  <2>3. DocOf[r] \in Documents /\ LinesOf(r) = Lines[DocOf[r]]
        /\ Kind[DocOf[r]] \in {"saleReturn", "purchaseReturn"}
    BY <1>1, FirstLine DEF LineByLine, KindOf
  <2> QED BY <2>1, <2>2, <2>3, OrderAssumption DEF OrderAssumption
<1>2. CASE r \notin LineByLine
  BY <1>2 DEF OrderInv, HeldInOrder, Wants
<1> QED BY <1>1, <1>2

\* A finite set of rows has a last one: a least subset without one would lose it
\* with any of its members.
LEMMA LastRow ==
  ASSUME NEW K \in SUBSET Nat, IsFiniteSet(K), K # {}
  PROVE  \E m \in K : \A k \in K : k <= m
<1> DEFINE B == {T \in SUBSET K : T # {} /\ ~ \E m \in T : \A k \in T : k <= m}
<1> SUFFICES ASSUME B # {} PROVE FALSE
  OBVIOUS
<1>1. PICK T \in B : \A U \in B : ~(<<U, T>> \in StrictSubsetOrdering(K))
  <2>1. IsWellFoundedOn(StrictSubsetOrdering(K), SUBSET K) /\ B \subseteq SUBSET K
    BY FS_StrictSubsetOrderingWellFounded, FS_FiniteSubsetsOfFinite
  <2> HIDE DEF StrictSubsetOrdering, B
  <2> QED BY <2>1, WFMin
<1>2. PICK x \in T : TRUE
  OBVIOUS
<1>3. T \ {x} \notin B
  BY <1>1, <1>2 DEF StrictSubsetOrdering
<1>4. CASE T \ {x} = {}
  BY <1>2, <1>4
<1>5. CASE T \ {x} # {}
  <2>1. PICK m \in T \ {x} : \A k \in T \ {x} : k <= m
    BY <1>3, <1>5
  <2>2. x \in Nat /\ m \in Nat /\ T \subseteq Nat
    OBVIOUS
  <2>3. CASE x <= m
    BY <2>1, <2>2, <2>3
  <2>4. CASE m <= x
    <3>1. \A k \in T : k <= x
      BY <2>1, <2>2, <2>4
    <3> QED BY <1>2, <3>1
  <2> QED BY <2>2, <2>3, <2>4
<1> QED BY <1>4, <1>5

\* Whatever the documents and their number, transactions wait in a circle only with
\* a receipt among them that waits for a row before one it has locked: of the
\* rows waited for in a circle of the others, nobody would wait for the last.
THEOREM StockOnlyReceiptsDeadlock == Spec => []OnlyReceiptsDeadlock
<1>1. Init => HeldInOrder
  BY DEF Init, HeldInOrder
<1>2. OrderInv => OnlyReceiptsDeadlock
  <2> SUFFICES ASSUME OrderInv,
                      NEW S \in (SUBSET {r \in Requests : pc[r] = "lock"}) \ {{}},
                      \A r \in S : \E q \in S \ {r} : WaitsFor(r, q),
                      ~ \E r \in S : KindOf(r) = "receipt"
                          /\ \E j, k \in Keys : Wants(r, k) /\ j \in held[r] /\ k < j
               PROVE  FALSE
    BY DEF OnlyReceiptsDeadlock
  <2>0. S \subseteq Requests /\ S # {} /\ Keys \subseteq Nat /\ TypeOK
    BY StockAssumption DEF OrderInv, LedgerInv
  <2> DEFINE K == {k \in Keys : \E r \in S : \E q \in S \ {r} : Wants(r, k) /\ k \in held[q]}
  <2>1. PICK m \in K : \A k \in K : k <= m
    <3>1. K # {}
      BY <2>0 DEF WaitsFor
    <3>2. K \in SUBSET Nat /\ IsFiniteSet(K)
      BY <2>0, FS_Subset, OrderAssumption DEF OrderAssumption
    <3> HIDE DEF K
    <3> QED BY <3>1, <3>2, LastRow
  <2>2. PICK r \in S : \E q \in S \ {r} : Wants(r, m) /\ m \in held[q]
    OBVIOUS
  <2>3. PICK q \in S \ {r} : Wants(r, m) /\ m \in held[q]
    BY <2>2
  <2>4. PICK f \in S \ {q} : WaitsFor(q, f)
    OBVIOUS
  <2>5. PICK k \in Keys : Wants(q, k) /\ k \in held[f]
    BY <2>4 DEF WaitsFor
  <2>6. k <= m /\ k \in Nat /\ m \in Nat /\ m \in Keys
    BY <2>0, <2>1, <2>4, <2>5
  <2>7. m <= k
    <3>1. CASE KindOf(q) = "receipt"
      BY <2>0, <2>3, <2>5, <2>6, <3>1
    <3>2. CASE KindOf(q) # "receipt"
      BY <2>0, <2>3, <2>5, <3>2, WaitsUpwards
    <3> QED BY <3>1, <3>2
  <2>8. m = k
    BY <2>6, <2>7
  <2> QED BY <2>0, <2>3, <2>4, <2>5, <2>8 DEF TypeOK
<1> QED BY <1>1, <1>2, InitLedger, StepLedger, StepOrder, PTL DEF Spec, OrderInv
-----------------------------------------------------------------------------
(* StockLedger implements StockBook.                                       *)

\* f has what the first n lines of a document add to a row.
IsAdded(f, d, k, n) ==
  f = [i \in 0..n |-> IF i = 0 THEN 0 ELSE f[i - 1] + Change(d, k, i)]

\* There is such a function for every n: were there none for some n, there would be
\* one for a last n before it, and with it one for the next.
LEMMA AddedExists ==
  ASSUME NEW d \in Documents, NEW k \in Keys, NEW n \in Nat
  PROVE  \E f : IsAdded(f, d, k, n)
<1> DEFINE G == {m \in 0..n : \E f : IsAdded(f, d, k, m)}
<1> SUFFICES ASSUME n \notin G PROVE FALSE
  OBVIOUS
<1>1. 0 \in G
  <2> DEFINE f == [i \in 0..0 |-> 0]
  <2>1. IsAdded(f, d, k, 0)
    BY DEF IsAdded
  <2> HIDE DEF f
  <2> QED BY <2>1
<1>2. PICK m \in G : \A i \in G : i <= m
  <2>1. IsFiniteSet(0..n) /\ G \in SUBSET (0..n) /\ G \in SUBSET Nat
    BY FS_Interval
  <2> HIDE DEF G
  <2>2. IsFiniteSet(G)
    BY <2>1, FS_Subset
  <2> QED BY <1>1, <2>1, <2>2, LastRow
<1>3. m \in Nat /\ m + 1 \in 0..n
  OBVIOUS
<1>4. PICK f : IsAdded(f, d, k, m)
  OBVIOUS
<1> DEFINE g == [i \in 0..(m + 1) |->
                   IF i = m + 1 THEN f[m] + Change(d, k, i) ELSE f[i]]
<1>5. IsAdded(g, d, k, m + 1)
  <2> SUFFICES ASSUME NEW i \in 0..(m + 1)
               PROVE  g[i] = IF i = 0 THEN 0 ELSE g[i - 1] + Change(d, k, i)
    BY DEF IsAdded
  <2>1. CASE i = m + 1
    BY <1>3, <2>1
  <2>2. CASE i # m + 1
    <3>1. i \in 0..m /\ g[i] = f[i] /\ (i # 0 => g[i - 1] = f[i - 1])
      BY <1>3, <2>2
    <3>2. f[i] = IF i = 0 THEN 0 ELSE f[i - 1] + Change(d, k, i)
      BY <1>4, <3>1 DEF IsAdded
    <3> QED BY <3>1, <3>2
  <2> QED BY <2>1, <2>2
<1>6. m + 1 \in G
  <2> HIDE DEF g
  <2> QED BY <1>3, <1>5
<1> QED BY <1>2, <1>3, <1>6

\* What Added returns: nothing before the first line, and line by line the change.
LEMMA AddedByLine ==
  ASSUME NEW d \in Documents, NEW k \in Keys
  PROVE  /\ Added(d, k)[0] = 0
         /\ \A i \in DOMAIN Lines[d] : Added(d, k)[i] = Added(d, k)[i - 1] + Change(d, k, i)
<1> DEFINE n == Len(Lines[d])
<1>1. n \in Nat /\ DOMAIN Lines[d] = 1..n
  BY FirstLine
<1>2. Added(d, k) = CHOOSE f : IsAdded(f, d, k, n)
  BY DEF Added, IsAdded
<1>3. \E f : IsAdded(f, d, k, n)
  BY <1>1, AddedExists
<1>4. IsAdded(Added(d, k), d, k, n)
  BY <1>2, <1>3
<1> HIDE DEF n
<1>5. \A i \in 0..n : Added(d, k)[i] = IF i = 0 THEN 0
                                       ELSE Added(d, k)[i - 1] + Change(d, k, i)
  BY <1>4 DEF IsAdded
<1> QED BY <1>1, <1>5

\* A transaction has moved what the lines it has written add.
MovedByLines ==
  \A r \in Requests, k \in Keys : moved[r][k] = Added(DocOf[r], k)[line[r] - 1]

LEMMA InitMoved == Init => MovedByLines
<1> SUFFICES ASSUME Init, NEW r \in Requests, NEW k \in Keys
             PROVE  moved[r][k] = Added(DocOf[r], k)[line[r] - 1]
  BY DEF MovedByLines
<1>1. moved[r][k] = 0 /\ line[r] - 1 = 0
  BY DEF Init, Zero
<1> QED BY <1>1, FirstLine, AddedByLine

LEMMA StepMoved == LedgerInv /\ MovedByLines /\ [Next]_vars => MovedByLines'
<1> SUFFICES ASSUME LedgerInv, MovedByLines, [Next]_vars,
                    NEW q \in Requests, NEW j \in Keys
             PROVE  moved'[q][j] = Added(DocOf[q], j)[line'[q] - 1]
  BY DEF MovedByLines, Added, Change
<1>0. TypeOK
  BY DEF LedgerInv
<1>1. moved[q][j] = Added(DocOf[q], j)[line[q] - 1]
  BY DEF MovedByLines
<1>2. ASSUME moved'[q] = moved[q], line'[q] = line[q]
      PROVE  moved'[q][j] = Added(DocOf[q], j)[line'[q] - 1]
  BY <1>1, <1>2
<1>3. ASSUME NEW r \in Requests, WriteLine(r)
      PROVE  moved'[q][j] = Added(DocOf[q], j)[line'[q] - 1]
  <2> DEFINE k == LinesOf(r)[line[r]].key
             c == LinesOf(r)[line[r]].change
  <2>1. k \in Keys /\ c \in Int /\ line[r] \in DOMAIN LinesOf(r) /\ line[r] \in Nat
    BY <1>0, <1>3, LineType DEF WriteLine, TypeOK
  <2>2. moved' = [moved EXCEPT ![r][k] = moved[r][k] + c]
        /\ line' = [line EXCEPT ![r] = line[r] + 1]
    BY <1>3 DEF WriteLine
  <2>3. Change(DocOf[r], j, line[r]) = IF k = j THEN c ELSE 0
    BY DEF Change, LinesOf
  <2> HIDE DEF k, c
  <2>4. CASE q = r
    <3>1. line'[q] - 1 = line[q]
      BY <1>0, <2>1, <2>2, <2>4 DEF TypeOK
    <3>2. moved[q][j] \in Int /\ moved'[q][j] = moved[q][j] + Change(DocOf[q], j, line[q])
      BY <1>0, <2>1, <2>2, <2>3, <2>4 DEF TypeOK
    <3>3. Added(DocOf[q], j)[line[q]] = Added(DocOf[q], j)[line[q] - 1] + Change(DocOf[q], j, line[q])
      BY <2>1, <2>4, FirstLine, AddedByLine
    <3> QED BY <1>1, <3>1, <3>2, <3>3
  <2>5. CASE q # r
    <3>1. moved'[q] = moved[q] /\ line'[q] = line[q]
      BY <1>0, <2>2, <2>5 DEF TypeOK
    <3> QED BY <1>2, <3>1
  <2> QED BY <2>4, <2>5
<1>4. ASSUME NEW r \in Requests, Rollback(r)
      PROVE  moved'[q][j] = Added(DocOf[q], j)[line'[q] - 1]
  <2>1. CASE q = r
    <3>1. moved'[q][j] = 0 /\ line'[q] - 1 = 0
      BY <1>0, <1>4, <2>1 DEF Rollback, Zero, TypeOK
    <3> QED BY <3>1, FirstLine, AddedByLine
  <2>2. CASE q # r
    <3>1. moved'[q] = moved[q] /\ line'[q] = line[q]
      BY <1>0, <1>4, <2>2 DEF Rollback, TypeOK
    <3> QED BY <1>2, <3>1
  <2> QED BY <2>1, <2>2
<1>5. ASSUME NEW r \in Requests,
             Begin(r) \/ (\E k \in Keys : LockRow(r, k)) \/ CheckLines(r) \/ Commit(r)
      PROVE  moved' = moved /\ line' = line
  BY <1>5 DEF Begin, LockRow, CheckLines, Commit
<1>6. CASE UNCHANGED vars
  BY <1>2, <1>6 DEF vars
<1> QED BY <1>2, <1>3, <1>4, <1>5, <1>6 DEF Next

\* Of two requests that post one document, unless it is a sale, one has not begun.
OneRequest ==
  \A r \in Requests : \A q \in Rivals(r) :
    KindOf(r) # "issue" => pc[q] = "idle" \/ pc[r] = "idle"

LEMMA StepOneRequest == LedgerInv /\ OneRequest /\ [Next]_vars => OneRequest'
<1> SUFFICES ASSUME LedgerInv, OneRequest, [Next]_vars,
                    NEW r \in Requests, NEW q \in Rivals(r), KindOf(r) # "issue"
             PROVE  pc'[q] = "idle" \/ pc'[r] = "idle"
  BY DEF OneRequest, Rivals, KindOf
<1>0. TypeOK
  BY DEF LedgerInv
<1>1. /\ q \in Requests /\ q # r /\ DocOf[q] = DocOf[r] /\ r \in Rivals(q)
      /\ KindOf(q) # "issue" /\ (pc[q] = "idle" \/ pc[r] = "idle")
  BY DEF OneRequest, Rivals, KindOf
<1>2. ASSUME NEW p \in Requests, Begin(p) PROVE pc'[q] = "idle" \/ pc'[r] = "idle"
  <2>1. \A x \in Requests : x # p => pc'[x] = pc[x]
    BY <1>0, <1>2 DEF Begin, TypeOK
  <2>2. \A x \in Rivals(p) : KindOf(p) # "issue" => pc[x] = "idle"
    BY <1>0, <1>2 DEF Begin, Active, Rivals, TypeOK
  <2> QED BY <1>1, <2>1, <2>2
<1>3. ASSUME NEW p \in Requests,
             (\E k \in Keys : LockRow(p, k)) \/ CheckLines(p) \/ WriteLine(p)
             \/ Commit(p) \/ Rollback(p)
      PROVE  pc'[q] = "idle" \/ pc'[r] = "idle"
  <2>1. pc[p] # "idle" /\ \A x \in Requests : x # p => pc'[x] = pc[x]
    BY <1>0, <1>3 DEF LockRow, Wants, CheckLines, WriteLine, Commit, Rollback, Active, TypeOK
  <2> QED BY <1>1, <2>1
<1>4. CASE UNCHANGED vars
  BY <1>1, <1>4 DEF vars
<1> QED BY <1>2, <1>3, <1>4 DEF Next

\* Only a commit makes a document one of the posted, and nothing takes it from them.
LEMMA OnlyCommitsPost ==
  ASSUME TypeOK, NEW r \in Requests,
         Begin(r) \/ (\E k \in Keys : LockRow(r, k)) \/ CheckLines(r)
         \/ WriteLine(r) \/ Rollback(r)
  PROVE  onHand' = onHand /\ Posted' = Posted
<1>1. onHand' = onHand
  BY DEF Begin, LockRow, CheckLines, WriteLine, Rollback
<1>2. /\ pc[r] # "done" /\ pc'[r] # "done"
      /\ \A q \in Requests \ {r} : pc'[q] = pc[q]
  BY DEF Begin, LockRow, Wants, CheckLines, WriteLine, Rollback, Active, TypeOK
<1>3. {q \in Requests : pc'[q] = "done"} = {q \in Requests : pc[q] = "done"}
  BY <1>2
<1> QED BY <1>1, <1>3 DEF Posted

\* A commit posts the whole document: it has written all its lines, and the
\* entities it saves are current.
LEMMA CommitPosts ==
  ASSUME NonNegativeInv, MovedByLines, OneRequest, NEW r \in Requests, Commit(r)
  PROVE  Book!Post(DocOf[r])
<1> DEFINE d == DocOf[r]
<1>0. TypeOK /\ EntityIsCurrent /\ EnoughLeft /\ d \in Documents /\ LinesOf(r) = Lines[d]
  BY FirstLine DEF NonNegativeInv, LedgerInv
<1>1. Posted' = Posted \cup {d}
  <2>1. {q \in Requests : pc'[q] = "done"} = {q \in Requests : pc[q] = "done"} \cup {r}
    BY <1>0 DEF Commit, TypeOK
  <2> QED BY <2>1 DEF Posted
<1>2. line[r] - 1 = Len(Lines[d])
  <2>1. Len(LinesOf(r)) \in Nat /\ line[r] \in Nat
        /\ line[r] > Len(LinesOf(r)) /\ line[r] <= Len(LinesOf(r)) + 1
    BY <1>0, FirstLine DEF Commit, TypeOK
  <2> QED BY <1>0, <2>1
<1>3. \A k \in Keys : moved[r][k] = Delta[d][k]
  BY <1>0, <1>2 DEF MovedByLines, Delta
<1>4. ASSUME NEW k \in Keys
      PROVE  /\ onHand'[k] = onHand[k] + Delta[d][k]
             /\ k \notin Twice(d) /\ Delta[d][k] < 0 => onHand'[k] >= 0
  <2>1. /\ pc[r] = "write" /\ onHand[k] \in Int /\ moved[r][k] \in Int
        /\ onHand'[k] = IF k \in held[r] THEN stock[r][k] ELSE onHand[k]
    BY <1>0 DEF Commit, TypeOK
  <2>2. /\ k \in held[r] => stock[r][k] = onHand[k] + moved[r][k]
        /\ k \notin held[r] => moved[r][k] = 0
    BY <1>0, <2>1 DEF EntityIsCurrent
  <2>3. moved[r][k] < 0 => stock[r][k] >= 0 \/ k \in Twice(d)
    BY <1>0 DEF EnoughLeft
  <2> QED BY <1>3, <2>1, <2>2, <2>3
<1>5. onHand' = [k \in Keys |-> onHand[k] + Delta[d][k]]
  <2>1. onHand' = [k \in Keys |-> onHand'[k]]
    BY DEF Commit
  <2> QED BY <1>4, <2>1
<1>6. d \in Posted => d \in Sales
  <2> SUFFICES ASSUME NEW q \in Requests, pc[q] = "done", DocOf[q] = d PROVE d \in Sales
    BY DEF Posted
  <2>1. q # r /\ q \in Rivals(r) /\ pc[r] = "write"
    BY DEF Commit, Rivals
  <2>2. KindOf(r) = "issue"
    BY <2>1 DEF OneRequest
  <2> QED BY <1>0, <2>2 DEF Sales, KindOf
<1>7. \A k \in Keys \ [e \in Documents |-> Twice(e)][d] : Delta[d][k] < 0 => onHand'[k] >= 0
  BY <1>0, <1>4
<1> QED BY <1>1, <1>5, <1>6, <1>7 DEF Book!Post

\* The quantities on hand change as if every document were posted in one step: a
\* sale perhaps again by a second confirmation, every other document at most
\* once, and none takes more than there is of a row that it does not name in two
\* lines.  Locks, writes line by line, rollbacks and second attempts do not show.
THEOREM StockSerializable == Spec => Serializable
<1>1. Init => Book!Init
  <2> SUFFICES ASSUME Init PROVE Book!Init
    OBVIOUS
  <2>1. Posted = {}
    BY DEF Init, Posted
  <2> QED BY <2>1 DEF Init, Book!Init
<1>2. Init => OneRequest
  BY DEF Init, OneRequest, Rivals
<1>3. NonNegativeInv /\ MovedByLines /\ OneRequest /\ [Next]_vars =>
        [\E d \in Documents : Book!Post(d)]_Book!vars
  <2> SUFFICES ASSUME NonNegativeInv, MovedByLines, OneRequest, [Next]_vars
               PROVE  [\E d \in Documents : Book!Post(d)]_Book!vars
    OBVIOUS
  <2>0. TypeOK
    BY DEF NonNegativeInv, LedgerInv
  <2>1. ASSUME NEW r \in Requests, Commit(r)
        PROVE  \E d \in Documents : Book!Post(d)
    BY <2>1, CommitPosts, FirstLine
  <2>2. ASSUME NEW r \in Requests,
               Begin(r) \/ (\E k \in Keys : LockRow(r, k)) \/ CheckLines(r)
               \/ WriteLine(r) \/ Rollback(r)
        PROVE  UNCHANGED Book!vars
    BY <2>0, <2>2, OnlyCommitsPost DEF Book!vars
  <2>3. CASE UNCHANGED vars
    BY <2>3 DEF vars, Book!vars, Posted
  <2> QED BY <2>1, <2>2, <2>3 DEF Next
<1>4. NonNegativeInv => LedgerInv
  BY DEF NonNegativeInv
<1> QED
  BY <1>1, <1>2, <1>3, <1>4, AlwaysNonNegative, InitMoved, StepMoved, StepOneRequest, PTL
  DEF Spec, Serializable, Book!Spec
=============================================================================
