-------------------------- MODULE PayrollRuns_proofs --------------------------
(***************************************************************************)
(* The invariants of PayrollRuns for every set of requests: what create()  *)
(* relies on while it holds the range of the runs, and what calculate(),   *)
(* finalize() and cancel() rely on while they hold a run, stays true until *)
(* they commit; the period follows from there being one active run.        *)
(***************************************************************************)
EXTENDS PayrollRuns, TLAPS

RunStates == {"NONE", "DRAFT", "CALCULATED", "FINALIZED", "CANCELLED"}

Types ==
  /\ period \in Periods
  /\ run \in [Runs -> RunStates] /\ slips \in [Runs -> RunStates]
  /\ stage \in [PayrollRequests -> {"idle", "range", "insert", "commit"}]
  /\ snapshot \in [PayrollRequests -> Periods]

\* The request is in a state its handler has.
Handlers ==
  \A r \in PayrollRequests :
    /\ stage[r] \in {"range", "insert"} => PayrollOp[r] = "create"
    /\ stage[r] = "commit" => PayrollOp[r] \in Transitions

\* Who holds the range has seen no active run, and there is none.
RangeIsFree == \A r \in PayrollRequests : stage[r] = "insert" => Active = {}

\* Who holds a run holds it alone, in the status that was checked.
HeldAsChecked ==
  \A r \in Calling(Transitions) : stage[r] = "commit" =>
    /\ PayrollOp[r] = "calculate" => run[RunOf[r]] = "DRAFT"
    /\ PayrollOp[r] = "finalize" => run[RunOf[r]] = "CALCULATED"
    /\ PayrollOp[r] = "cancel" => run[RunOf[r]] \in {"DRAFT", "CALCULATED"}
    /\ PayrollOp[r] = "cancel" /\ run[RunOf[r]] = "CALCULATED" /\ period = "PROCESSING"
         => snapshot[r] = "PROCESSING"
    /\ \A q \in Calling(Transitions) : stage[q] = "commit" /\ RunOf[q] = RunOf[r] => q = r

IInv ==
  Types /\ Handlers /\ RangeIsFree /\ HeldAsChecked /\ OneActiveRun /\ PeriodFollowsRun
-----------------------------------------------------------------------------
\* The initial states satisfy the invariant: nothing exists yet.
LEMMA InitInv == PayrollInit => IInv
  BY DEF PayrollInit, IInv, Types, Handlers, RangeIsFree, HeldAsChecked, OneActiveRun,
     PeriodFollowsRun, Active, Periods, RunStates, Calling

\* Opening and cancelling the period leave the runs alone.
LEMMA PeriodStep ==
  ASSUME IInv, NEW r \in PayrollRequests, OpenPeriod(r) \/ CancelPeriod(r)
  PROVE  IInv'
<1> USE DEF IInv, OpenPeriod, CancelPeriod
<1>1. UNCHANGED <<run, slips, stage, snapshot>> /\ period' \in {"OPEN", "CANCELLED"}
  OBVIOUS
<1>2. Types' /\ Handlers'
  BY <1>1 DEF Types, Handlers, Periods
<1>3. RangeIsFree' /\ HeldAsChecked' /\ OneActiveRun'
  BY <1>1 DEF RangeIsFree, HeldAsChecked, OneActiveRun, Active, Calling
<1>4. PeriodFollowsRun'
  BY <1>1 DEF PeriodFollowsRun
<1> QED BY <1>2, <1>3, <1>4

\* Reading the period, taking the range and giving up change no row.
LEMMA ReadStep ==
  ASSUME IInv, NEW r \in PayrollRequests, ReadPeriod(r) \/ LockRange(r) \/ Rollback(r)
  PROVE  IInv'
<1>1. CASE ReadPeriod(r) \/ LockRange(r)
  BY <1>1 DEF ReadPeriod, LockRange, IInv, Types, Handlers, RangeIsFree, HeldAsChecked,
     OneActiveRun, PeriodFollowsRun, Active, Calling
<1>2. CASE Rollback(r)
  BY <1>2 DEF Rollback, End, IInv, Types, Handlers, RangeIsFree, HeldAsChecked,
     OneActiveRun, PeriodFollowsRun, Active, Calling, Periods
<1> QED BY <1>1, <1>2

\* A new run is the only active one; while the range was held nobody could
\* hold an active run.
LEMMA InsertStep ==
  ASSUME PayrollAssumption, IInv, NEW r \in PayrollRequests, InsertRun(r)
  PROVE  IInv'
<1> USE DEF IInv, InsertRun, End
<1>1. r \in Runs /\ Active = {} /\ stage[r] = "insert"
  BY DEF Handlers, RangeIsFree, Runs, Calling
<1>2. run' = [run EXCEPT ![r] = "DRAFT"] /\ UNCHANGED <<period, slips>>
  OBVIOUS
<1>3. Types'
  BY <1>1, <1>2 DEF Types, RunStates, Periods
<1>4. Handlers'
  BY DEF Handlers, Types
<1>5. RangeIsFree'
  BY DEF RangeIsFree, Ranged, Types
<1>6. \A q \in Calling(Transitions) : stage[q] # "commit"
  BY <1>1, PayrollAssumption DEF HeldAsChecked, Active, Calling, Types, RunStates,
     PayrollAssumption, Transitions
<1>7. HeldAsChecked'
  BY <1>1, <1>6 DEF HeldAsChecked, Types, Calling
<1>8. OneActiveRun'
  BY <1>1, <1>2 DEF OneActiveRun, Active, Types
<1>9. PeriodFollowsRun'
  BY <1>1, <1>2 DEF PeriodFollowsRun, Active, Types
<1> QED BY <1>3, <1>4, <1>5, <1>7, <1>8, <1>9

\* A handler that locks a run finds nobody who holds it or the range.
LEMMA BeginStep ==
  ASSUME PayrollAssumption, IInv, NEW r \in PayrollRequests, Begin(r)
  PROVE  IInv'
<1> USE DEF IInv, Begin
<1>1. Types' /\ Handlers'
  BY DEF Types, Handlers, Periods, RunStates
<1>2. RangeIsFree' /\ OneActiveRun' /\ PeriodFollowsRun'
  BY DEF RangeIsFree, OneActiveRun, PeriodFollowsRun, Active, Types
<1>3. r \in Calling(Transitions) /\ RunOf[r] \in Runs
  BY PayrollAssumption DEF PayrollAssumption, Calling
<1>4. \A q \in Calling(Transitions) : stage[q] = "commit" => RunOf[q] # RunOf[r]
  BY DEF RunLocked
<1>5. HeldAsChecked'
  <2>1. \A q \in Calling(Transitions) :
          q # r => stage'[q] = stage[q] /\ snapshot'[q] = snapshot[q]
    BY DEF Types, Calling
  <2>2. snapshot'[r] = period /\ UNCHANGED <<period, run>>
    BY DEF Types
  <2>3. /\ PayrollOp[r] = "calculate" => run[RunOf[r]] = "DRAFT"
        /\ PayrollOp[r] = "finalize" => run[RunOf[r]] = "CALCULATED"
        /\ PayrollOp[r] = "cancel" => run[RunOf[r]] \in {"DRAFT", "CALCULATED"}
    BY DEF MayBegin
  <2> QED BY <1>3, <1>4, <2>1, <2>2, <2>3 DEF HeldAsChecked
<1> QED BY <1>1, <1>2, <1>5

\* A transaction that commits holds the only active run: it alone moves, and the
\* period with it.
LEMMA CommitStep ==
  ASSUME PayrollAssumption, IInv, NEW r \in PayrollRequests,
         Calculate(r) \/ Finalize(r) \/ Cancel(r)
  PROVE  IInv'
<1> DEFINE p == RunOf[r]
<1> USE DEF IInv
<1>1. r \in Calling(Transitions) /\ p \in Runs /\ stage[r] = "commit"
  BY PayrollAssumption DEF PayrollAssumption, Calling, Transitions, Calculate, Finalize, Cancel
<1>2. run[p] \in {"DRAFT", "CALCULATED"}
  BY <1>1 DEF HeldAsChecked, Calling, Transitions
<1>3. Active = {p}
  BY <1>1, <1>2 DEF OneActiveRun, Active
<1>4. \A q \in PayrollRequests : stage[q] # "insert"
  BY <1>3 DEF RangeIsFree
<1>5. \A q \in Calling(Transitions) : stage[q] = "commit" => q = r
  <2> SUFFICES ASSUME NEW q \in Calling(Transitions), stage[q] = "commit"
               PROVE  q = r
    OBVIOUS
  <2>1. RunOf[q] \in Runs /\ run[RunOf[q]] \in {"DRAFT", "CALCULATED"}
    BY PayrollAssumption DEF PayrollAssumption, HeldAsChecked, Calling, Transitions
  <2>2. RunOf[q] = p
    BY <2>1, <1>3 DEF Active
  <2> QED BY <2>2, <1>1 DEF HeldAsChecked
<1>6. stage' = [stage EXCEPT ![r] = "idle"] /\ snapshot' = [snapshot EXCEPT ![r] = "NONE"]
  BY DEF Calculate, Finalize, Cancel, End
<1>7. \A q \in Runs : q # p => run'[q] = run[q] /\ slips'[q] = slips[q]
                               /\ run[q] \in {"NONE", "CANCELLED"}
  BY <1>1, <1>3 DEF Active, Calculate, Finalize, Cancel, Types
<1>8. Types'
  BY <1>1, <1>6 DEF Types, Calculate, Finalize, Cancel, RunStates, Periods
<1>9. Handlers' /\ RangeIsFree'
  BY <1>4, <1>6 DEF Handlers, RangeIsFree, Types
<1>10. HeldAsChecked'
  BY <1>5, <1>6 DEF HeldAsChecked, Types, Calling
<1>11. OneActiveRun'
  BY <1>7 DEF OneActiveRun, Active
<1>12. PeriodFollowsRun'
  <2>1. CASE Calculate(r)
    <3>1. run'[p] = "CALCULATED" /\ slips'[p] = "CALCULATED" /\ period' = "PROCESSING"
      BY <2>1, <1>1 DEF Calculate, Types
    <3> QED BY <3>1, <1>1, <1>7 DEF PeriodFollowsRun
  <2>2. CASE Finalize(r)
    <3>1. run'[p] = "FINALIZED" /\ slips'[p] = "FINALIZED" /\ period' = "FINALIZED"
      BY <2>2, <1>1 DEF Finalize, Types
    <3> QED BY <3>1, <1>1, <1>7 DEF PeriodFollowsRun
  <2>3. CASE Cancel(r)
    <3>1. run'[p] = "CANCELLED"
      BY <2>3, <1>1 DEF Cancel, Types
    <3>2. period # "FINALIZED"
      BY <1>2, <1>7 DEF PeriodFollowsRun
    <3>3. period = "PROCESSING" => run[p] = "CALCULATED" /\ snapshot[r] = "PROCESSING"
      BY <2>3, <1>1, <1>7 DEF PeriodFollowsRun, HeldAsChecked, Cancel
    <3>4. period' \notin {"FINALIZED", "PROCESSING"}
      BY <2>3, <3>2, <3>3 DEF Cancel
    <3> QED BY <3>1, <3>4, <1>7 DEF PeriodFollowsRun
  <2> QED BY <2>1, <2>2, <2>3
<1> QED BY <1>8, <1>9, <1>10, <1>11, <1>12

\* The invariant is inductive.
LEMMA NextInv == IInv /\ [PayrollNext]_payrollVars => IInv'
<1> SUFFICES ASSUME IInv, [PayrollNext]_payrollVars
             PROVE  IInv'
  OBVIOUS
<1>1. CASE UNCHANGED payrollVars
  BY <1>1 DEF payrollVars, IInv, Types, Handlers, RangeIsFree, HeldAsChecked, OneActiveRun,
     PeriodFollowsRun, Active, Calling
<1>2. CASE PayrollNext
  <2> PICK r \in PayrollRequests :
        \/ OpenPeriod(r) \/ CancelPeriod(r)
        \/ ReadPeriod(r) \/ LockRange(r) \/ InsertRun(r) \/ Rollback(r)
        \/ Begin(r) \/ Calculate(r) \/ Finalize(r) \/ Cancel(r)
    BY <1>2 DEF PayrollNext
  <2> QED BY PayrollAssumption, PeriodStep, ReadStep, InsertStep, BeginStep, CommitStep
<1> QED BY <1>1, <1>2

\* Hence it holds in every state.
LEMMA PayrollInv == PayrollSpec => []IInv
  BY InitInv, NextInv, PTL DEF PayrollSpec
-----------------------------------------------------------------------------
\* However requests overlap, create() leaves a period with one active run at
\* most.
THEOREM PayrollOneActiveRun == PayrollSpec => []OneActiveRun
<1>1. IInv => OneActiveRun
  BY DEF IInv
<1> QED BY <1>1, PayrollInv, PTL

\* Run, payslips and period agree in every state.
THEOREM PayrollPeriodFollows == PayrollSpec => []PeriodFollowsRun
<1>1. IInv => PeriodFollowsRun
  BY DEF IInv
<1> QED BY <1>1, PayrollInv, PTL

\* No handler and no interleaving of them moves a FINALIZED run, its payslips or
\* its period.
THEOREM PayrollFinalized == PayrollSpec => FinalizedForGood
<1> DEFINE Kept == \A p \in Runs : run[p] = "FINALIZED" =>
                     run'[p] = "FINALIZED" /\ slips'[p] = "FINALIZED"
                     /\ period' = "FINALIZED"
<1>1. IInv /\ IInv' /\ [PayrollNext]_payrollVars => [Kept]_payrollVars
  <2> SUFFICES ASSUME IInv, IInv', PayrollNext, NEW p \in Runs, run[p] = "FINALIZED"
               PROVE  run'[p] = "FINALIZED"
    BY DEF IInv, PeriodFollowsRun
  <2> PICK r \in PayrollRequests :
        \/ OpenPeriod(r) \/ CancelPeriod(r)
        \/ ReadPeriod(r) \/ LockRange(r) \/ InsertRun(r) \/ Rollback(r)
        \/ Begin(r) \/ Calculate(r) \/ Finalize(r) \/ Cancel(r)
    BY DEF PayrollNext
  <2>1. CASE InsertRun(r)
    BY <2>1 DEF IInv, RangeIsFree, Active, InsertRun
  <2>2. CASE Calculate(r) \/ Finalize(r) \/ Cancel(r)
    <3>1. r \in Calling(Transitions) /\ stage[r] = "commit"
      BY <2>2 DEF Calling, Transitions, Calculate, Finalize, Cancel
    <3>2. RunOf[r] # p
      BY <3>1 DEF IInv, HeldAsChecked, Calling, Transitions
    <3> QED BY <2>2, <3>2 DEF Calculate, Finalize, Cancel, IInv, Types
  <2> QED BY <2>1, <2>2 DEF OpenPeriod, CancelPeriod, ReadPeriod, LockRange, Rollback, Begin
<1> QED BY <1>1, PayrollInv, PTL DEF PayrollSpec, FinalizedForGood
=============================================================================
