----------------------------- MODULE PayrollRuns -----------------------------
(***************************************************************************)
(* One payroll period and its runs: create() and cancel() of               *)
(* PayrollPeriodsService; create(), calculate(), finalize() and cancel()   *)
(* of PayrollRunsService.                                                  *)
(*                                                                         *)
(* A run's handlers lock its row from their first read on.  The period is  *)
(* read without a lock, in the snapshot of the transaction, and written    *)
(* at the end of it whatever it says by then.  cancel() of the period      *)
(* locks the period and reads a run of it without a lock; no handler that  *)
(* writes the period can come between, so that it is one step.             *)
(***************************************************************************)
EXTENDS Naturals, FiniteSets

CONSTANTS
  PayrollRequests,  \* the HTTP requests
  PayrollOp,        \* the handler each calls
  RunOf,            \* the run it names; a run is named by the request that creates it
  MaxUnderWay       \* requests that may be under way at one time

Transitions  == {"calculate", "finalize", "cancel"}
PayrollOps   == Transitions \cup {"open", "cancelPeriod", "create"}
Calling(ops) == {r \in PayrollRequests : PayrollOp[r] \in ops}
Runs         == Calling({"create"})

ASSUME PayrollAssumption ==
  /\ PayrollOp \in [PayrollRequests -> PayrollOps]
  /\ RunOf \in [Calling(Transitions) -> Runs]
  /\ MaxUnderWay \in Nat

VARIABLES
  period,   \* status of the period, NONE before it is created
  run,      \* status of each run, NONE before it is created
  slips,    \* status of its payslips
  stage,    \* where each request is
  snapshot  \* the period's status in the snapshot of its transaction

payrollVars == <<period, run, slips, stage, snapshot>>

Periods == {"NONE", "OPEN", "PROCESSING", "FINALIZED", "CANCELLED"}
-----------------------------------------------------------------------------
PayrollInit ==
  /\ period = "NONE"
  /\ run      = [p \in Runs |-> "NONE"]
  /\ slips    = [p \in Runs |-> "NONE"]
  /\ stage       = [r \in PayrollRequests |-> "idle"]
  /\ snapshot = [r \in PayrollRequests |-> "NONE"]

MayEnter == Cardinality({r \in PayrollRequests : stage[r] # "idle"}) < MaxUnderWay

Existing == {p \in Runs : run[p] # "NONE"}
Active   == {p \in Runs : run[p] \notin {"NONE", "CANCELLED"}}

\* calculate(), finalize() or cancel() of run p holds its row.
RunLocked(p) == \E q \in Calling(Transitions) : stage[q] = "commit" /\ RunOf[q] = p

\* create() holds the index range of the period's runs.
Ranged(q) == stage[q] = "insert"

\* PayrollRequests are sent again and again; a refused one changes nothing, and is no
\* step unless locks or snapshots go with it.
End(r) ==
  /\ stage' = [stage EXCEPT ![r] = "idle"]
  /\ snapshot' = [snapshot EXCEPT ![r] = "NONE"]
-----------------------------------------------------------------------------
\* create() of the period; UNIQUE(company, start, end) lets one through.
OpenPeriod(r) ==
  /\ PayrollOp[r] = "open" /\ period = "NONE"
  /\ period' = "OPEN"
  /\ UNCHANGED <<run, slips, stage, snapshot>>

\* cancel() of the period: findOne() returns one of its runs, whichever.
CancelPeriod(r) ==
  /\ PayrollOp[r] = "cancelPeriod" /\ period \in {"OPEN", "PROCESSING"}
  /\ Existing = {} \/ \E p \in Existing : run[p] \in {"DRAFT", "CANCELLED"}
  /\ period' = "CANCELLED"
  /\ UNCHANGED <<run, slips, stage, snapshot>>
-----------------------------------------------------------------------------
\* create() of a run: the unlocked read of the period.
ReadPeriod(r) ==
  /\ stage[r] = "idle" /\ PayrollOp[r] = "create" /\ run[r] = "NONE" /\ MayEnter
  /\ period = "OPEN"
  /\ stage' = [stage EXCEPT ![r] = "range"]
  /\ UNCHANGED <<period, run, slips, snapshot>>

\* SELECT ... FOR UPDATE of the period's runs waits for each of their rows, and
\* keeps inserts of others away.  The range alone, without a row, is shared.
LockRange(r) ==
  /\ stage[r] = "range"
  /\ \A p \in Existing : ~RunLocked(p)
  /\ Existing # {} => \A q \in PayrollRequests : ~Ranged(q)
  /\ Active = {}
  /\ stage' = [stage EXCEPT ![r] = "insert"]
  /\ UNCHANGED <<period, run, slips, snapshot>>

\* Slip: the check for an active run is a plain read, which holds nothing.
InsertUnranged(r) ==
  /\ stage[r] = "insert"
  /\ run' = [run EXCEPT ![r] = "DRAFT"]
  /\ End(r) /\ UNCHANGED <<period, slips>>

\* INSERT waits for the ranges of others.
InsertRun(r) ==
  /\ stage[r] = "insert"
  /\ \A q \in PayrollRequests \ {r} : ~Ranged(q)
  /\ run' = [run EXCEPT ![r] = "DRAFT"]
  /\ End(r) /\ UNCHANGED <<period, slips>>

\* An active run exists, the transaction is a deadlock's victim, a calculation
\* fails, the process dies.
Rollback(r) ==
  /\ stage[r] # "idle"
  /\ End(r) /\ UNCHANGED <<period, run, slips>>
-----------------------------------------------------------------------------
\* What the handler asks of the run it has locked, and of the period in its
\* snapshot: markProcessing(), markFinalized().
MayBegin(r) ==
  LET p == RunOf[r] IN
  CASE PayrollOp[r] = "calculate" -> run[p] = "DRAFT" /\ period = "OPEN"
    [] PayrollOp[r] = "finalize"  -> run[p] = "CALCULATED" /\ period = "PROCESSING"
    [] PayrollOp[r] = "cancel"    -> run[p] \in {"DRAFT", "CALCULATED"}

\* Slip: the run is read without its lock.
BeginUnlocked(r) ==
  /\ stage[r] = "idle" /\ PayrollOp[r] \in Transitions /\ MayEnter
  /\ MayBegin(r)
  /\ stage' = [stage EXCEPT ![r] = "commit"]
  /\ snapshot' = [snapshot EXCEPT ![r] = period]
  /\ UNCHANGED <<period, run, slips>>

\* calculate(), finalize(), cancel(): the run is locked, the snapshot taken.
Begin(r) ==
  /\ stage[r] = "idle" /\ PayrollOp[r] \in Transitions /\ MayEnter
  /\ ~RunLocked(RunOf[r]) /\ \A q \in PayrollRequests : ~Ranged(q)
  /\ MayBegin(r)
  /\ stage' = [stage EXCEPT ![r] = "commit"]
  /\ snapshot' = [snapshot EXCEPT ![r] = period]
  /\ UNCHANGED <<period, run, slips>>

\* The payslips are inserted, the run's totals and the period are written.
Calculate(r) ==
  /\ stage[r] = "commit" /\ PayrollOp[r] = "calculate"
  /\ run'   = [run EXCEPT ![RunOf[r]] = "CALCULATED"]
  /\ slips' = [slips EXCEPT ![RunOf[r]] = "CALCULATED"]
  /\ period' = "PROCESSING"
  /\ End(r)

\* Payslips, run and period are FINALIZED together.
Finalize(r) ==
  /\ stage[r] = "commit" /\ PayrollOp[r] = "finalize"
  /\ run'   = [run EXCEPT ![RunOf[r]] = "FINALIZED"]
  /\ slips' = [slips EXCEPT ![RunOf[r]] = "FINALIZED"]
  /\ period' = "FINALIZED"
  /\ End(r)

\* Slip: the period is not reopened.
CancelOnly(r) ==
  /\ stage[r] = "commit" /\ PayrollOp[r] = "cancel"
  /\ run' = [run EXCEPT ![RunOf[r]] = "CANCELLED"]
  /\ End(r) /\ UNCHANGED <<period, slips>>

\* A calculated run reopens the period, if the snapshot says PROCESSING.
Cancel(r) ==
  /\ stage[r] = "commit" /\ PayrollOp[r] = "cancel"
  /\ run' = [run EXCEPT ![RunOf[r]] = "CANCELLED"]
  /\ period' = IF run[RunOf[r]] = "CALCULATED" /\ snapshot[r] = "PROCESSING"
               THEN "OPEN" ELSE period
  /\ End(r) /\ UNCHANGED slips

PayrollNext ==
  \E r \in PayrollRequests :
    \/ OpenPeriod(r) \/ CancelPeriod(r)
    \/ ReadPeriod(r) \/ LockRange(r) \/ InsertRun(r) \/ Rollback(r)
    \/ Begin(r) \/ Calculate(r) \/ Finalize(r) \/ Cancel(r)

PayrollSpec == PayrollInit /\ [][PayrollNext]_payrollVars
-----------------------------------------------------------------------------
\* A period has one run at most that is not CANCELLED, which no unique index
\* guards: it is the locking read of create() that does, also for a period that
\* has no run to lock.
OneActiveRun == \A p, q \in Active : p = q

\* Run, payslips and period agree although the period is written on the strength
\* of a snapshot: the period is FINALIZED exactly when a run is, with its
\* payslips; it is PROCESSING only for a calculated run, which finds it so, or
\* cancelled meanwhile.
PeriodFollowsRun ==
  /\ period = "FINALIZED" <=> \E p \in Runs : run[p] = "FINALIZED"
  /\ period = "PROCESSING" => \E p \in Runs : run[p] = "CALCULATED"
  /\ \A p \in Runs :
       /\ run[p] = "CALCULATED" => period \in {"PROCESSING", "CANCELLED"}
       /\ run[p] \in {"CALCULATED", "FINALIZED"} => slips[p] = run[p]

\* The comment of finalize(): no code path moves a FINALIZED run, its payslips
\* or its period anywhere else.
FinalizedForGood ==
  [][\A p \in Runs : run[p] = "FINALIZED" =>
       run'[p] = "FINALIZED" /\ slips'[p] = "FINALIZED" /\ period' = "FINALIZED"]_payrollVars
=============================================================================
