------------------------- MODULE WorkflowRunsProofs -------------------------
(***************************************************************************)
(* Proofs about WorkflowRuns, for any number of runs, workers and          *)
(* attempts: type correctness, the inductive invariant behind the safety   *)
(* properties, the two action properties, and the refinement of            *)
(* RunLifecycle.                                                           *)
(***************************************************************************)
EXTENDS WorkflowRuns, TLAPS

-----------------------------------------------------------------------------
(* Type correctness.                                                         *)

(* A busy worker holds a run, as an invariant of the goroutines alone.       *)
BusyHasRun == \A w \in Workers : worker[w].pc # "idle" =>
                 worker[w].run \in Runs /\ worker[w].att > 0

TypeInv == TypeOK /\ BusyHasRun

(* The initial state is well typed.                                          *)
LEMMA TypeInit == Init => TypeInv
  BY NoRunAssumption DEF Init, TypeInv, TypeOK, BusyHasRun, Row, Job, Worker, Idle, Workflow, States,
     Pcs, Steps, Terminal, Active, Missing

(* finalizeRun, whoever calls it, writes a well-typed row.                   *)
LEMMA FinalizeType ==
    ASSUME TypeInv, NEW r \in Runs, NEW s \in {"SUCCEEDED", "FAILED"},
           NEW o \in Nat, NEW t \in Nat, NEW e \in BOOLEAN, NEW b \in Nat,
           FinalizeRun(r, s, o, t, e, b)
    PROVE  row' \in [Runs -> Row]
  <1>1. CASE ~Unfinished(r)
    BY <1>1 DEF FinalizeRun, TypeInv, TypeOK
  <1>2. CASE Unfinished(r)
    <2>1. Finalized(row[r], s, o, t, e, b) \in Row
      BY DEF Finalized, TypeInv, TypeOK, Row, States, Terminal, Coalesce
    <2> QED BY <1>2, <2>1 DEF FinalizeRun, TypeInv, TypeOK
  <1> QED BY <1>1, <1>2

(* Setting the program counter of a worker keeps the workers well typed.     *)
LEMMA GotoType ==
    ASSUME TypeInv, NEW w \in Workers, NEW pc \in Pcs, Goto(w, pc),
           worker[w].pc # "idle"
    PROVE  worker' \in [Workers -> Worker] /\ BusyHasRun'
  BY DEF Goto, TypeInv, TypeOK, BusyHasRun, Worker

(* Every step, and stuttering, keeps the state well typed.                   *)
LEMMA TypeStep == TypeInv /\ [Next]_vars => TypeInv'
<1> SUFFICES ASSUME TypeInv, [Next]_vars PROVE TypeInv'
    OBVIOUS
<1> USE DEF TypeInv, TypeOK
<1>0. CASE UNCHANGED vars
  BY <1>0 DEF vars, BusyHasRun
<1>1. ASSUME NEW r \in Runs, RunWorkflow(r) PROVE TypeInv'
  BY <1>1 DEF RunWorkflow, BusyHasRun, Row, Job, States
<1>2. ASSUME NEW r \in Runs, CancelWorkflowRun(r) PROVE TypeInv'
  BY <1>2 DEF CancelWorkflowRun, BusyHasRun, Row, States, Terminal
<1>3. ASSUME NEW r \in Runs, Rescue(r) PROVE TypeInv'
  BY <1>3 DEF Rescue, BusyHasRun, Job
<1>4. ASSUME NEW r \in Runs, Reap(r) PROVE TypeInv'
  BY <1>4, FinalizeType DEF Reap, BusyHasRun
<1>5. ASSUME NEW force \in BOOLEAN, DeleteWorkflowCheck(force) PROVE TypeInv'
  BY <1>5 DEF DeleteWorkflowCheck, BusyHasRun, Workflow
<1>6. CASE DeleteWorkflowCommit
  <2>1. ASSUME NEW r \in Runs PROVE [row[r] EXCEPT !.st = "DELETED"] \in Row
    BY DEF Row, States, Missing
  <2>2. row' \in [Runs -> Row]
    BY <1>6, <2>1 DEF DeleteWorkflowCommit
  <2> QED BY <1>6, <2>2 DEF DeleteWorkflowCommit, BusyHasRun, Workflow
<1>7. CASE DeleteWorkflowRollback
  BY <1>7 DEF DeleteWorkflowRollback, BusyHasRun, Workflow
<1>8. ASSUME NEW w \in Workers, NEW r \in Runs, Lease(w, r) PROVE TypeInv'
  BY <1>8 DEF Lease, BusyHasRun, Job, Worker, Pcs, Steps
<1>9. ASSUME NEW w \in Workers, Crash(w) PROVE TypeInv'
  BY <1>9 DEF Crash, BusyHasRun, Worker, Idle, Pcs
<1>10. ASSUME NEW w \in Workers, Work(w) PROVE TypeInv'
  <2>1. CASE Begin(w)
    <3>1. worker' \in [Workers -> Worker] /\ BusyHasRun'
      BY <2>1, GotoType DEF Begin, Pcs, Steps
    <3>2. row' \in [Runs -> Row]
      BY <2>1 DEF Begin, BusyHasRun, Row, States, Active, StartTime, Worker
    <3> QED BY <2>1, <3>1, <3>2 DEF Begin
  <2>2. CASE LoadDefinition(w)
    BY <2>2, GotoType DEF LoadDefinition, Pcs, Steps
  <2>3. CASE LoadScope(w)
    <3>1. CASE Goto(w, "err") \/ Goto(w, "fail")
      BY <2>3, <3>1, GotoType DEF LoadScope, Pcs, Steps
    <3>2. CASE worker' = [worker EXCEPT ![w].pc = "walking", ![w].walked = TRUE]
      BY <2>3, <3>2 DEF LoadScope, BusyHasRun, Worker, Pcs, Steps
    <3> QED BY <2>3, <3>1, <3>2 DEF LoadScope
  <2>4. CASE Checkpoint(w)
    BY <2>4 DEF Checkpoint, BusyHasRun, Row, Worker
  <2>5. CASE Interpreted(w)
    BY <2>5, GotoType DEF Interpreted, Pcs, Steps
  <2>6. CASE FinalizeSucceeded(w)
    <3>1. worker' \in [Workers -> Worker] /\ BusyHasRun'
      BY <2>6, GotoType DEF FinalizeSucceeded, Pcs, Steps
    <3>2. row' \in [Runs -> Row]
      <4>1. PICK b \in Nat : b = Walker(w)
        BY DEF Walker, Worker
      <4>2. worker[w].run \in Runs /\ worker[w].att \in Nat
        BY <2>6 DEF FinalizeSucceeded, BusyHasRun, Worker
      <4>3. PICK o \in {0, worker[w].att}, t \in {0, b} :
               FinalizeRun(worker[w].run, "SUCCEEDED", o, t, FALSE, b)
        BY <2>6, <4>1 DEF FinalizeSucceeded, Snapshots
      <4>4. PICK e \in BOOLEAN : e = FALSE
        OBVIOUS
      <4>5. FinalizeRun(worker[w].run, "SUCCEEDED", o, t, e, b)
        BY <4>3, <4>4, Zenon
      <4>6. o \in Nat /\ t \in Nat
        BY <4>2
      <4> QED BY <4>2, <4>5, <4>6, FinalizeType
    <3> QED BY <2>6, <3>1, <3>2 DEF FinalizeSucceeded
  <2>7. CASE FinalizeFailed(w)
    <3>1. worker' \in [Workers -> Worker] /\ BusyHasRun'
      BY <2>7, GotoType DEF FinalizeFailed, Pcs, Steps
    <3>2. row' \in [Runs -> Row]
      BY <2>7, FinalizeType DEF FinalizeFailed, BusyHasRun, Snapshots, Walker, Worker
    <3> QED BY <2>7, <3>1, <3>2 DEF FinalizeFailed
  <2>8. CASE WorkFault(w)
    BY <2>8, GotoType DEF WorkFault, Pcs, Steps
  <2>9. CASE HandleError(w)
    <3>1. worker' \in [Workers -> Worker] /\ BusyHasRun'
      BY <2>9, GotoType DEF HandleError, Pcs, Steps
    <3>2. row' \in [Runs -> Row]
      BY <2>9, FinalizeType DEF HandleError, BusyHasRun
    <3> QED BY <2>9, <3>1, <3>2 DEF HandleError
  <2>10. CASE Settle(w)
    BY <2>10 DEF Settle, JobOutcome, BusyHasRun, Job, Worker, Idle, Pcs
  <2> QED BY <1>10, <2>1, <2>2, <2>3, <2>4, <2>5, <2>6, <2>7, <2>8, <2>9, <2>10 DEF Work
<1> QED
  BY <1>0, <1>1, <1>2, <1>3, <1>4, <1>5, <1>6, <1>7, <1>8, <1>9, <1>10 DEF Next

(* Rows, jobs, workers and the workflow keep their types in every behaviour. *)
THEOREM TypeCorrect == Spec => []TypeOK
<1>1. TypeInv => TypeOK
  BY DEF TypeInv
<1> QED BY <1>1, TypeInit, TypeStep, PTL DEF Spec

-----------------------------------------------------------------------------
(* The inductive invariant.                                                  *)

Settled == Terminal \cup Missing

IInv == TypeInv /\ RunInv

(* Nothing has happened yet, so the invariant holds.                         *)
LEMMA RunInit == Init => IInv
<1> SUFFICES ASSUME Init PROVE RunInv
    BY TypeInit DEF IInv
<1> QED BY DEF Init, RunInv, RowInv, WorkerInv, CompletedJobSettledRun,
           OutcomeOfOneAttempt, DeletedStaysDeleted, Idle, Terminal, Missing, Steps

(* finalizeRun keeps what the rows say, when a success is written by a       *)
(* worker past begin with its own snapshot.                                  *)
LEMMA FinalizeRows ==
    ASSUME IInv, NEW r \in Runs, NEW s \in {"SUCCEEDED", "FAILED"},
           NEW o \in Nat, NEW t \in Nat, NEW e \in BOOLEAN, NEW b \in Nat,
           FinalizeRun(r, s, o, t, e, b),
           row[r].st # "ABSENT",
           t \in {0, b},
           s = "SUCCEEDED" => b > 0 /\ o \in {0, b} /\ ~e,
           s = "FAILED" => o = 0,
           UNCHANGED <<job, wf>>
    PROVE  /\ RowInv'
           /\ CompletedJobSettledRun'
           /\ OutcomeOfOneAttempt'
           /\ DeletedStaysDeleted'
           /\ row'[r].st \in Settled
           /\ \A q \in Runs : row'[q].st # row[q].st =>
                  row[q].st \notin Settled /\ row'[q].st \in Terminal
<1> USE DEF Settled
<1>1. CASE ~Unfinished(r)
  BY <1>1 DEF FinalizeRun, Unfinished, IInv, RunInv, RowInv, CompletedJobSettledRun,
     OutcomeOfOneAttempt, DeletedStaysDeleted
<1>2. CASE Unfinished(r)
  <2> DEFINE d == Finalized(row[r], s, o, t, e, b)
  <2>1. row' = [row EXCEPT ![r] = d]
    BY <1>2 DEF FinalizeRun
  <2>2. /\ d.st = s
        /\ d.start = row[r].start
        /\ d.by = b /\ d.output = o /\ d.error = e
        /\ b > 0 /\ ~d.lost => d.steps = b
    <3>1. row[r].st \in {"PENDING", "RUNNING"}
      BY <1>2 DEF Unfinished, IInv, TypeInv, TypeOK, Row, States, Terminal, Missing, Active
    <3>2. row[r].output = 0 /\ ~row[r].error
      BY <3>1 DEF IInv, RunInv, RowInv
    <3> QED BY <3>2 DEF Finalized, Coalesce
  <2>3. row \in [Runs -> Row] /\ row'[r] = d /\ \A q \in Runs : q # r => row'[q] = row[q]
    BY <2>1 DEF IInv, TypeInv, TypeOK
  <2>4. row[r].st \notin Settled /\ s \in Terminal
    BY <1>2 DEF Unfinished, Terminal
  <2> HIDE DEF d
  <2>5. RowInv' /\ CompletedJobSettledRun' /\ OutcomeOfOneAttempt'
    BY <2>2, <2>3, <2>4 DEF IInv, RunInv, RowInv, CompletedJobSettledRun,
       OutcomeOfOneAttempt, Terminal
  <2>6. DeletedStaysDeleted'
    BY <2>2, <2>3, <2>4 DEF IInv, RunInv, DeletedStaysDeleted, Terminal
  <2> QED BY <2>2, <2>3, <2>4, <2>5, <2>6
<1> QED BY <1>1, <1>2

(* A worker's knowledge of its row survives every change the other actors    *)
(* make, as long as rows only move forward.                                  *)
LEMMA WorkersKeep ==
    ASSUME IInv, UNCHANGED worker,
           \A q \in Runs : row'[q].st # row[q].st =>
              row[q].st # "DELETED" /\ row'[q].st \in Terminal \cup {"DELETED"}
    PROVE  WorkerInv'
BY DEF IInv, RunInv, WorkerInv, Terminal, Missing, Steps

(* The same for the other workers when w takes a step and finds, or leaves,  *)
(* its own row as its new position requires.                                 *)
LEMMA WorkerMoves ==
    ASSUME IInv, NEW w \in Workers, worker[w].pc # "idle",
           NEW pc \in Pcs \ {"idle"},
           worker' = [worker EXCEPT ![w].pc = pc],
           \A q \in Runs : row'[q].st # row[q].st =>
              \/ row[q].st # "DELETED" /\ row'[q].st \in Terminal \cup {"DELETED"}
              \/ row[q].st = "PENDING" /\ row'[q].st = "RUNNING",
           pc = "nil" => row'[worker[w].run].st \in Settled,
           pc \in Steps \ {"leased"} => row'[worker[w].run].st # "PENDING",
           pc \in {"walking", "succeed"} => worker[w].walked
    PROVE  WorkerInv'
<1> SUFFICES ASSUME NEW v \in Workers
             PROVE LET st == row'[worker'[v].run].st IN
                   /\ worker'[v].pc # "idle" =>
                         worker'[v].run \in Runs /\ worker'[v].att > 0 /\ st # "ABSENT"
                   /\ worker'[v].pc = "nil" => st \in Terminal \cup Missing
                   /\ worker'[v].pc \in Steps \ {"leased"} => st # "PENDING"
                   /\ worker'[v].pc \in {"walking", "succeed"} => worker'[v].walked
    BY DEF WorkerInv
<1>1. /\ worker'[v].run = worker[v].run
      /\ worker'[v].att = worker[v].att
      /\ worker'[v].walked = worker[v].walked
      /\ v # w => worker'[v].pc = worker[v].pc
      /\ v = w => worker'[v].pc = pc
  BY DEF IInv, TypeInv, TypeOK, Worker
<1>2. CASE v = w
  BY <1>1, <1>2 DEF IInv, RunInv, WorkerInv, Settled, Terminal, Missing
<1>3. CASE v # w
  BY <1>1, <1>3 DEF IInv, RunInv, WorkerInv, Terminal, Missing, Steps
<1> QED BY <1>2, <1>3

(* A step of a worker inside Work, its handler or River's bookkeeping.       *)
LEMMA WorkStep == ASSUME IInv, NEW w \in Workers, Work(w) PROVE RunInv'
<1> DEFINE r == worker[w].run
<1> USE DEF IInv, TypeInv, TypeOK
<1>0. /\ worker[w].pc # "idle"
      /\ r \in Runs /\ worker[w].att \in Nat /\ worker[w].att > 0
      /\ row[r].st # "ABSENT" /\ row[r] \in Row
  <2>1. worker[w].pc # "idle"
    BY DEF Work, Begin, LoadDefinition, LoadScope, Checkpoint, Interpreted,
       FinalizeSucceeded, FinalizeFailed, WorkFault, HandleError, Settle, Steps
  <2> QED BY <2>1 DEF RunInv, WorkerInv, Worker
<1> HIDE DEF r
<1>1. CASE Begin(w)
  <2>1. CASE row[r].st \in Settled
    BY <1>0, <1>1, <2>1, WorkerMoves DEF Begin, Goto, r, Settled, Terminal, Missing, Pcs,
       Steps, RunInv, RowInv, CompletedJobSettledRun, OutcomeOfOneAttempt, DeletedStaysDeleted
  <2>2. CASE row[r].st \notin Settled
    <3>1. /\ row' = [row EXCEPT ![r].st = "RUNNING",
                                ![r].start = StartTime(r, worker[w].att)]
          /\ worker' = [worker EXCEPT ![w].pc = "begun"]
          /\ UNCHANGED <<job, wf>>
      BY <1>1, <2>2 DEF Begin, Goto, r, Settled
    <3>2. /\ row'[r].st = "RUNNING"
          /\ row'[r].start = StartTime(r, worker[w].att)
          /\ row'[r].output = row[r].output /\ row'[r].error = row[r].error
          /\ \A q \in Runs : q # r => row'[q] = row[q]
      BY <1>0, <3>1 DEF Row
    <3>3. row[r].st \in {"PENDING", "RUNNING"}
      BY <1>0, <2>2 DEF Row, States, Active, Settled
    <3>4. row'[r].start > 0
      BY <1>0, <3>2, <3>3 DEF StartTime, RunInv, RowInv
    <3>5. RowInv' /\ CompletedJobSettledRun' /\ OutcomeOfOneAttempt' /\ DeletedStaysDeleted'
      BY <1>0, <2>2, <3>1, <3>2, <3>3, <3>4 DEF RunInv, RowInv, CompletedJobSettledRun,
         OutcomeOfOneAttempt, DeletedStaysDeleted, Settled, Missing
    <3>6. WorkerInv'
      BY <1>0, <3>1, <3>2, <3>3, WorkerMoves DEF r, Pcs, Steps
    <3> QED BY <3>5, <3>6 DEF RunInv
  <2> QED BY <2>1, <2>2
<1>2. CASE LoadDefinition(w) \/ LoadScope(w) \/ Interpreted(w) \/ WorkFault(w)
  <2>1. UNCHANGED <<row, job, wf>>
    BY <1>2 DEF LoadDefinition, LoadScope, Interpreted, WorkFault
  <2>2. RowInv' /\ CompletedJobSettledRun' /\ OutcomeOfOneAttempt' /\ DeletedStaysDeleted'
    BY <2>1 DEF RunInv, RowInv, CompletedJobSettledRun, OutcomeOfOneAttempt,
       DeletedStaysDeleted
  <2>3. WorkerInv'
    <3>1. CASE LoadDefinition(w)
      BY <1>0, <2>1, <3>1, WorkerMoves DEF LoadDefinition, Goto, RunInv, WorkerInv, Pcs, Steps
    <3>2. CASE LoadScope(w)
      <4>1. CASE Goto(w, "err")
        BY <1>0, <2>1, <4>1, WorkerMoves DEF Goto, Pcs, Steps
      <4>2. CASE Goto(w, "fail")
        BY <1>0, <2>1, <3>2, <4>2, WorkerMoves DEF LoadScope, Goto, RunInv, WorkerInv, Pcs, Steps
      <4>3. CASE worker' = [worker EXCEPT ![w].pc = "walking", ![w].walked = TRUE]
        BY <1>0, <2>1, <3>2, <4>3 DEF LoadScope, RunInv, WorkerInv, Worker, Steps
      <4> QED BY <3>2, <4>1, <4>2, <4>3 DEF LoadScope
    <3>3. CASE Interpreted(w)
      BY <1>0, <2>1, <3>3, WorkerMoves DEF Interpreted, Goto, RunInv, WorkerInv, Pcs, Steps
    <3>4. CASE WorkFault(w)
      BY <1>0, <2>1, <3>4, WorkerMoves DEF WorkFault, Goto, Pcs, Steps
    <3> QED BY <1>2, <3>1, <3>2, <3>3, <3>4
  <2> QED BY <2>2, <2>3 DEF RunInv
<1>3. CASE Checkpoint(w)
  <2>1. /\ row[r].st = "RUNNING"
        /\ row'[r].st = "RUNNING" /\ row'[r].start = row[r].start
        /\ row'[r].output = row[r].output /\ row'[r].error = row[r].error
        /\ \A q \in Runs : q # r => row'[q] = row[q]
    BY <1>0, <1>3 DEF Checkpoint, r, Row
  <2>2. RowInv' /\ CompletedJobSettledRun' /\ DeletedStaysDeleted'
    BY <1>0, <1>3, <2>1 DEF Checkpoint, RunInv, RowInv, CompletedJobSettledRun,
       DeletedStaysDeleted
  <2>4. OutcomeOfOneAttempt'
    BY <2>1 DEF RunInv, OutcomeOfOneAttempt
  <2>3. WorkerInv'
    BY <1>0, <1>3, <2>1, WorkersKeep DEF Checkpoint
  <2> QED BY <2>2, <2>3, <2>4 DEF RunInv
<1>4. CASE FinalizeSucceeded(w)
  <2>1. worker[w].walked /\ Walker(w) = worker[w].att
    BY <1>4 DEF FinalizeSucceeded, RunInv, WorkerInv, Walker
  <2>2. PICK o \in {0, worker[w].att}, t \in {0, worker[w].att} :
           FinalizeRun(r, "SUCCEEDED", o, t, FALSE, worker[w].att)
    BY <1>4, <2>1 DEF FinalizeSucceeded, r, Snapshots
  <2> DEFINE b == worker[w].att
  <2>6. PICK e \in BOOLEAN : e = FALSE
    OBVIOUS
  <2>5. /\ b \in Nat /\ b > 0 /\ o \in Nat /\ t \in Nat
        /\ o \in {0, b} /\ t \in {0, b}
        /\ UNCHANGED <<job, wf>>
    BY <1>0, <1>4, <2>2 DEF FinalizeSucceeded
  <2>7. ~e /\ FinalizeRun(r, "SUCCEEDED", o, t, e, b)
    BY <2>2, <2>6, Zenon
  <2> HIDE DEF b
  <2>3. /\ RowInv' /\ CompletedJobSettledRun' /\ OutcomeOfOneAttempt' /\ DeletedStaysDeleted'
        /\ row'[r].st \in Settled
        /\ \A q \in Runs : row'[q].st # row[q].st =>
               row[q].st \notin Settled /\ row'[q].st \in Terminal
    BY <1>0, <2>5, <2>7, FinalizeRows
  <2>4. WorkerInv'
    BY <1>0, <1>4, <2>3, WorkerMoves DEF FinalizeSucceeded, Goto, r, Pcs, Steps, Settled, Missing
  <2> QED BY <2>3, <2>4 DEF RunInv
<1>5. CASE FinalizeFailed(w)
  <2>0. PICK b \in Nat : b = Walker(w)
    BY <1>0 DEF Walker
  <2>1. PICK t \in {0, b}, e \in BOOLEAN : FinalizeRun(r, "FAILED", 0, t, e, b)
    BY <1>5, <2>0 DEF FinalizeFailed, r, Snapshots
  <2>2. /\ RowInv' /\ CompletedJobSettledRun' /\ OutcomeOfOneAttempt' /\ DeletedStaysDeleted'
        /\ row'[r].st \in Settled
        /\ \A q \in Runs : row'[q].st # row[q].st =>
               row[q].st \notin Settled /\ row'[q].st \in Terminal
    BY <1>0, <1>5, <2>1, FinalizeRows DEF FinalizeFailed
  <2>3. WorkerInv'
    BY <1>0, <1>5, <2>2, WorkerMoves DEF FinalizeFailed, Goto, r, Pcs, Steps, Settled, Missing
  <2> QED BY <2>2, <2>3 DEF RunInv
<1>6. CASE HandleError(w)
  <2>1. CASE \E e \in BOOLEAN : FinalizeRun(r, "FAILED", 0, 0, e, 0)
    <3>1. /\ RowInv' /\ CompletedJobSettledRun' /\ OutcomeOfOneAttempt' /\ DeletedStaysDeleted'
          /\ \A q \in Runs : row'[q].st # row[q].st =>
                 row[q].st \notin Settled /\ row'[q].st \in Terminal
      BY <1>0, <1>6, <2>1, FinalizeRows DEF HandleError
    <3>2. WorkerInv'
      BY <1>0, <1>6, <3>1, WorkerMoves DEF HandleError, Goto, r, Pcs, Steps, Settled, Missing
    <3> QED BY <3>1, <3>2 DEF RunInv
  <2>2. CASE UNCHANGED row
    <3>1. RowInv' /\ CompletedJobSettledRun' /\ OutcomeOfOneAttempt' /\ DeletedStaysDeleted'
      BY <1>6, <2>2 DEF HandleError, RunInv, RowInv, CompletedJobSettledRun,
         OutcomeOfOneAttempt, DeletedStaysDeleted
    <3>2. WorkerInv'
      BY <1>0, <1>6, <2>2, WorkerMoves DEF HandleError, Goto, Pcs, Steps
    <3> QED BY <3>1, <3>2 DEF RunInv
  <2> QED BY <1>6, <2>1, <2>2 DEF HandleError, r
<1>7. CASE Settle(w)
  <2>1. UNCHANGED <<row, wf>> /\ worker' = [worker EXCEPT ![w] = Idle]
    BY <1>7 DEF Settle
  <2>2. WorkerInv'
    BY <2>1 DEF RunInv, WorkerInv, Idle, Steps
  <2>3. \A q \in Runs : job'[q].st # job[q].st =>
           q = r /\ (job'[q].st = "completed" => worker[w].pc = "nil")
    BY <1>0, <1>7 DEF Settle, JobOutcome, r, Job
  <2>4. RowInv' /\ CompletedJobSettledRun'
    BY <1>0, <2>1, <2>3 DEF r, RunInv, RowInv, WorkerInv, CompletedJobSettledRun
  <2>5. OutcomeOfOneAttempt' /\ DeletedStaysDeleted'
    BY <2>1 DEF RunInv, OutcomeOfOneAttempt, DeletedStaysDeleted
  <2> QED BY <2>2, <2>4, <2>5 DEF RunInv
<1> QED BY <1>1, <1>2, <1>3, <1>4, <1>5, <1>6, <1>7 DEF Work

(* Every step keeps the invariant.                                           *)
LEMMA RunStep == IInv /\ [Next]_vars => IInv'
<1> SUFFICES ASSUME IInv, [Next]_vars PROVE RunInv'
    BY TypeStep DEF IInv
<1> USE DEF IInv, TypeInv, TypeOK
<1>0. CASE UNCHANGED vars
  BY <1>0 DEF vars, RunInv, RowInv, WorkerInv, CompletedJobSettledRun,
     OutcomeOfOneAttempt, DeletedStaysDeleted
<1>1. ASSUME NEW r \in Runs, RunWorkflow(r) PROVE RunInv'
  <2>1. /\ row[r].st = "ABSENT" /\ row'[r].st = "PENDING"
        /\ row'[r].start = row[r].start /\ row'[r].output = row[r].output
        /\ row'[r].error = row[r].error
        /\ job'[r].st = "available"
        /\ \A q \in Runs : q # r => row'[q] = row[q] /\ job'[q] = job[q]
        /\ wf.st = "live" /\ UNCHANGED <<worker, wf>>
    BY <1>1 DEF RunWorkflow, Row, Job
  <2>2. WorkerInv'
    BY <2>1 DEF RunInv, WorkerInv, Steps
  <2> QED BY <2>1, <2>2 DEF RunInv, RowInv, CompletedJobSettledRun,
             OutcomeOfOneAttempt, DeletedStaysDeleted
<1>2. ASSUME NEW r \in Runs, CancelWorkflowRun(r) PROVE RunInv'
  <2>1. /\ row[r].st \in {"PENDING", "RUNNING"} /\ row'[r].st = "CANCELLED"
        /\ row'[r].output = row[r].output /\ row'[r].error = row[r].error
        /\ \A q \in Runs : q # r => row'[q] = row[q]
        /\ wf.st # "gone" /\ UNCHANGED <<job, worker, wf>>
    BY <1>2 DEF CancelWorkflowRun, Row, States, Active, Terminal, Missing
  <2>2. WorkerInv'
    BY <2>1, WorkersKeep DEF Terminal
  <2> QED BY <2>1, <2>2 DEF RunInv, RowInv, CompletedJobSettledRun,
             OutcomeOfOneAttempt, DeletedStaysDeleted, Terminal
<1>3. ASSUME NEW r \in Runs, Rescue(r) PROVE RunInv'
  <2>1. /\ job[r].st = "running" /\ job'[r].st \in {"available", "discarded"}
        /\ \A q \in Runs : q # r => job'[q] = job[q]
        /\ UNCHANGED <<row, worker, wf>>
    BY <1>3 DEF Rescue, Job
  <2> QED BY <2>1 DEF RunInv, RowInv, WorkerInv, CompletedJobSettledRun,
             OutcomeOfOneAttempt, DeletedStaysDeleted
<1>4. ASSUME NEW r \in Runs, Reap(r) PROVE RunInv'
  <2>1. row[r].st # "ABSENT"
    BY <1>4 DEF Reap, RunInv, RowInv
  <2>2. /\ RowInv' /\ CompletedJobSettledRun' /\ OutcomeOfOneAttempt' /\ DeletedStaysDeleted'
        /\ \A q \in Runs : row'[q].st # row[q].st =>
               row[q].st \notin Settled /\ row'[q].st \in Terminal
    BY <1>4, <2>1, FinalizeRows DEF Reap
  <2>3. WorkerInv'
    BY <1>4, <2>2, WorkersKeep DEF Reap, Settled, Missing
  <2> QED BY <2>2, <2>3 DEF RunInv
<1>5. ASSUME NEW force \in BOOLEAN, DeleteWorkflowCheck(force) PROVE RunInv'
  BY <1>5 DEF DeleteWorkflowCheck, RunInv, RowInv, WorkerInv, CompletedJobSettledRun,
     OutcomeOfOneAttempt, DeletedStaysDeleted
<1>6. CASE DeleteWorkflowCommit
  <2>1. /\ \A q \in Runs : IF row[q].st = "ABSENT" THEN row'[q] = row[q]
                            ELSE row'[q].st = "DELETED"
        /\ UNCHANGED <<job, worker>>
    BY <1>6 DEF DeleteWorkflowCommit, Row
  <2>2. WorkerInv'
    BY <2>1 DEF RunInv, WorkerInv, Terminal, Missing, Steps
  <2> QED BY <2>1, <2>2 DEF RunInv, RowInv, CompletedJobSettledRun,
             OutcomeOfOneAttempt, DeletedStaysDeleted, Missing
<1>7. CASE DeleteWorkflowRollback
  BY <1>7 DEF DeleteWorkflowRollback, RunInv, RowInv, WorkerInv, CompletedJobSettledRun,
     OutcomeOfOneAttempt, DeletedStaysDeleted, Workflow
<1>8. ASSUME NEW w \in Workers, NEW r \in Runs, Lease(w, r) PROVE RunInv'
  <2>1. /\ job[r].st = "available" /\ job'[r].st = "running"
        /\ \A q \in Runs : q # r => job'[q] = job[q]
        /\ UNCHANGED <<row, wf>>
    BY <1>8 DEF Lease
  <2>2. worker'[w].pc = "leased" /\ worker'[w].run = r /\ worker'[w].att > 0
    BY <1>8 DEF Lease, Job
  <2>3. \A v \in Workers : v # w => worker'[v] = worker[v]
    BY <1>8 DEF Lease
  <2>4. row[r].st # "ABSENT"
    BY <2>1 DEF RunInv, RowInv
  <2>5. WorkerInv'
    BY <2>1, <2>2, <2>3, <2>4 DEF RunInv, WorkerInv, Steps
  <2> QED BY <2>1, <2>5 DEF RunInv, RowInv, CompletedJobSettledRun,
             OutcomeOfOneAttempt, DeletedStaysDeleted
<1>9. ASSUME NEW w \in Workers, Crash(w) PROVE RunInv'
  <2>1. UNCHANGED <<row, job, wf>> /\ worker' = [worker EXCEPT ![w] = Idle]
    BY <1>9 DEF Crash
  <2>2. WorkerInv'
    BY <2>1 DEF RunInv, WorkerInv, Idle, Steps
  <2> QED BY <2>1, <2>2 DEF RunInv, RowInv, CompletedJobSettledRun,
             OutcomeOfOneAttempt, DeletedStaysDeleted
<1>10. ASSUME NEW w \in Workers, Work(w) PROVE RunInv'
  BY <1>10, WorkStep
<1> QED
  BY <1>0, <1>1, <1>2, <1>3, <1>4, <1>5, <1>6, <1>7, <1>8, <1>9, <1>10 DEF Next

(* The inductive invariant holds in every behaviour, for any number of runs, *)
(* workers and attempts.                                                     *)
THEOREM Invariance == Spec => []IInv
BY RunInit, RunStep, PTL DEF Spec

(* No run is lost: when River is done with a job, its run is settled.        *)
THEOREM NoRunLost == Spec => []CompletedJobSettledRun
<1>1. IInv => CompletedJobSettledRun
  BY DEF IInv, RunInv
<1> QED BY <1>1, Invariance, PTL

(* The result columns of a terminal run come from one attempt and fit its    *)
(* state.                                                                    *)
THEOREM OutcomesConsistent == Spec => []OutcomeOfOneAttempt
<1>1. IInv => OutcomeOfOneAttempt
  BY DEF IInv, RunInv
<1> QED BY <1>1, Invariance, PTL

-----------------------------------------------------------------------------
(* What a step does to the rows: the actions that leave them alone, and the  *)
(* moves of a single row that the lifecycle allows.                          *)

OnlyRow(r) == \A q \in Runs : q # r => row'[q] = row[q]

Kept(r) == row'[r].start = row[r].start

Finished(r) == /\ OnlyRow(r) /\ Kept(r)
               /\ row[r].st \in {"PENDING", "RUNNING"}
               /\ \/ /\ row[r].st = "RUNNING" /\ row'[r].st = "SUCCEEDED"
                     /\ ~row'[r].error
                  \/ row'[r].st = "FAILED" /\ row'[r].output = 0
                  \/ row'[r].st = "CANCELLED" /\ row'[r].output = row[r].output
                                              /\ row'[r].error = row[r].error

Reported(r) == /\ OnlyRow(r) /\ Kept(r)
               /\ row[r].st = "RUNNING" /\ row'[r].st = "RUNNING"
               /\ row'[r].output = row[r].output /\ row'[r].error = row[r].error

Began(r) == /\ OnlyRow(r)
            /\ row[r].st = "PENDING" /\ row'[r].st = "RUNNING"
            /\ row[r].start = 0 /\ row'[r].start > 0
            /\ row'[r].output = row[r].output /\ row'[r].error = row[r].error

Accepted(r) == /\ OnlyRow(r) /\ Kept(r)
               /\ row[r].st = "ABSENT" /\ row'[r].st = "PENDING"
               /\ row'[r].output = row[r].output /\ row'[r].error = row[r].error

Dropped == \A r \in Runs :
              /\ Kept(r) /\ row'[r].output = row[r].output /\ row'[r].error = row[r].error
              /\ row'[r].st = IF row[r].st = "ABSENT" THEN "ABSENT" ELSE "DELETED"

RowMove == \/ UNCHANGED row
           \/ Dropped
           \/ \E r \in Runs : Accepted(r) \/ Began(r) \/ Reported(r) \/ Finished(r)

(* finalizeRun leaves the rows alone or finishes one of them.                *)
LEMMA FinalizeMoves ==
    ASSUME IInv, NEW r \in Runs, NEW s \in {"SUCCEEDED", "FAILED"},
           NEW o \in Nat, NEW t \in Nat, NEW e \in BOOLEAN, NEW b \in Nat,
           FinalizeRun(r, s, o, t, e, b),
           s = "SUCCEEDED" => ~e /\ row[r].st # "PENDING",
           s = "FAILED" => o = 0
    PROVE  RowMove
<1>1. CASE ~Unfinished(r)
  BY <1>1 DEF FinalizeRun, RowMove
<1>2. CASE Unfinished(r)
  <2> DEFINE d == Finalized(row[r], s, o, t, e, b)
  <2>1. row'[r] = d /\ OnlyRow(r)
    BY <1>2 DEF FinalizeRun, OnlyRow, IInv, TypeInv, TypeOK
  <2>2. row[r].st \in {"PENDING", "RUNNING"}
    BY <1>2 DEF Unfinished, IInv, TypeInv, TypeOK, Row, States, Terminal, Missing, Active
  <2>3. row[r].output = 0 /\ ~row[r].error
    BY <2>2 DEF IInv, RunInv, RowInv
  <2>4. /\ d.st = s /\ d.start = row[r].start
        /\ s = "SUCCEEDED" => ~d.error
        /\ s = "FAILED" => d.output = 0
    BY <2>3 DEF Finalized, Coalesce
  <2> HIDE DEF d
  <2> QED BY <2>1, <2>2, <2>4 DEF RowMove, Finished, Kept
<1> QED BY <1>1, <1>2

(* Every step of the specification is such a move.                           *)
LEMMA EveryStepMoves == ASSUME IInv, [Next]_vars PROVE RowMove
<1> USE DEF IInv, TypeInv, TypeOK
<1>0. CASE UNCHANGED vars
  BY <1>0 DEF vars, RowMove
<1>1. ASSUME NEW r \in Runs, RunWorkflow(r) PROVE RowMove
  BY <1>1 DEF RunWorkflow, RowMove, Accepted, OnlyRow, Kept, Row
<1>2. ASSUME NEW r \in Runs, CancelWorkflowRun(r) PROVE RowMove
  <2>1. row[r].st \in {"PENDING", "RUNNING"}
    BY <1>2 DEF CancelWorkflowRun, Row, States, Active, Terminal, Missing
  <2>2. Finished(r)
    BY <1>2, <2>1 DEF CancelWorkflowRun, Finished, OnlyRow, Kept, Row
  <2> QED BY <2>2 DEF RowMove
<1>3. ASSUME NEW r \in Runs, Rescue(r) PROVE RowMove
  BY <1>3 DEF Rescue, RowMove
<1>4. ASSUME NEW r \in Runs, Reap(r) PROVE RowMove
  BY <1>4, FinalizeMoves DEF Reap
<1>5. ASSUME NEW force \in BOOLEAN, DeleteWorkflowCheck(force) PROVE RowMove
  BY <1>5 DEF DeleteWorkflowCheck, RowMove
<1>6. CASE DeleteWorkflowCommit
  <2>1. Dropped
    BY <1>6 DEF DeleteWorkflowCommit, Dropped, Kept, Row
  <2> QED BY <2>1 DEF RowMove
<1>7. CASE DeleteWorkflowRollback
  BY <1>7 DEF DeleteWorkflowRollback, RowMove
<1>8. ASSUME NEW w \in Workers, NEW r \in Runs, Lease(w, r) PROVE RowMove
  BY <1>8 DEF Lease, RowMove
<1>9. ASSUME NEW w \in Workers, Crash(w) PROVE RowMove
  BY <1>9 DEF Crash, RowMove
<1>10. ASSUME NEW w \in Workers, Work(w) PROVE RowMove
  <2>0. worker[w].pc # "idle" => worker[w].run \in Runs /\ worker[w].att \in Nat
                                 /\ worker[w].att > 0
    BY DEF RunInv, WorkerInv, Worker
  <2>1. CASE Begin(w)
    <3> DEFINE r == worker[w].run
    <3>0. r \in Runs /\ worker[w].att > 0
      BY <2>0, <2>1 DEF Begin
    <3> HIDE DEF r
    <3>1. CASE row[r].st \in Terminal \cup Missing
      BY <2>1, <3>1 DEF Begin, RowMove, r
    <3>2. CASE row[r].st \notin Terminal \cup Missing
      <4>1. row' = [row EXCEPT ![r].st = "RUNNING",
                               ![r].start = StartTime(r, worker[w].att)]
        BY <2>1, <3>2 DEF Begin, r
      <4>2. /\ row'[r].st = "RUNNING" /\ row'[r].start = StartTime(r, worker[w].att)
            /\ row'[r].output = row[r].output /\ row'[r].error = row[r].error
            /\ OnlyRow(r)
        BY <3>0, <4>1 DEF Row, OnlyRow
      <4>3. row[r].st \in {"PENDING", "RUNNING"}
        BY <3>0, <3>2 DEF Row, States, Active
      <4>4. Began(r) \/ Reported(r)
        BY <3>0, <4>2, <4>3 DEF Began, Reported, Kept, StartTime, RunInv, RowInv
      <4> QED BY <3>0, <4>4 DEF RowMove
    <3> QED BY <3>1, <3>2
  <2>2. CASE LoadDefinition(w) \/ LoadScope(w) \/ Interpreted(w) \/ WorkFault(w) \/ Settle(w)
    BY <2>2 DEF LoadDefinition, LoadScope, Interpreted, WorkFault, Settle, RowMove
  <2>3. CASE Checkpoint(w)
    <3>1. worker[w].run \in Runs
      BY <2>0, <2>3 DEF Checkpoint
    <3>2. Reported(worker[w].run)
      BY <2>3, <3>1 DEF Checkpoint, Reported, OnlyRow, Kept, Row
    <3> QED BY <3>1, <3>2 DEF RowMove
  <2>4. CASE FinalizeSucceeded(w)
    <3>1. row[worker[w].run].st # "PENDING" /\ Walker(w) \in Nat
      BY <2>0, <2>4 DEF FinalizeSucceeded, RunInv, WorkerInv, Steps, Walker
    <3> QED BY <2>0, <2>4, <3>1, FinalizeMoves DEF FinalizeSucceeded, Snapshots
  <2>5. CASE FinalizeFailed(w)
    <3>1. Walker(w) \in Nat
      BY <2>0, <2>5 DEF FinalizeFailed, Walker
    <3> QED BY <2>0, <2>5, <3>1, FinalizeMoves DEF FinalizeFailed, Snapshots
  <2>6. CASE HandleError(w)
    <3>1. CASE UNCHANGED row
      BY <3>1 DEF RowMove
    <3>2. CASE \E e \in BOOLEAN : FinalizeRun(worker[w].run, "FAILED", 0, 0, e, 0)
      BY <2>0, <2>6, <3>2, FinalizeMoves DEF HandleError
    <3> QED BY <2>6, <3>1, <3>2 DEF HandleError
  <2> QED BY <1>10, <2>1, <2>2, <2>3, <2>4, <2>5, <2>6 DEF Work
<1> QED
  BY <1>0, <1>1, <1>2, <1>3, <1>4, <1>5, <1>6, <1>7, <1>8, <1>9, <1>10 DEF Next

(* A terminal run is never changed again, except by deleting its workflow.   *)
THEOREM TerminalFrozen == Spec => TerminalRowFrozen
<1>1. ASSUME IInv, [Next]_vars
      PROVE  [\A r \in Runs : row[r].st \in Terminal =>
                 row'[r] = row[r] \/ row'[r].st = "DELETED"]_vars
  <2>1. RowMove
    BY <1>1, EveryStepMoves
  <2>2. ASSUME NEW r \in Runs, row[r].st \in Terminal
        PROVE  row'[r] = row[r] \/ row'[r].st = "DELETED"
    BY <2>1, <2>2 DEF RowMove, Dropped, Accepted, Began, Reported, Finished, OnlyRow, Terminal
  <2> QED BY <2>2
<1> QED BY <1>1, Invariance, PTL DEF Spec, TerminalRowFrozen

(* start_time is stamped once.                                               *)
THEOREM StartOnce == Spec => StartStampedOnce
<1>1. ASSUME IInv, [Next]_vars
      PROVE  [\A r \in Runs : row[r].start # 0 => row'[r].start = row[r].start]_vars
  <2>1. RowMove
    BY <1>1, EveryStepMoves
  <2>2. ASSUME NEW r \in Runs, row[r].start # 0
        PROVE  row'[r].start = row[r].start
    BY <2>1, <2>2 DEF RowMove, Dropped, Accepted, Began, Reported, Finished, OnlyRow, Kept
  <2> QED BY <2>2
<1> QED BY <1>1, Invariance, PTL DEF Spec, StartStampedOnce

-----------------------------------------------------------------------------
(* The refinement.  Each move of the rows is a step of RunLifecycle, or      *)
(* invisible to it.                                                          *)

absStatus == [r \in Runs |-> row[r].st]
absStarts == [r \in Runs |-> StartsOf(row[r])]
absResult == [r \in Runs |-> ResultOf(row[r])]

(* Every move of the rows is a lifecycle step or a stutter.                  *)
LEMMA LifecycleStep ==
    ASSUME IInv, IInv', RowMove
    PROVE  [Lifecycle!LNext]_(Lifecycle!absVars)
<1> USE DEF absStatus, absStarts, absResult, StartsOf
<1>0. row \in [Runs -> Row] /\ row' \in [Runs -> Row]
  BY DEF IInv, TypeInv, TypeOK
<1>1. CASE UNCHANGED row
  BY <1>1 DEF Lifecycle!absVars
<1>2. CASE Dropped
  <2>1. absStarts' = absStarts /\ absResult' = absResult
    BY <1>2 DEF Dropped, Kept, ResultOf
  <2>2. absStatus' = [r \in Runs |-> IF absStatus[r] = "ABSENT" THEN "ABSENT" ELSE "DELETED"]
    BY <1>2 DEF Dropped
  <2> QED BY <2>1, <2>2 DEF Lifecycle!LNext, Lifecycle!DeleteAll
<1>3. ASSUME NEW r \in Runs, Accepted(r) PROVE Lifecycle!LNext
  <2>1. absStarts' = absStarts /\ absResult' = absResult
    BY <1>3 DEF Accepted, OnlyRow, Kept, ResultOf
  <2>2. absStatus' = [absStatus EXCEPT ![r] = "PENDING"]
    BY <1>3 DEF Accepted, OnlyRow
  <2> QED BY <1>3, <2>1, <2>2 DEF Accepted, Lifecycle!LNext, Lifecycle!Accept
<1>4. ASSUME NEW r \in Runs, Began(r) PROVE Lifecycle!LNext
  <2>1. absResult' = absResult
    BY <1>4 DEF Began, OnlyRow, ResultOf
  <2>2. absStatus' = [absStatus EXCEPT ![r] = "RUNNING"]
    BY <1>4 DEF Began, OnlyRow
  <2>3. absStarts' = [absStarts EXCEPT ![r] = @ + 1]
    <3>1. absStarts[r] = 0 /\ absStarts'[r] = 1
      BY <1>4 DEF Began
    <3>2. \A q \in Runs : q # r => absStarts'[q] = absStarts[q]
      BY <1>4 DEF Began, OnlyRow
    <3>3. absStarts = [q \in Runs |-> absStarts[q]] /\ absStarts' = [q \in Runs |-> absStarts'[q]]
      OBVIOUS
    <3> HIDE DEF absStarts
    <3> QED BY <3>1, <3>2, <3>3
  <2> QED BY <1>4, <2>1, <2>2, <2>3 DEF Began, Lifecycle!LNext, Lifecycle!Start
<1>5. ASSUME NEW r \in Runs, Reported(r) PROVE UNCHANGED Lifecycle!absVars
  BY <1>5 DEF Reported, OnlyRow, Kept, ResultOf, Lifecycle!absVars
<1>6. ASSUME NEW r \in Runs, Finished(r) PROVE Lifecycle!LNext
  <2>1. absStarts' = absStarts
    BY <1>6 DEF Finished, OnlyRow, Kept
  <2>2. absStatus' = [absStatus EXCEPT ![r] = row'[r].st]
    BY <1>6 DEF Finished, OnlyRow
  <2>3. absResult' = [absResult EXCEPT ![r] = ResultOf(row'[r])]
    BY <1>6 DEF Finished, OnlyRow, ResultOf
  <2>4. CASE row[r].st = "RUNNING" /\ row'[r].st = "SUCCEEDED" /\ ~row'[r].error
    <3>1. ResultOf(row'[r]) \in {"output", "none"}
      BY <2>4 DEF ResultOf
    <3> QED BY <2>1, <2>2, <2>3, <2>4, <3>1 DEF Lifecycle!LNext, Lifecycle!Succeed
  <2>5. CASE row'[r].st = "FAILED" /\ row'[r].output = 0
    <3>1. ResultOf(row'[r]) \in {"error", "none"}
      BY <2>5 DEF ResultOf
    <3> QED BY <1>6, <2>1, <2>2, <2>3, <2>5, <3>1 DEF Finished, Lifecycle!LNext, Lifecycle!Fail
  <2>6. CASE /\ row'[r].st = "CANCELLED"
             /\ row'[r].output = row[r].output /\ row'[r].error = row[r].error
    <3>1. absResult' = absResult
      BY <1>6, <2>6 DEF Finished, OnlyRow, ResultOf
    <3> QED BY <1>6, <2>1, <2>2, <2>6, <3>1 DEF Finished, Lifecycle!LNext, Lifecycle!Cancel
  <2> QED BY <1>6, <2>4, <2>5, <2>6 DEF Finished
<1> QED BY <1>1, <1>2, <1>3, <1>4, <1>5, <1>6 DEF RowMove

(* The runs implement RunLifecycle: whatever jobs, retries, rescues, error   *)
(* handlers and the reaper do, a client sees one start, one ending and one   *)
(* result.                                                                   *)
THEOREM RefinesLifecycle == Spec => ImplementsLifecycle
<1>1. Init => Lifecycle!LInit
  <2> SUFFICES ASSUME Init PROVE Lifecycle!LInit
      OBVIOUS
  <2>1. \A r \in Runs : row[r].st = "ABSENT" /\ row[r].start = 0
                        /\ row[r].output = 0 /\ ~row[r].error
    BY DEF Init
  <2>2. \A r \in Runs : ResultOf(row[r]) = "none" /\ StartsOf(row[r]) = 0
    BY <2>1 DEF ResultOf, StartsOf
  <2> QED BY <2>1, <2>2 DEF Lifecycle!LInit
<1>2. IInv /\ IInv' /\ [Next]_vars => [Lifecycle!LNext]_(Lifecycle!absVars)
  BY EveryStepMoves, LifecycleStep
<1> QED BY <1>1, <1>2, Invariance, PTL DEF Spec, ImplementsLifecycle, Lifecycle!LSpec
=============================================================================
