---------------------------- MODULE WorkflowRuns ----------------------------
(***************************************************************************)
(* The lifecycle of workflow runs: the workflow_runs rows, the River job   *)
(* enqueued with each run, the worker goroutines that execute the jobs,    *)
(* and everything that races them: CancelWorkflowRun, DeleteWorkflow, the  *)
(* discard ErrorHandler, the stranded-run reaper, River's rescuer and a    *)
(* crash of the worker process.                                            *)
(*                                                                         *)
(* One database transaction is one action: each locks the run row (SELECT  *)
(* ... FOR UPDATE) before it reads it.  DeleteWorkflow is two actions,     *)
(* because it decides on a plain count of the runs and deletes later.      *)
(***************************************************************************)
EXTENDS Naturals

CONSTANTS Runs,         \* run ids (each RunWorkflow call takes a new one)
          Workers,      \* worker goroutines (River executors)
          NoRun,        \* the run of a worker that executes nothing
          MaxAttempts   \* River's MaxAttempts of a workflow_run job

ASSUME NoRunAssumption == NoRun \notin Runs
ASSUME MaxAttemptsAssumption == MaxAttempts \in Nat \ {0}

VARIABLES row,     \* workflow_runs, by run id
          job,     \* river_job, by run id
          worker,  \* the worker goroutines
          wf       \* the workflow the runs belong to, with its open delete tx

vars == <<row, job, worker, wf>>

-----------------------------------------------------------------------------
(* The run row.  Attempts are numbered from 1, so 0 is SQL NULL (for steps:  *)
(* the '[]' of the INSERT).  start, steps and output name the attempt that   *)
(* wrote the column.  by and lost only observe: the attempt that finalized   *)
(* the run after walking it, and whether its snapshot could not be encoded.  *)

Terminal == {"SUCCEEDED", "FAILED", "CANCELLED"}
Active == {"RUNNING"}                  \* WAITING is reserved: no code sets it
Missing == {"ABSENT", "DELETED"}
States == {"PENDING"} \cup Active \cup Terminal \cup Missing

Row == [st : States, start : Nat, steps : Nat, output : Nat, error : BOOLEAN,
        by : Nat, lost : BOOLEAN]

Job == [st : {"none", "available", "running", "completed", "discarded"},
        attempt : Nat]

(* Where a worker stands in Work:                                            *)
(*   leased   before begin               begun    before loadDefinition      *)
(*   loaded   before loadScope           walking  inside Interpreter.Run     *)
(*   succeed  before finalizeSucceeded   fail     before finalizeFailed      *)
(*   err      Work returned an error, ErrorHandler not yet called            *)
(*   nil      Work returned nil          handled  the ErrorHandler returned  *)
Steps == {"leased", "begun", "loaded", "walking", "succeed", "fail"}
Pcs == Steps \cup {"idle", "nil", "err", "handled"}

Worker == [pc : Pcs, run : Runs \cup {NoRun}, att : Nat, walked : BOOLEAN]
Idle == [pc |-> "idle", run |-> NoRun, att |-> 0, walked |-> FALSE]

Workflow == [st : {"live", "locked", "gone"}, force : BOOLEAN, held : SUBSET Runs]

TypeOK == /\ row \in [Runs -> Row]
          /\ job \in [Runs -> Job]
          /\ worker \in [Workers -> Worker]
          /\ wf \in Workflow

Init == /\ row = [r \in Runs |-> [st |-> "ABSENT", start |-> 0, steps |-> 0,
                                  output |-> 0, error |-> FALSE, by |-> 0, lost |-> FALSE]]
        /\ job = [r \in Runs |-> [st |-> "none", attempt |-> 0]]
        /\ worker = [w \in Workers |-> Idle]
        /\ wf = [st |-> "live", force |-> FALSE, held |-> {}]

-----------------------------------------------------------------------------
(* The Cloud Controller's RPCs.                                              *)

(* RunWorkflow: the PENDING row and its job are inserted in one transaction. *)
(* The INSERT's foreign key takes a share lock on the workflow, so it waits  *)
(* for a DeleteWorkflow that holds the workflow row and fails once it is     *)
(* gone.                                                                     *)
RunWorkflow(r) ==
    /\ wf.st = "live"
    /\ row[r].st = "ABSENT"
    /\ row' = [row EXCEPT ![r].st = "PENDING"]
    /\ job' = [job EXCEPT ![r].st = "available"]
    /\ UNCHANGED <<worker, wf>>

(* The row lock of a run is free unless DeleteWorkflow's force-cancel holds  *)
(* it until its transaction ends.                                            *)
Unlocked(r) == r \notin wf.held

(* CancelWorkflowRun moves any non-terminal run to CANCELLED; the job goes   *)
(* on unaware.                                                               *)
CancelWorkflowRun(r) ==
    /\ wf.st # "gone"
    /\ Unlocked(r)
    /\ row[r].st \notin Terminal \cup Missing
    /\ row' = [row EXCEPT ![r].st = "CANCELLED"]
    /\ UNCHANGED <<job, worker, wf>>

(* DeleteWorkflow up to its DELETE: lock the workflow, count the active runs *)
(* without locking them, refuse when there are some and force is not set.    *)
(* With force the active runs are updated, and so locked, until the end.     *)
DeleteWorkflowCheck(force) ==
    LET active == {r \in Runs : row[r].st \in Active}
    IN  /\ wf.st = "live"
        /\ force \/ active = {}
        /\ wf' = [st |-> "locked", force |-> force, held |-> active]
        /\ UNCHANGED <<row, job, worker>>

(* The DELETE, which cascades to every run, and the commit.                  *)
DeleteWorkflowCommit ==
    /\ wf.st = "locked"
    /\ row' = [r \in Runs |-> IF row[r].st = "ABSENT" THEN row[r]
                              ELSE [row[r] EXCEPT !.st = "DELETED"]]
    /\ wf' = [wf EXCEPT !.st = "gone", !.held = {}]
    /\ UNCHANGED <<job, worker>>

(* validate_only, or a database error: the transaction rolls back.           *)
DeleteWorkflowRollback ==
    /\ wf.st = "locked"
    /\ wf' = [wf EXCEPT !.st = "live", !.held = {}]
    /\ UNCHANGED <<row, job, worker>>

-----------------------------------------------------------------------------
(* RunWorkflowWorker.Work, one action per transaction.                       *)

Goto(w, pc) == worker' = [worker EXCEPT ![w].pc = pc]

(* River (external) hands an available job to an idle worker as its next     *)
(* attempt.                                                                  *)
Lease(w, r) ==
    /\ worker[w].pc = "idle"
    /\ job[r].st = "available"
    /\ job' = [job EXCEPT ![r] = [st |-> "running", attempt |-> @.attempt + 1]]
    /\ worker' = [worker EXCEPT ![w] = [pc |-> "leased", run |-> r,
                                        att |-> job[r].attempt + 1, walked |-> FALSE]]
    /\ UNCHANGED <<row, wf>>

(* begin: a run that is gone or terminal is not executed again; PENDING and  *)
(* RUNNING (a re-delivery) become RUNNING, and only the first stamps         *)
(* start_time.                                                               *)
StartTime_EveryAttempt(r, att) == att   \* mutant: start_time := now() on re-delivery

StartTime(r, att) == IF row[r].st = "PENDING" THEN att ELSE row[r].start

Begin(w) ==
    LET r == worker[w].run IN
    /\ worker[w].pc = "leased"
    /\ Unlocked(r)
    /\ \/ /\ row[r].st \in Terminal \cup Missing
          /\ Goto(w, "nil")
          /\ UNCHANGED row
       \/ /\ row[r].st \notin Terminal \cup Missing
          /\ row' = [row EXCEPT ![r].st = "RUNNING",
                                ![r].start = StartTime(r, worker[w].att)]
          /\ Goto(w, "begun")
    /\ UNCHANGED <<job, wf>>

(* loadDefinition: a version that is missing (the workflow was deleted with  *)
(* it), or whose definition does not decode (which is data here, so either   *)
(* may happen), fails the run for good.                                      *)
LoadDefinition(w) ==
    /\ worker[w].pc = "begun"
    /\ \E pc \in {"fail", "loaded"} : (wf.st = "gone" => pc = "fail") /\ Goto(w, pc)
    /\ UNCHANGED <<row, job, wf>>

(* loadScope and buildRunContext: a workflow deleted in between is an error  *)
(* handed back to River; a trigger or input that does not decode fails the   *)
(* run before anything was walked.                                           *)
LoadScope(w) ==
    /\ worker[w].pc = "loaded"
    /\ \/ wf.st = "gone" /\ Goto(w, "err")
       \/ wf.st # "gone" /\ Goto(w, "fail")
       \/ /\ wf.st # "gone"
          /\ worker' = [worker EXCEPT ![w].pc = "walking", ![w].walked = TRUE]
    /\ UNCHANGED <<row, job, wf>>

(* A step event inside Interpreter.Run: the reporter's snapshot overwrites   *)
(* the steps column of a run that is still RUNNING, whoever wrote it last.   *)
Checkpoint_Unguarded(w) ==   \* mutant: UPDATE ... WHERE id = $1 without the state
    LET r == worker[w].run IN
    /\ worker[w].pc = "walking"
    /\ row[r].st \notin Missing
    /\ row' = [row EXCEPT ![r].steps = worker[w].att]
    /\ UNCHANGED <<job, worker, wf>>

Checkpoint(w) ==
    LET r == worker[w].run IN
    /\ worker[w].pc = "walking"
    /\ Unlocked(r)
    /\ row[r].st = "RUNNING"
    /\ row' = [row EXCEPT ![r].steps = worker[w].att]
    /\ UNCHANGED <<job, worker, wf>>

(* Interpreter.Run returns: Completed, a terminal failure, or an error River *)
(* retries (a retryable fault, or the job's context cancelled or past its    *)
(* deadline).                                                                *)
Interpreted(w) ==
    /\ worker[w].pc = "walking"
    /\ \E pc \in {"succeed", "fail", "err"} : Goto(w, pc)
    /\ UNCHANGED <<row, job, wf>>

(* UpdateWorkflowRunState on a row: a NULL argument leaves its column, so    *)
(* without a snapshot the row keeps the steps it has, whichever attempt      *)
(* wrote them.                                                               *)
Coalesce(new, old) == IF new = 0 THEN old ELSE new

Finalized(d, state, output, steps, error, by) ==
    [st |-> state, start |-> d.start, steps |-> Coalesce(steps, d.steps),
     output |-> Coalesce(output, d.output), error |-> error \/ d.error,
     by |-> by, lost |-> by > 0 /\ steps = 0]

(* finalizeRun: under the row lock, only a run that is still there and not   *)
(* terminal is written; every other finalize is a no-op.                     *)
Unfinished_NoRecheck(r) == row[r].st \notin Missing   \* mutant: state not re-read

Unfinished(r) == row[r].st \notin Terminal \cup Missing

FinalizeRun(r, state, output, steps, error, by) ==
    /\ Unlocked(r)
    /\ row' = IF ~Unfinished(r) THEN row
              ELSE [row EXCEPT ![r] = Finalized(row[r], state, output, steps, error, by)]

(* The attempt, if its interpreter ran, and the final snapshots its reporter *)
(* may return: its own steps, or nil when they cannot be encoded; nil when   *)
(* the interpreter never ran.                                                *)
Walker(w) == IF worker[w].walked THEN worker[w].att ELSE 0
Snapshots(w) == {0, Walker(w)}

(* The output is nil when the run set no variables or they cannot be         *)
(* encoded: the run succeeds without it.                                     *)
FinalizeSucceeded(w) ==
    /\ worker[w].pc = "succeed"
    /\ \E output \in {0, worker[w].att}, steps \in Snapshots(w) :
           FinalizeRun(worker[w].run, "SUCCEEDED", output, steps, FALSE, Walker(w))
    /\ Goto(w, "nil")
    /\ UNCHANGED <<job, wf>>

(* finalizeRunFailed: a cause that cannot be encoded leaves the run FAILED   *)
(* without an error.                                                         *)
FinalizeFailed(w) ==
    /\ worker[w].pc = "fail"
    /\ \E encoded \in BOOLEAN, steps \in Snapshots(w) :
           FinalizeRun(worker[w].run, "FAILED", 0, steps, encoded, Walker(w))
    /\ Goto(w, "nil")
    /\ UNCHANGED <<job, wf>>

(* A database fault, a cancelled context or a panic at any point of Work     *)
(* before a transaction commits.                                             *)
WorkFault_Swallowed(w) ==   \* mutant: a transient fault is logged and Work returns nil
    /\ worker[w].pc \in Steps
    /\ Goto(w, "nil")
    /\ UNCHANGED <<row, job, wf>>

WorkFault(w) ==
    /\ worker[w].pc \in Steps
    /\ Goto(w, "err")
    /\ UNCHANGED <<row, job, wf>>

-----------------------------------------------------------------------------
(* What happens around Work.                                                 *)

(* RunWorkflowErrorHandler.HandleError / HandlePanic: on the last attempt    *)
(* the run is finalized FAILED, keeping the steps it has.  A failure of this *)
(* write is only logged.                                                     *)
HandleError(w) ==
    /\ worker[w].pc = "err"
    /\ \/ /\ worker[w].att >= MaxAttempts
          /\ \E encoded \in BOOLEAN :
                 FinalizeRun(worker[w].run, "FAILED", 0, 0, encoded, 0)
       \/ UNCHANGED row     \* attempts remain, or the write failed
    /\ Goto(w, "handled")
    /\ UNCHANGED <<job, wf>>

(* River (external) records the outcome of an attempt, if the job is still   *)
(* running: completed, back to available, or discarded after the last one.   *)
JobOutcome(w) == IF worker[w].pc = "nil" THEN "completed"
                 ELSE IF worker[w].att < MaxAttempts THEN "available"
                 ELSE "discarded"

Settle(w) ==
    LET r == worker[w].run
    IN  /\ worker[w].pc \in {"nil", "handled"}
        /\ job' = IF job[r].st = "running" THEN [job EXCEPT ![r].st = JobOutcome(w)] ELSE job
        /\ worker' = [worker EXCEPT ![w] = Idle]
        /\ UNCHANGED <<row, wf>>

(* The worker process dies wherever it is; the job stays running.            *)
Crash(w) ==
    /\ worker[w].pc # "idle"
    /\ worker' = [worker EXCEPT ![w] = Idle]
    /\ UNCHANGED <<row, job, wf>>

(* River's rescuer (external) takes back a job that has been running too     *)
(* long.  It cannot tell a crashed worker from a slow one, so the old        *)
(* attempt may still be executing.  The ErrorHandler is not called.          *)
Rescue(r) ==
    /\ job[r].st = "running"
    /\ job' = [job EXCEPT ![r].st = IF job[r].attempt < MaxAttempts
                                    THEN "available" ELSE "discarded"]
    /\ UNCHANGED <<row, worker, wf>>

(* reapOne for one DISCARDED job of a reaper tick.  Its cause is a fixed     *)
(* text, which always encodes.                                               *)
Reap_RunningOnly(r) ==   \* mutant: the reaper looks at RUNNING runs only
    /\ job[r].st = "discarded"
    /\ row[r].st = "RUNNING"
    /\ FinalizeRun(r, "FAILED", 0, 0, TRUE, 0)
    /\ UNCHANGED <<job, worker, wf>>

Reap(r) ==
    /\ job[r].st = "discarded"
    /\ FinalizeRun(r, "FAILED", 0, 0, TRUE, 0)
    /\ UNCHANGED <<job, worker, wf>>

-----------------------------------------------------------------------------
Work(w) == \/ Begin(w) \/ LoadDefinition(w) \/ LoadScope(w) \/ Checkpoint(w)
           \/ Interpreted(w) \/ FinalizeSucceeded(w) \/ FinalizeFailed(w)
           \/ WorkFault(w) \/ HandleError(w) \/ Settle(w)

Next == \/ \E r \in Runs : RunWorkflow(r) \/ CancelWorkflowRun(r) \/ Rescue(r) \/ Reap(r)
        \/ \E force \in BOOLEAN : DeleteWorkflowCheck(force)
        \/ DeleteWorkflowCommit
        \/ DeleteWorkflowRollback
        \/ \E w \in Workers : Work(w) \/ Crash(w) \/ \E r \in Runs : Lease(w, r)

Spec == Init /\ [][Next]_vars

(* A job whose worker died is eventually rescued; one that is being executed *)
(* need never be.                                                            *)
RescueOrphan(r) == Rescue(r) /\ \A w \in Workers : worker[w].run # r

(* Worker goroutines run, River hands out, settles and rescues jobs, the     *)
(* reaper's finalize succeeds now and then (strongly fair, because a row     *)
(* lock's waiters are served in order although deletes may keep taking the   *)
(* lock again), an open transaction ends.                                    *)
(* Nothing obliges a client to call an RPC or a process to crash.            *)
Fairness == /\ \A w \in Workers : WF_vars(Work(w) /\ ~Checkpoint(w))
            /\ \A r \in Runs : /\ WF_vars(\E w \in Workers : Lease(w, r))
                               /\ WF_vars(RescueOrphan(r))
                               /\ SF_vars(Reap(r))
            /\ WF_vars(DeleteWorkflowCommit \/ DeleteWorkflowRollback)

FairSpec == Spec /\ Fairness

-----------------------------------------------------------------------------
(* Properties.                                                               *)

(* A job River considers done never leaves its run unsettled: Work returns   *)
(* nil only after the run was finalized, cancelled or deleted, whichever     *)
(* attempts ran side by side.  Otherwise no job and no reaper would ever     *)
(* look at the run again.                                                    *)
CompletedJobSettledRun ==
    \A r \in Runs : job[r].st = "completed" => row[r].st \in Terminal \cup Missing

(* The columns of a terminal row tell one story: a SUCCEEDED run was         *)
(* finalized by an attempt that walked it, its output, when it has one, is   *)
(* that attempt's, and it has no error; a FAILED run has no output, a        *)
(* CANCELLED one neither output nor error; and the steps are those of the    *)
(* attempt that finalized it, unless its last snapshot could not be encoded. *)
(* Finalize, cancel and the checkpoints of another attempt race for the row. *)
OutcomeOfOneAttempt ==
    \A r \in Runs : LET d == row[r] IN
        /\ d.st = "SUCCEEDED" => d.by > 0 /\ d.output \in {0, d.by} /\ ~d.error
        /\ d.st = "FAILED" => d.output = 0
        /\ d.st = "CANCELLED" => d.output = 0 /\ ~d.error
        /\ d.st \in {"SUCCEEDED", "FAILED"} /\ d.by > 0 /\ ~d.lost => d.steps = d.by

(* A terminal run is frozen: no later attempt, late checkpoint, error        *)
(* handler, reaper or cancel changes any column; only DeleteWorkflow removes *)
(* the row.                                                                  *)
TerminalRowFrozen ==
    [][\A r \in Runs : row[r].st \in Terminal =>
           row'[r] = row[r] \/ row'[r].st = "DELETED"]_vars

(* start_time is written once, by the attempt that first began the run, and  *)
(* survives every re-delivery.                                               *)
StartStampedOnce ==
    [][\A r \in Runs : row[r].start # 0 => row'[r].start = row[r].start]_vars

(* A deleted workflow stays empty: no job, retry or API call brings a run of *)
(* it into being again.                                                      *)
DeletedStaysDeleted ==
    wf.st = "gone" => \A r \in Runs : row[r].st \in Missing

(* The inductive strengthening behind the invariants above, in three parts:  *)
(* what a row holds in each state and what its job may then be, what a       *)
(* worker's position in Work says about the row it executes although other   *)
(* attempts and RPCs write it too, and the end of the workflow.              *)
RowInv ==
    \A r \in Runs :
        /\ row[r].st \in {"ABSENT", "PENDING"} => row[r].start = 0
        /\ row[r].st = "RUNNING" => row[r].start > 0
        /\ row[r].st \in {"ABSENT", "PENDING", "RUNNING"} =>
               row[r].output = 0 /\ ~row[r].error
        /\ row[r].st = "ABSENT" => job[r].st = "none"

WorkerInv ==
    \A w \in Workers : LET st == row[worker[w].run].st IN
        /\ worker[w].pc # "idle" =>
               worker[w].run \in Runs /\ worker[w].att > 0 /\ st # "ABSENT"
        /\ worker[w].pc = "nil" => st \in Terminal \cup Missing
        /\ worker[w].pc \in Steps \ {"leased"} => st # "PENDING"
        /\ worker[w].pc \in {"walking", "succeed"} => worker[w].walked

RunInv == /\ RowInv
          /\ WorkerInv
          /\ CompletedJobSettledRun
          /\ OutcomeOfOneAttempt
          /\ DeletedStaysDeleted

(* Every run that was accepted is eventually finalized, cancelled or         *)
(* deleted, whatever crashes, faults and rescues happen on the way.          *)
RunSettles ==
    \A r \in Runs : row[r].st \in {"PENDING", "RUNNING"}
                      ~> row[r].st \in Terminal \cup Missing

(* The run a client sees, in the terms of RunLifecycle.                      *)
StartsOf(d) == IF d.start = 0 THEN 0 ELSE 1
ResultOf(d) == IF d.error THEN "error" ELSE IF d.output = 0 THEN "none" ELSE "output"

Lifecycle == INSTANCE RunLifecycle
               WITH status <- [r \in Runs |-> row[r].st],
                    starts <- [r \in Runs |-> StartsOf(row[r])],
                    result <- [r \in Runs |-> ResultOf(row[r])]

(* The rows driven by jobs, retries, rescues, handlers and the reaper show a *)
(* client exactly the simple lifecycle of RunLifecycle: one start, one       *)
(* ending, and at most one result, of the kind that fits the ending.         *)
ImplementsLifecycle == Lifecycle!LSpec

(* What the query comment of CountActiveWorkflowRuns promises of force=false *)
(* ("a nonzero count blocks the delete"): the delete removes no run that is  *)
(* RUNNING.                                                                  *)
UnforcedDeleteSparesActive ==
    [][\A r \in Runs : row[r].st \in Active /\ row'[r].st = "DELETED" => wf.force]_vars
=============================================================================
