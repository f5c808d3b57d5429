---------------------------- MODULE RunLifecycle ----------------------------
(***************************************************************************)
(* What the WorkflowRuns service promises a client that watches a run: a   *)
(* run is accepted, starts at most once, and ends at most once, in one of  *)
(* three ways, with no result but the one that belongs to that ending;     *)
(* after that only the deletion of the whole workflow changes it.  Nothing *)
(* here knows of jobs, attempts, workers or reapers.                       *)
(***************************************************************************)
EXTENDS Naturals

CONSTANT Runs

VARIABLES status,   \* what GetWorkflowRun shows, by run
          starts,   \* how often the run has started
          result    \* "none", "output" or "error"

absVars == <<status, starts, result>>

LInit == /\ status = [r \in Runs |-> "ABSENT"]
         /\ starts = [r \in Runs |-> 0]
         /\ result = [r \in Runs |-> "none"]

Accept(r) == /\ status[r] = "ABSENT"
             /\ status' = [status EXCEPT ![r] = "PENDING"]
             /\ UNCHANGED <<starts, result>>

Start(r) == /\ status[r] = "PENDING"
            /\ status' = [status EXCEPT ![r] = "RUNNING"]
            /\ starts' = [starts EXCEPT ![r] = @ + 1]
            /\ UNCHANGED result

(* Only a run that started can succeed; one whose worker never got to start  *)
(* it can still fail or be cancelled.  A result that is empty, or that could *)
(* not be encoded, is missing.                                               *)
Succeed(r) == /\ status[r] = "RUNNING"
              /\ status' = [status EXCEPT ![r] = "SUCCEEDED"]
              /\ \E res \in {"output", "none"} : result' = [result EXCEPT ![r] = res]
              /\ UNCHANGED starts

Fail(r) == /\ status[r] \in {"PENDING", "RUNNING"}
           /\ status' = [status EXCEPT ![r] = "FAILED"]
           /\ \E res \in {"error", "none"} : result' = [result EXCEPT ![r] = res]
           /\ UNCHANGED starts

Cancel(r) == /\ status[r] \in {"PENDING", "RUNNING"}
             /\ status' = [status EXCEPT ![r] = "CANCELLED"]
             /\ UNCHANGED <<starts, result>>

(* The workflow is deleted and every run with it, at once.                   *)
DeleteAll == /\ status' = [r \in Runs |-> IF status[r] = "ABSENT" THEN "ABSENT" ELSE "DELETED"]
             /\ UNCHANGED <<starts, result>>

LNext == \/ \E r \in Runs : Accept(r) \/ Start(r) \/ Succeed(r) \/ Fail(r) \/ Cancel(r)
         \/ DeleteAll

LSpec == LInit /\ [][LNext]_absVars
=============================================================================
