----------------------------- MODULE RunReporter -----------------------------
(***************************************************************************)
(* How one attempt of a run reports its steps.  The branches of a Parallel *)
(* report from goroutines of their own: each event changes the shared      *)
(* accumulator and takes a snapshot under the reporter's mutex, and writes *)
(* the snapshot to workflow_runs.steps after releasing it.  The attempt    *)
(* then joins its branches and finalizes the run, while CancelWorkflowRun  *)
(* may end it at any moment.                                               *)
(***************************************************************************)
EXTENDS Naturals

CONSTANT Branches   \* branches of the Parallel, one step each

VARIABLES byID,     \* the accumulator: the state of each step ("none": not seen)
          garbled,  \* it holds a step error that does not encode (not UTF-8)
          pc,       \* where each branch stands
          payload,  \* the snapshot a branch has taken and not yet written
          gctx,     \* the errgroup's context is live
          state,    \* workflow_runs.state
          steps     \* workflow_runs.steps

reporterVars == <<byID, garbled, pc, payload, gctx, state, steps>>

StepStates == {"none", "RUNNING", "SUCCEEDED", "FAILED"}
Ended == {"SUCCEEDED", "FAILED"}
Snapshots == [Branches -> StepStates]
NoPayload == <<>>   \* the nil payload of a marshal error

(* ready -> (StepStarted) starting -> busy -> (StepFinished, StepFailed)     *)
(* ending -> joined                                                          *)
Pcs == {"ready", "starting", "busy", "ending", "joined"}

ReporterTypeOK ==
    /\ byID \in Snapshots
    /\ garbled \in BOOLEAN
    /\ pc \in [Branches -> Pcs]
    /\ payload \in [Branches -> Snapshots \cup {NoPayload}]
    /\ gctx \in BOOLEAN
    /\ state \in {"RUNNING", "SUCCEEDED", "FAILED", "CANCELLED"}
    /\ steps \in Snapshots

Nothing == [b \in Branches |-> "none"]

ReporterInit ==
    /\ byID = Nothing
    /\ garbled = FALSE
    /\ pc = [b \in Branches |-> "ready"]
    /\ payload = [b \in Branches |-> NoPayload]
    /\ gctx = TRUE
    /\ state = "RUNNING"
    /\ steps = Nothing

-----------------------------------------------------------------------------
(* The critical section of StepStarted, StepFinished and StepFailed.         *)
(* marshalLocked encodes every step seen so far, so once a step holds an     *)
(* error text that does not encode, it fails for the rest of the attempt.    *)
MarshalLocked(acc, bad) == IF bad THEN NoPayload ELSE acc

Record_OnCopy(b, to, encodes, next) ==   \* mutant: ensureLocked returns a copy of the StepState
    /\ garbled' = (garbled \/ ~encodes)
    /\ payload' = [payload EXCEPT ![b] = MarshalLocked([byID EXCEPT ![b] = to], garbled')]
    /\ pc' = [pc EXCEPT ![b] = next]
    /\ UNCHANGED byID

Record(b, to, encodes, next) ==
    /\ byID' = [byID EXCEPT ![b] = to]
    /\ garbled' = (garbled \/ ~encodes)
    /\ payload' = [payload EXCEPT ![b] = MarshalLocked(byID', garbled')]
    /\ pc' = [pc EXCEPT ![b] = next]

(* walkSequence runs no step of a branch whose context is cancelled.         *)
StepStarted(b) ==
    /\ pc[b] = "ready"
    /\ gctx
    /\ Record(b, "RUNNING", TRUE, "starting")
    /\ UNCHANGED <<gctx, state, steps>>

SkipStep(b) ==
    /\ pc[b] = "ready"
    /\ ~gctx
    /\ pc' = [pc EXCEPT ![b] = "joined"]
    /\ UNCHANGED <<byID, garbled, payload, gctx, state, steps>>

(* A step's output that does not encode is left out when it is recorded.     *)
StepFinished(b) ==
    /\ pc[b] = "busy"
    /\ Record(b, "SUCCEEDED", TRUE, "ending")
    /\ UNCHANGED <<gctx, state, steps>>

StepFailed(b) ==
    /\ pc[b] = "busy"
    /\ \E encodes \in BOOLEAN : Record(b, "FAILED", encodes, "ending")
    /\ UNCHANGED <<gctx, state, steps>>

(* checkpoint, outside the mutex: UPDATE ... WHERE state = 'RUNNING'.  A     *)
(* marshal error, a cancelled context, or a fault loses the write; the       *)
(* branch goes on.  A branch whose step failed returns its error, which      *)
(* cancels its siblings.                                                     *)
GuardHolds == state = "RUNNING"

Checkpoint(b, landed) ==
    /\ pc[b] \in {"starting", "ending"}
    /\ landed => gctx /\ payload[b] # NoPayload
    /\ steps' = IF landed /\ GuardHolds THEN payload[b] ELSE steps
    /\ pc' = [pc EXCEPT ![b] = IF @ = "starting" THEN "busy" ELSE "joined"]
    /\ gctx' = (gctx /\ ~(pc[b] = "ending" /\ byID[b] = "FAILED"))
    /\ UNCHANGED <<byID, garbled, payload, state>>

-----------------------------------------------------------------------------
(* runParallel waits for every branch, then the attempt finalizes: the       *)
(* terminal state and the reporter's snapshot are written together, unless   *)
(* the run has been cancelled.  Without a snapshot COALESCE keeps the steps  *)
(* of the last checkpoint.  A failed Parallel fails the run, unless a Try    *)
(* around it handles the failure.                                            *)
SnapshotJSON_Dropped == NoPayload   \* mutant: finalize passes nil for the steps

SnapshotJSON == MarshalLocked(byID, garbled)

Finalize ==
    /\ \A b \in Branches : pc[b] = "joined"
    /\ state = "RUNNING"
    /\ \/ state' = "SUCCEEDED"
       \/ ~gctx /\ state' = "FAILED"
    /\ steps' = IF SnapshotJSON = NoPayload THEN steps ELSE SnapshotJSON
    /\ UNCHANGED <<byID, garbled, pc, payload, gctx>>

(* CancelWorkflowRun: only the state; the steps stay as last checkpointed.   *)
CancelWorkflowRun ==
    /\ state = "RUNNING"
    /\ state' = "CANCELLED"
    /\ UNCHANGED <<byID, garbled, pc, payload, gctx, steps>>

ReporterNext ==
    \/ \E b \in Branches : \/ StepStarted(b) \/ SkipStep(b)
                           \/ StepFinished(b) \/ StepFailed(b)
                           \/ \E landed \in BOOLEAN : Checkpoint(b, landed)
    \/ Finalize
    \/ CancelWorkflowRun

ReporterSpec == ReporterInit /\ [][ReporterNext]_reporterVars

-----------------------------------------------------------------------------
(* Properties.                                                               *)

Rank(s) == IF s = "none" THEN 0 ELSE IF s = "RUNNING" THEN 1 ELSE 2

(* A run the executor finalized carries the complete steps, none of them     *)
(* still RUNNING, whatever checkpoints were lost, overtaken or still under   *)
(* way; only the error of a failed step, when it does not encode, can keep   *)
(* the row at an earlier checkpoint.  A run fails only for a failed step.    *)
FinalStepsComplete ==
    state \in {"SUCCEEDED", "FAILED"} =>
        /\ ~garbled => steps = byID /\ \A b \in Branches : steps[b] # "RUNNING"
        /\ garbled \/ state = "FAILED" => \E b \in Branches : byID[b] = "FAILED"

(* An observer never reads of a step more than has happened to it: no        *)
(* snapshot in flight and no persisted one is ahead of the accumulator, and  *)
(* an ended step is never shown with another ending.                         *)
NeverAhead ==
    \A b \in Branches :
        /\ Rank(steps[b]) <= Rank(byID[b])
        /\ steps[b] \in Ended => steps[b] = byID[b]
=============================================================================
