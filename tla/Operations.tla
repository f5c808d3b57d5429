----------------------------- MODULE Operations -----------------------------
(***************************************************************************)
(* Long-running operations: the operations row, the River job that does    *)
(* the work in pivox-worker, the pg_notify trigger and LISTEN loop that     *)
(* bridge completion to WaitOperation calls in pivox-cloud, cancel, delete, *)
(* and RecoverPending when pivox-cloud starts.                              *)
(*                                                                         *)
(* The jobs come in three shapes: TxOps do their work, complete the        *)
(* operation and complete the job in one transaction (delete and undelete  *)
(* of organizations and spaces); PollOps watch a domain row until it is    *)
(* verified (CreateDomain); PhaseOps commit phase by phase (DeleteAccount). *)
(***************************************************************************)
EXTENDS Naturals, FiniteSets

CONSTANTS TxOps, PollOps, PhaseOps,
          OrgDeletes,   \* the TxOps that delete the organization of the PollOps
          Waiters,      \* WaitOperation calls
          Timed,        \* those with a deadline
          MaxFiled,     \* bound on the operations asked for
          MaxAttempts,  \* River's max_attempts
          MaxRestarts,  \* bound on restarts of pivox-cloud
          Faults,       \* may database writes fail and workers die
          Drops,        \* may the LISTEN connection drop
          None

Ops == TxOps \cup PollOps \cup PhaseOps

ASSUME ShapesAssumption == /\ TxOps \cap PollOps = {} /\ TxOps \cap PhaseOps = {}
                           /\ PollOps \cap PhaseOps = {}
                           /\ OrgDeletes \subseteq TxOps /\ Timed \subseteq Waiters
ASSUME BoundsAssumption == /\ MaxFiled \in Nat /\ MaxAttempts \in Nat \ {0} /\ MaxRestarts \in Nat
                           /\ Faults \in BOOLEAN /\ Drops \in BOOLEAN
                           /\ None \notin Ops

VARIABLES op,         \* operations rows
          job,        \* River jobs
          pc,         \* what the job's current attempt does next
          eff,        \* phases of the work committed so far
          dom,        \* domain row of a PollOp
          server,     \* pivox-cloud: booting, recovering or up
          abandoned,  \* operations RecoverPending has listed and not yet failed
          restarts,
          conn,       \* is the LISTEN connection up
          inbox,      \* notifications sent to it and not yet dispatched
          waiter      \* WaitOperation calls

vars == <<op, job, pc, eff, dom, server, abandoned, restarts, conn, inbox, waiter>>
work == <<job, pc, eff, dom>>
cloud == <<server, abandoned, restarts, conn, waiter>>

NoOp == [st |-> "none", err |-> "none", res |-> FALSE]
Op == [st : {"none", "pending", "done", "deleted"},
       err : {"none", "cancelled", "aborted", "failed"}, res : BOOLEAN]
Job == [st : {"none", "available", "running", "completed", "discarded"}, att : 0..MaxAttempts]
Waiter == [pc : {"idle", "read", "wait", "returned", "lost"}, on : Ops \cup {None},
           ch : BOOLEAN, by : {"none", "read", "wake", "deadline"},
           ans : {"none", "pending", "done", "deleted"}]

TypeOK == /\ op \in [Ops -> Op]
          /\ job \in [Ops -> Job]
          /\ pc \in [Ops -> {"idle", "start", "domain", "expire", "complete", "fail",
                             "revoke", "erase", "refuse", "finish"}]
          /\ eff \in [Ops -> 0..2]
          /\ dom \in [PollOps -> {"PENDING", "VERIFIED", "FAILED", "DELETED"}]
          /\ server \in {"booting", "recovering", "up"}
          /\ abandoned \subseteq Ops
          /\ restarts \in 0..MaxRestarts
          /\ conn \in BOOLEAN
          /\ inbox \subseteq Ops
          /\ waiter \in [Waiters -> Waiter]

Idle == [pc |-> "idle", on |-> None, ch |-> FALSE, by |-> "none", ans |-> "none"]

Init == /\ op = [o \in Ops |-> NoOp]
        /\ job = [o \in Ops |-> [st |-> "none", att |-> 0]]
        /\ pc = [o \in Ops |-> "idle"]
        /\ eff = [o \in Ops |-> 0]
        /\ dom = [o \in PollOps |-> "PENDING"]
        /\ server = "up"
        /\ abandoned = {}
        /\ restarts = 0
        /\ conn = TRUE
        /\ inbox = {}
        /\ waiter = [w \in Waiters |-> Idle]

-----------------------------------------------------------------------------
(* The operations table.                                                     *)

Exists(o) == op[o].st \in {"pending", "done"}

DoneEdge_AnyUpdate(o, row) == TRUE   \* mutant: an AFTER UPDATE trigger without the IF

(* notify_lro_done: OLD.done = FALSE and NEW.done = TRUE.                    *)
DoneEdge(o, row) == op[o].st = "pending" /\ row.st = "done"

(* An UPDATE of the rows in S: PostgreSQL sends the trigger's notifications  *)
(* with the commit, to the LISTEN connection if there is one; it dispatches  *)
(* them, and the woken callers read, in steps of their own.                  *)
Write(S, Row(_)) ==
    /\ op' = [o \in Ops |-> IF o \in S THEN Row(o) ELSE op[o]]
    /\ inbox' = inbox \cup {o \in S : conn /\ DoneEdge(o, Row(o))}

(* UpdateOperationMetadata: an UPDATE too, which leaves done alone.          *)
Refresh(o) == Write({o}, LAMBDA x : op[x])

(* CompleteOperation and FailOperation set done whatever the row was, and    *)
(* neither clears what the other wrote.                                      *)
CompletedRow(o) == [op[o] EXCEPT !.st = "done", !.res = TRUE]
FailedRow(o) == [op[o] EXCEPT !.st = "done", !.err = "failed"]
AbortedRow(o) == [op[o] EXCEPT !.st = "done", !.err = "aborted"]
CancelledRow(o) == [op[o] EXCEPT !.st = "done", !.err = "cancelled"]

(* OperationToProto: what a client sees; an error hides a result.            *)
Visible(o) == IF op[o].st # "done" THEN op[o].st
              ELSE IF op[o].err # "none" THEN op[o].err ELSE "response"

(* NewLro: the row, whose INSERT no trigger sees, and the job in one         *)
(* transaction.                                                              *)
NewLro(o) ==
    /\ server = "up"
    /\ op[o].st = "none"
    /\ Cardinality({x \in Ops : op[x].st # "none"}) < MaxFiled
    /\ op' = [op EXCEPT ![o].st = "pending"]
    /\ job' = [job EXCEPT ![o].st = "available"]
    /\ UNCHANGED <<inbox, pc, eff, dom, cloud>>

Cancellable_Unguarded(o) == Exists(o)   \* mutant: no AND done = false

(* CancelOperation, the query: only a row that is not done.                  *)
Cancellable(o) == op[o].st = "pending"

(* notifyListeners: a send that does not block to every registered channel.  *)
Wake(S) == [w \in Waiters |-> IF waiter[w].pc = "wait" /\ waiter[w].on \in S
                              THEN [waiter[w] EXCEPT !.ch = TRUE] ELSE waiter[w]]

(* It wakes the local listeners itself, besides the trigger.                 *)
CancelOperation(o) ==
    /\ server = "up"
    /\ Cancellable(o)
    /\ Write({o}, CancelledRow)
    /\ waiter' = Wake({o})
    /\ UNCHANGED <<work, server, abandoned, restarts, conn>>

(* DeleteOperation by a client, or ReapOperationsWorker after the expiry.    *)
DeleteOperation(o) ==
    /\ op[o].st = "done"
    /\ op' = [op EXCEPT ![o].st = "deleted"]
    /\ UNCHANGED <<inbox, work, cloud>>

-----------------------------------------------------------------------------
(* River.                                                                    *)

Lease(o) ==
    /\ job[o].st = "available"
    /\ job' = [job EXCEPT ![o] = [st |-> "running", att |-> @.att + 1]]
    /\ pc' = [pc EXCEPT ![o] = "start"]
    /\ UNCHANGED <<op, inbox, eff, dom, cloud>>

Running(o) == job[o].st = "running"

(* The attempt ends without completing the job: Work returned an error, or   *)
(* the worker died and the job was rescued.                                  *)
Retry(o) ==
    /\ job' = [job EXCEPT ![o].st = IF job[o].att < MaxAttempts THEN "available" ELSE "discarded"]
    /\ pc' = [pc EXCEPT ![o] = "idle"]

AttemptFails(o) ==
    /\ Faults
    /\ Running(o)
    /\ Retry(o)
    /\ UNCHANGED <<op, inbox, eff, dom, cloud>>

(* River's default JobTimeout.  VerifyDomainArgs declares a Timeout method,  *)
(* but River asks the worker, and the workers inherit WorkerDefaults.        *)
JobTimeout(o) ==
    /\ Running(o)
    /\ o \in PollOps   \* the others are done in milliseconds
    /\ Retry(o)
    /\ UNCHANGED <<op, inbox, eff, dom, cloud>>

(* Work returned nil: River completes the job in a write of its own.         *)
Finish(o) ==
    /\ Running(o) /\ pc[o] = "finish"
    /\ job' = [job EXCEPT ![o].st = "completed"]
    /\ pc' = [pc EXCEPT ![o] = "idle"]
    /\ UNCHANGED <<op, inbox, eff, dom, cloud>>

(* An operation row that is gone makes every UPDATE return no row: an error. *)
Vanished(o, step) ==
    /\ Running(o) /\ pc[o] = step /\ ~Exists(o)
    /\ Retry(o)
    /\ UNCHANGED <<op, inbox, eff, dom, cloud>>

-----------------------------------------------------------------------------
(* One-transaction workers.                                                  *)

(* CancelRunningOpsForOrg, the first statement of an organization delete:    *)
(* the operations of the organization that are not done.                     *)
Interrupted(o) == IF o \in OrgDeletes THEN {p \in PollOps : op[p].st = "pending"} ELSE {}

(* The rows the transaction writes: its own operation's and those.           *)
TxRow(o, row, x) == IF x = o THEN row ELSE CancelledRow(x)

JobCompleteTx_Later(o) ==   \* mutant: the job is completed after the commit
    pc' = [pc EXCEPT ![o] = "finish"] /\ UNCHANGED job

JobCompleteTx(o) ==
    /\ job' = [job EXCEPT ![o].st = "completed"]
    /\ pc' = [pc EXCEPT ![o] = "idle"]

(* The work is done and the operation completed with its result; a forced    *)
(* organization delete takes the domains along.                              *)
TxComplete(o) ==
    /\ Running(o) /\ pc[o] = "start" /\ o \in TxOps /\ Exists(o)
    /\ eff' = [eff EXCEPT ![o] = 1]
    /\ Write({o} \cup Interrupted(o), LAMBDA x : TxRow(o, CompletedRow(o), x))
    /\ \/ UNCHANGED dom
       \/ o \in OrgDeletes /\ dom' = [p \in PollOps |-> "DELETED"]
    /\ JobCompleteTx(o)
    /\ UNCHANGED cloud

(* The guarded UPDATE matched no row: the operation fails, the job is done.  *)
TxRefuse(o) ==
    /\ Running(o) /\ pc[o] = "start" /\ o \in TxOps /\ Exists(o)
    /\ Write({o} \cup Interrupted(o), LAMBDA x : TxRow(o, FailedRow(o), x))
    /\ JobCompleteTx(o)
    /\ UNCHANGED <<eff, dom, cloud>>

-----------------------------------------------------------------------------
(* VerifyDomainWorker: check() on every tick.                                *)

Goto(o, step) == pc' = [pc EXCEPT ![o] = step]

(* The operation is read first, so that a cancel ends the loop.              *)
PollCheck(o) ==
    /\ Running(o) /\ pc[o] = "start" /\ o \in PollOps /\ Exists(o)
    /\ Goto(o, IF op[o].st = "done" THEN "finish" ELSE "domain")
    /\ UNCHANGED <<op, inbox, job, eff, dom, cloud>>

(* The domain row decides; a pending one waits for the next tick, having     *)
(* refreshed the operation's metadata, unless its deadline has passed.       *)
PollDomain(o) ==
    /\ Running(o) /\ pc[o] = "domain"
    /\ \/ dom[o] = "VERIFIED" /\ Refresh(o) /\ Goto(o, "complete")
       \/ dom[o] \in {"FAILED", "DELETED"} /\ UNCHANGED <<op, inbox>> /\ Goto(o, "fail")
       \/ dom[o] = "PENDING" /\ Refresh(o) /\ Goto(o, "start")
       \/ dom[o] = "PENDING" /\ UNCHANGED <<op, inbox>> /\ Goto(o, "expire")
    /\ UNCHANGED <<job, eff, dom, cloud>>

(* MarkDomainFailed, guarded by state = 'PENDING'; no row is only logged.    *)
PollExpire(o) ==
    /\ Running(o) /\ pc[o] = "expire"
    /\ dom' = [dom EXCEPT ![o] = IF @ = "PENDING" THEN "FAILED" ELSE @]
    /\ Refresh(o)
    /\ Goto(o, "fail")
    /\ UNCHANGED <<job, eff, cloud>>

(* failOp logs a failed write and returns nil all the same.                  *)
PollFail(o) ==
    /\ Running(o) /\ pc[o] = "fail"
    /\ \/ Exists(o) /\ Write({o}, FailedRow)
       \/ (Faults \/ ~Exists(o)) /\ UNCHANGED <<op, inbox>>
    /\ Goto(o, "finish")
    /\ UNCHANGED <<job, eff, dom, cloud>>

(* CompleteOperation in a transaction of its own, for a poll or for phases.  *)
Complete(o) ==
    /\ Running(o) /\ pc[o] = "complete" /\ Exists(o)
    /\ Write({o}, CompletedRow)
    /\ Goto(o, "finish")
    /\ UNCHANGED <<job, eff, dom, cloud>>

(* The periodic VerifyDomainsWorker.                                         *)
VerifyDomain(o) ==
    /\ op[o].st # "none" /\ dom[o] = "PENDING"
    /\ dom' = [dom EXCEPT ![o] = "VERIFIED"]
    /\ UNCHANGED <<op, inbox, job, pc, eff, cloud>>

(* DeleteDomain cancels the domain's operation and deletes the row.          *)
DeleteDomain(o) ==
    /\ server = "up"
    /\ op[o].st # "none" /\ dom[o] # "DELETED"
    /\ Write({o} \cap {p \in PollOps : op[p].st = "pending"}, CancelledRow)
    /\ dom' = [dom EXCEPT ![o] = "DELETED"]
    /\ UNCHANGED <<job, pc, eff, cloud>>

-----------------------------------------------------------------------------
(* DeleteAccountWorker.                                                      *)

(* Phase 1: the sole owner of an organization is refused; an identity that   *)
(* is deleted already owns nothing.                                          *)
PhaseValidate(o) ==
    /\ Running(o) /\ pc[o] = "start" /\ o \in PhaseOps
    /\ \/ Goto(o, "revoke")
       \/ eff[o] < 2 /\ Goto(o, "refuse")
    /\ UNCHANGED <<op, inbox, job, eff, dom, cloud>>

(* Phase 2: memberships; DELETEs that may find nothing left.                 *)
PhaseRevoke(o) ==
    /\ Running(o) /\ pc[o] = "revoke"
    /\ eff' = [eff EXCEPT ![o] = IF @ = 0 THEN 1 ELSE @]
    /\ Goto(o, "erase")
    /\ UNCHANGED <<op, inbox, job, dom, cloud>>

(* Phase 3: the identity; a repeat finds it deleted and goes on.  A row that *)
(* is gone (errIdentityVanished), or that another deletion got to first      *)
(* (errSoftDeleteRace), fails the operation, whatever attempt this is.       *)
PhaseErase(o) ==
    /\ Running(o) /\ pc[o] = "erase"
    /\ \/ eff' = [eff EXCEPT ![o] = 2] /\ Goto(o, "complete")
       \/ UNCHANGED eff /\ Goto(o, "refuse")
    /\ UNCHANGED <<op, inbox, job, dom, cloud>>

(* failOp: here a write that fails is an error (AttemptFails, Vanished), and *)
(* the row may be done already.                                              *)
PhaseFail(o) ==
    /\ Running(o) /\ pc[o] = "refuse" /\ Exists(o)
    /\ Write({o}, FailedRow)
    /\ Goto(o, "finish")
    /\ UNCHANGED <<job, eff, dom, cloud>>

-----------------------------------------------------------------------------
(* WaitOperation.                                                            *)

Return(w, by) == waiter' = [waiter EXCEPT ![w].pc = "returned", ![w].by = by,
                                          ![w].ans = op[waiter[w].on].st]

(* The first read: done or gone answers at once.                             *)
WaitRead(w, o) ==
    /\ server = "up"
    /\ waiter[w].pc = "idle" /\ op[o].st # "none"
    /\ waiter' = [waiter EXCEPT ![w] =
           IF op[o].st = "pending" THEN [Idle EXCEPT !.pc = "read", !.on = o]
           ELSE [Idle EXCEPT !.pc = "returned", !.on = o, !.by = "read", !.ans = op[o].st]]
    /\ UNCHANGED <<op, inbox, work, server, abandoned, restarts, conn>>

(* The channel is registered only after that read.                           *)
WaitRegister(w) ==
    /\ waiter[w].pc = "read"
    /\ waiter' = [waiter EXCEPT ![w].pc = "wait"]
    /\ UNCHANGED <<op, inbox, work, server, abandoned, restarts, conn>>

WaitWoken(w) ==
    /\ waiter[w].pc = "wait" /\ waiter[w].ch
    /\ Return(w, "wake")
    /\ UNCHANGED <<op, inbox, work, server, abandoned, restarts, conn>>

WaitDeadline(w) ==
    /\ waiter[w].pc = "wait" /\ w \in Timed
    /\ Return(w, "deadline")
    /\ UNCHANGED <<op, inbox, work, server, abandoned, restarts, conn>>

(* listenOnce dispatches one notification.                                   *)
Dispatched_One(o) ==   \* mutant: only one of the listeners is told
    LET told == {w \in Waiters : waiter[w].pc = "wait" /\ waiter[w].on = o}
    IN IF told = {} THEN waiter
       ELSE [waiter EXCEPT ![CHOOSE w \in told : TRUE].ch = TRUE]

Dispatched(o) == Wake({o})

Dispatch(o) ==
    /\ conn /\ o \in inbox
    /\ inbox' = inbox \ {o}
    /\ waiter' = Dispatched(o)
    /\ UNCHANGED <<op, work, server, abandoned, restarts, conn>>

(* The connection breaks, with what it had not delivered, and listenOnce is  *)
(* run again after the backoff.                                              *)
Disconnect ==
    /\ Drops /\ conn
    /\ conn' = FALSE /\ inbox' = {}
    /\ UNCHANGED <<op, work, server, abandoned, restarts, waiter>>

Reconnect ==
    /\ ~conn
    /\ conn' = TRUE
    /\ UNCHANGED <<op, inbox, work, server, abandoned, restarts, waiter>>

-----------------------------------------------------------------------------
(* pivox-cloud restarts; pivox-worker does not.                              *)

Restart ==
    /\ server = "up" /\ restarts < MaxRestarts
    /\ server' = "booting" /\ restarts' = restarts + 1
    /\ conn' = FALSE /\ inbox' = {}
    /\ waiter' = [w \in Waiters |-> IF waiter[w].pc \in {"read", "wait"}
                                    THEN [waiter[w] EXCEPT !.pc = "lost", !.ch = FALSE]
                                    ELSE waiter[w]]
    /\ UNCHANGED <<op, work, abandoned>>

(* RecoverPending lists what is not done ...                                 *)
RecoverList ==
    /\ server = "booting"
    /\ server' = "recovering"
    /\ abandoned' = {o \in Ops : op[o].st = "pending"}
    /\ UNCHANGED <<op, inbox, work, restarts, conn, waiter>>

(* ... and fails each row by id; a failed write is logged.                   *)
RecoverFail(o) ==
    /\ server = "recovering" /\ o \in abandoned
    /\ abandoned' = abandoned \ {o}
    /\ \/ Exists(o) /\ Write({o}, AbortedRow)
       \/ (Faults \/ ~Exists(o)) /\ UNCHANGED <<op, inbox>>
    /\ UNCHANGED <<work, server, restarts, conn, waiter>>

Serve ==
    /\ server = "recovering" /\ abandoned = {}
    /\ server' = "up"
    /\ UNCHANGED <<op, inbox, work, abandoned, restarts, conn, waiter>>

-----------------------------------------------------------------------------
Work(o) == \/ Finish(o) \/ TxComplete(o) \/ TxRefuse(o) \/ Complete(o)
           \/ PhaseValidate(o) \/ PhaseRevoke(o) \/ PhaseErase(o) \/ PhaseFail(o)
           \/ (o \notin PhaseOps /\ Vanished(o, "start"))
           \/ Vanished(o, "complete") \/ Vanished(o, "refuse")
           \/ PollCheck(o) \/ (o \in PollOps /\ (PollDomain(o) \/ PollExpire(o) \/ PollFail(o)))

Next == \/ \E o \in Ops : \/ NewLro(o) \/ CancelOperation(o) \/ DeleteOperation(o)
                          \/ Lease(o) \/ Work(o) \/ AttemptFails(o) \/ JobTimeout(o)
                          \/ Dispatch(o) \/ RecoverFail(o)
        \/ \E o \in PollOps : VerifyDomain(o) \/ DeleteDomain(o)
        \/ \E w \in Waiters : \/ \E o \in Ops : WaitRead(w, o)
                              \/ WaitRegister(w) \/ WaitWoken(w) \/ WaitDeadline(w)
        \/ Disconnect \/ Reconnect \/ Restart \/ RecoverList \/ Serve

Spec == Init /\ [][Next]_vars

(* River leases and runs jobs, goroutines run, the LISTEN loop reconnects    *)
(* and drains; clients, faults and DNS owe nothing.                          *)
Fairness == /\ \A o \in Ops : /\ WF_vars(Lease(o)) /\ WF_vars(Work(o))
                              /\ WF_vars(Dispatch(o)) /\ WF_vars(RecoverFail(o))
            /\ \A w \in Waiters : /\ WF_vars(WaitRegister(w)) /\ WF_vars(WaitWoken(w))
                                  /\ WF_vars(WaitDeadline(w))
            /\ WF_vars(Reconnect) /\ WF_vars(RecoverList) /\ WF_vars(Serve)

FairSpec == Spec /\ Fairness

-----------------------------------------------------------------------------
(* Properties.                                                               *)

(* A client that is shown a response gets what it asked for: all phases of   *)
(* the work are committed, or the domain was verified, over crashes, retries *)
(* and re-executions.                                                        *)
SuccessMeansApplied ==
    \A o \in Ops : Visible(o) = "response" =>
        CASE o \in TxOps -> eff[o] = 1
          [] o \in PhaseOps -> eff[o] = 2
          [] OTHER -> dom[o] \in {"VERIFIED", "DELETED"}

(* The one-transaction workers leave no half-done state behind: once the     *)
(* work is committed neither the operation nor the job is open, so that no   *)
(* attempt can repeat it.                                                    *)
NoHalfCommit == \A o \in TxOps : eff[o] = 1 => op[o].st # "pending" /\ job[o].st = "completed"

(* A job of the transaction or phase shape that River considers complete has *)
(* settled its operation.                                                    *)
CompletedJobSettled ==
    \A o \in TxOps \cup PhaseOps : job[o].st = "completed" => op[o].st # "pending"

(* What the worker, its job and the operation say agrees in every state the *)
(* work can be interrupted in: nothing is half committed and no response is *)
(* shown for work that was not done.                                        *)
WorkAgrees == TypeOK /\ NoHalfCommit /\ SuccessMeansApplied

(* A success once visible is final: no cancel, re-execution or late failure  *)
(* replaces it.  Two writers are excepted, neither of which looks at done:   *)
(* RecoverPending fails what it listed as pending, and an account deletion   *)
(* that is delivered again after its success fails the operation when the    *)
(* identity's row is gone by then.                                           *)
SuccessFinal ==
    [][\A o \in Ops : Visible(o) = "response" =>
           Visible(o)' \in {"response", "deleted"} \/ o \in abandoned \/ pc[o] = "refuse"]_vars

(* A WaitOperation that was woken never answers with a pending operation:    *)
(* only the update that finishes it is announced, not the progress a poll    *)
(* writes to the same row, and what is announced is not taken back.          *)
WokenSeesDone == \A w \in Waiters : waiter[w].by = "wake" => waiter[w].ans # "pending"

(* The same with clients waiting: no answer, woken or polled, runs ahead of *)
(* the phases of an account deletion, the verification of a domain or the   *)
(* job.                                                                     *)
AnswersAgree == TypeOK /\ SuccessMeansApplied /\ CompletedJobSettled /\ WokenSeesDone

(* Whoever is registered before the operation finishes is woken when it      *)
(* does, unless the LISTEN connection drops at some time.                    *)
WaitingOn(w, o) == waiter[w].pc = "wait" /\ waiter[w].on = o
RegisteredIsWoken ==
    \A w \in Waiters, o \in Ops :
        [](WaitingOn(w, o) /\ op[o].st = "pending" =>
               \/ <>~conn
               \/ [](op[o].st # "pending" => <>~WaitingOn(w, o)))

(* What the service says of WaitOperation ("waits until the operation is     *)
(* done or the timeout elapses"): nobody waits forever on one that is done.  *)
WaitReturns ==
    \A w \in Waiters, o \in Ops :
        (WaitingOn(w, o) /\ op[o].st = "done") ~> ~WaitingOn(w, o)
=============================================================================
