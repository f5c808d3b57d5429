-------------------------- MODULE OperationsProofs --------------------------
(***************************************************************************)
(* Long-running operations are right for any set of operations of the      *)
(* three shapes, any number of waiters, attempts and restarts, with and    *)
(* without faults.  The invariant says, of each operation, what its row    *)
(* may show (RowInv), where its job's attempt may stand and what it has    *)
(* committed by then (WorkInv), and that only finished operations are      *)
(* announced (NoticeInv).                                                  *)
(***************************************************************************)
EXTENDS Operations, TLAPS

Settled(o) == op[o].st \in {"done", "deleted"}

(* What was asked for has been done. *)
Applied(o) == /\ o \in TxOps => eff[o] = 1
              /\ o \in PhaseOps => eff[o] = 2
              /\ o \in PollOps => dom[o] \in {"VERIFIED", "DELETED"}

(* A row that is not settled says nothing; one that is says a result, which *)
(* is true, or an error.                                                    *)
RowInv(o) ==
    /\ op[o].st \in {"none", "pending"} => op[o].err = "none" /\ ~op[o].res
    /\ op[o].st = "done" => op[o].err # "none" \/ op[o].res
    /\ op[o].res => Applied(o)

(* The attempts a job has left, and the steps its shape has. *)
JobInv(o) ==
    /\ op[o].st = "none" => job[o].st = "none"
    /\ job[o].st \in {"none", "available"} => job[o].att < MaxAttempts
    /\ pc[o] # "idle" => job[o].st = "running"
    /\ o \in TxOps => pc[o] \in {"idle", "start"}
    /\ o \in PollOps => pc[o] \notin {"revoke", "erase", "refuse"}
    /\ o \in PhaseOps => pc[o] \notin {"domain", "expire", "fail"}

(* What has been committed when the attempt stands where it does: a crash   *)
(* there repeats the steps from the start.                                  *)
WorkInv(o) ==
    /\ o \in TxOps /\ eff[o] = 1 => Settled(o) /\ job[o].st = "completed"
    /\ o \in TxOps \cup PhaseOps /\ job[o].st = "completed" => Settled(o)
    /\ o \in PhaseOps /\ pc[o] = "finish" => Settled(o)
    /\ pc[o] = "complete" => Applied(o)
    /\ o \in PollOps /\ pc[o] \in {"domain", "expire", "complete", "fail"} => ~op[o].res

(* A notification, and a channel that was sent to, follow the commit. *)
NoticeInv ==
    /\ \A o \in inbox : Settled(o)
    /\ \A w \in Waiters :
         /\ waiter[w].ch => waiter[w].on \in Ops /\ Settled(waiter[w].on)
         /\ waiter[w].pc \in {"read", "wait"} => waiter[w].on \in Ops
         /\ waiter[w].by = "wake" => waiter[w].ans # "pending"

OpInv(o) == RowInv(o) /\ JobInv(o) /\ WorkInv(o)

OperationsInv == /\ TypeOK
                 /\ \A o \in Ops : OpInv(o)
                 /\ NoticeInv

-----------------------------------------------------------------------------
(* No operation has been asked for. *)
LEMMA OperationsInit == Init => OperationsInv
  <1> SUFFICES ASSUME Init PROVE OperationsInv
    OBVIOUS
  <1>1. NoOp \in Op
    BY DEF NoOp, Op
  <1>2. [st |-> "none", att |-> 0] \in Job
    BY BoundsAssumption DEF Job
  <1>3. Idle \in Waiter
    BY DEF Idle, Waiter
  <1>4. TypeOK
    BY <1>1, <1>2, <1>3, BoundsAssumption DEF Init, TypeOK
  <1>5. ASSUME NEW o \in Ops PROVE RowInv(o) /\ JobInv(o) /\ WorkInv(o)
    BY BoundsAssumption DEF Init, NoOp, RowInv, JobInv, WorkInv
  <1>6. NoticeInv
    BY DEF Init, Idle, NoticeInv
  <1> QED BY <1>4, <1>5, <1>6 DEF OperationsInv, OpInv

(* What a commit may do to an operation's row: complete it, fail it, file   *)
(* it or delete it.                                                         *)
Completes(o) == Exists(o) /\ op'[o].st = "done" /\ op'[o].err = op[o].err /\ op'[o].res
Errs(o) == Exists(o) /\ op'[o].st = "done" /\ op'[o].err # "none" /\ op'[o].res = op[o].res
Files(o) == op[o].st = "none" /\ op'[o].st = "pending"
              /\ op'[o].err = op[o].err /\ op'[o].res = op[o].res
Deletes(o) == op[o].st = "done" /\ op'[o].st = "deleted" /\ op'[o].res = op[o].res

RowsMove ==
    /\ op' \in [Ops -> Op]
    /\ \A o \in Ops : op'[o] = op[o] \/ Completes(o) \/ Errs(o) \/ Files(o) \/ Deletes(o)
    /\ inbox' \subseteq inbox \cup {o \in Ops : op'[o].st = "done"}

(* The rows the code writes. *)
LEMMA RowForms ==
  ASSUME TypeOK, NEW o \in Ops
  PROVE  /\ op[o] \in Op
         /\ CompletedRow(o) \in Op /\ CompletedRow(o).st = "done"
         /\ CompletedRow(o).err = op[o].err /\ CompletedRow(o).res
         /\ FailedRow(o) \in Op /\ FailedRow(o).st = "done"
         /\ FailedRow(o).err = "failed" /\ FailedRow(o).res = op[o].res
         /\ AbortedRow(o) \in Op /\ AbortedRow(o).st = "done"
         /\ AbortedRow(o).err = "aborted" /\ AbortedRow(o).res = op[o].res
         /\ CancelledRow(o) \in Op /\ CancelledRow(o).st = "done"
         /\ CancelledRow(o).err = "cancelled" /\ CancelledRow(o).res = op[o].res
  <1>1. op[o] \in Op
    BY DEF TypeOK
  <1> QED BY <1>1 DEF Op, CompletedRow, FailedRow, AbortedRow, CancelledRow

(* A commit to one row. *)
LEMMA WriteCompleted ==
  ASSUME TypeOK, NEW o \in Ops, Exists(o), Write({o}, CompletedRow)
  PROVE  RowsMove /\ Completes(o) /\ \A x \in Ops \ {o} : op'[x] = op[x]
  BY RowForms DEF Write, DoneEdge, RowsMove, Completes, TypeOK

(* FailOperation by a worker: an error is filed. *)
LEMMA WriteFailed ==
  ASSUME TypeOK, NEW o \in Ops, Exists(o), Write({o}, FailedRow)
  PROVE  RowsMove /\ Errs(o) /\ \A x \in Ops \ {o} : op'[x] = op[x]
  BY RowForms DEF Write, DoneEdge, RowsMove, Errs, TypeOK

(* FailOperation by RecoverPending. *)
LEMMA WriteAborted ==
  ASSUME TypeOK, NEW o \in Ops, Exists(o), Write({o}, AbortedRow)
  PROVE  RowsMove /\ Errs(o) /\ \A x \in Ops \ {o} : op'[x] = op[x]
  BY RowForms DEF Write, DoneEdge, RowsMove, Errs, TypeOK

(* Cancellation of a set of rows that are not done. *)
LEMMA WriteCancelled ==
  ASSUME TypeOK, NEW S \in SUBSET Ops, \A o \in S : op[o].st = "pending", Write(S, CancelledRow)
  PROVE  RowsMove /\ \A o \in Ops : (o \in S /\ Errs(o)) \/ (o \notin S /\ op'[o] = op[o])
  BY RowForms DEF Write, DoneEdge, RowsMove, Errs, Exists, TypeOK

(* A metadata refresh changes and announces nothing. *)
LEMMA RefreshStays ==
  ASSUME OperationsInv, NEW o \in Ops, Refresh(o)
  PROVE  UNCHANGED <<op, inbox>>
  BY DEF Refresh, Write, DoneEdge, OperationsInv, TypeOK

(* A settled operation stays settled, and notices stay behind the commits.  *)
LEMMA SettledStays ==
  ASSUME OperationsInv, RowsMove, NEW o \in Ops, Settled(o)
  PROVE  Settled(o)'
  BY DEF RowsMove, Completes, Errs, Files, Deletes, Settled

(* Whatever is committed, no notification is ahead of its commit. *)
LEMMA NoticeKeeps ==
  ASSUME OperationsInv, RowsMove, waiter' = waiter
  PROVE  NoticeInv'
  <1>1. inbox \subseteq Ops
    BY DEF OperationsInv, OpInv, TypeOK
  <1>2. \A o \in inbox' : Settled(o)'
    BY <1>1, SettledStays DEF RowsMove, OperationsInv, OpInv, NoticeInv, Settled
  <1>3. ASSUME NEW w \in Waiters PROVE
         /\ waiter[w].ch => waiter[w].on \in Ops /\ Settled(waiter[w].on)'
         /\ waiter[w].pc \in {"read", "wait"} => waiter[w].on \in Ops
         /\ waiter[w].by = "wake" => waiter[w].ans # "pending"
    BY SettledStays DEF OperationsInv, OpInv, NoticeInv
  <1> QED BY <1>2, <1>3 DEF NoticeInv, Settled

(* A domain that was verified stays so or is deleted. *)
DomainsFollow ==
    \A p \in PollOps : dom[p] \in {"VERIFIED", "DELETED"} => dom'[p] \in {"VERIFIED", "DELETED"}

(* An operation whose job does nothing in this step. *)
LEMMA Bystander ==
  ASSUME OperationsInv, NEW o \in Ops, op'[o] = op[o] \/ Errs(o) \/ Deletes(o),
         job'[o] = job[o], pc'[o] = pc[o], eff'[o] = eff[o], DomainsFollow
  PROVE  OpInv(o)'
  <1>1. Applied(o) => Applied(o)'
    BY DEF Applied, DomainsFollow
  <1>2. /\ op'[o].res = op[o].res
        /\ Settled(o) => Settled(o)'
        /\ op'[o].st = "none" => op[o].st = "none"
        /\ op'[o].st \in {"none", "pending"} => op'[o] = op[o]
    BY DEF Errs, Deletes, Settled
  <1>3. RowInv(o)'
    BY <1>1, <1>2 DEF OperationsInv, OpInv, RowInv, Errs, Deletes
  <1>4. JobInv(o)'
    BY <1>2 DEF OperationsInv, OpInv, JobInv
  <1>5. WorkInv(o)'
    BY <1>1, <1>2 DEF OperationsInv, OpInv, WorkInv, Settled
  <1> QED BY <1>3, <1>4, <1>5 DEF OpInv

-----------------------------------------------------------------------------
(* Steps that leave every job alone: clients, the domain jobs, the LISTEN   *)
(* connection and the recovery at boot.                                     *)
LEMMA IdleWork ==
  ASSUME OperationsInv, RowsMove, \A o \in Ops : op'[o] = op[o] \/ Errs(o) \/ Deletes(o),
         UNCHANGED <<job, pc, eff>>, DomainsFollow, TypeOK', NoticeInv'
  PROVE  OperationsInv'
  BY Bystander DEF OperationsInv

(* A step that commits no row is a trivial commit. *)
LEMMA RowsStay == OperationsInv /\ UNCHANGED <<op, inbox>> => RowsMove
  BY DEF OperationsInv, TypeOK, RowsMove

(* So is one that leaves the domains alone. *)
LEMMA DomainsStay == UNCHANGED dom => DomainsFollow
  BY DEF DomainsFollow

(* CancelOperation wakes the listeners of the row it has just written. *)
LEMMA CancelStep ==
  ASSUME OperationsInv, NEW o \in Ops, CancelOperation(o)
  PROVE  OperationsInv'
  <1>1. /\ Write({o}, CancelledRow) /\ op[o].st = "pending" /\ waiter' = Wake({o})
        /\ UNCHANGED <<job, pc, eff, dom, server, abandoned, restarts, conn>>
    BY DEF CancelOperation, Cancellable, work
  <1>2. RowsMove /\ Errs(o) /\ \A x \in Ops : op'[x] = op[x] \/ Errs(x)
    BY <1>1, WriteCancelled DEF OperationsInv
  <1>3. ASSUME NEW w \in Waiters
        PROVE  /\ waiter'[w] \in Waiter
               /\ waiter'[w].pc = waiter[w].pc /\ waiter'[w].on = waiter[w].on
               /\ waiter'[w].by = waiter[w].by /\ waiter'[w].ans = waiter[w].ans
               /\ waiter'[w].ch => waiter[w].ch \/ waiter[w].on = o
    <2>1. waiter[w] \in Waiter
      BY DEF OperationsInv, TypeOK
    <2>2. waiter'[w] = waiter[w] \/ (waiter[w].on = o /\ waiter'[w] = [waiter[w] EXCEPT !.ch = TRUE])
      BY <1>1 DEF Wake
    <2>3. CASE waiter[w].on = o /\ waiter'[w] = [waiter[w] EXCEPT !.ch = TRUE]
      BY <2>1, <2>3 DEF Waiter
    <2> QED BY <2>1, <2>2, <2>3
  <1>4. TypeOK'
    <2>1. waiter' \in [Waiters -> Waiter]
      BY <1>1, <1>3 DEF Wake
    <2>2. inbox' \subseteq Ops
      BY <1>2 DEF RowsMove, OperationsInv, TypeOK
    <2> QED BY <1>1, <1>2, <2>1, <2>2 DEF RowsMove, OperationsInv, TypeOK
  <1>5. NoticeInv'
    <2>1. \A x \in inbox' : Settled(x)'
      BY <1>2, SettledStays DEF RowsMove, OperationsInv, NoticeInv, Settled, TypeOK
    <2>2. Settled(o)'
      BY <1>2 DEF Errs, Settled
    <2>3. ASSUME NEW w \in Waiters PROVE
           /\ waiter'[w].ch => /\ waiter'[w].on \in Ops
                               /\ op'[waiter'[w].on].st \in {"done", "deleted"}
           /\ waiter'[w].pc \in {"read", "wait"} => waiter'[w].on \in Ops
           /\ waiter'[w].by = "wake" => waiter'[w].ans # "pending"
      <3>1. /\ waiter[w].ch => waiter[w].on \in Ops /\ Settled(waiter[w].on)
            /\ waiter[w].pc \in {"read", "wait"} => waiter[w].on \in Ops
            /\ waiter[w].by = "wake" => waiter[w].ans # "pending"
        BY DEF OperationsInv, NoticeInv
      <3>2. waiter[w].ch => op'[waiter[w].on].st \in {"done", "deleted"}
        BY <1>2, <3>1, SettledStays DEF Settled
      <3> QED BY <1>3, <2>2, <3>1, <3>2 DEF Settled
    <2> QED BY <2>1, <2>3 DEF NoticeInv, Settled
  <1> QED BY <1>1, <1>2, <1>4, <1>5, IdleWork, DomainsStay

(* Clients, recovery and domains. *)
LEMMA ClientSteps ==
  ASSUME OperationsInv, NEW o \in Ops,
         \/ DeleteOperation(o) \/ RecoverFail(o)
         \/ o \in PollOps /\ (VerifyDomain(o) \/ DeleteDomain(o))
  PROVE  OperationsInv'
  <1>1. ASSUME RowsMove, \A x \in Ops : op'[x] = op[x] \/ Errs(x) \/ Deletes(x),
               UNCHANGED <<job, pc, eff, server, restarts, conn, waiter>>, DomainsFollow,
               abandoned' \subseteq Ops,
               dom' \in [PollOps -> {"PENDING", "VERIFIED", "FAILED", "DELETED"}]
        PROVE  OperationsInv'
    <2>1. inbox' \subseteq Ops
      BY <1>1 DEF RowsMove, OperationsInv, TypeOK
    <2>2. TypeOK'
      BY <1>1, <2>1 DEF RowsMove, OperationsInv, TypeOK
    <2> QED BY <1>1, <2>2, NoticeKeeps, IdleWork
  <1>2. CASE DeleteOperation(o)
    <2>1. [op[o] EXCEPT !.st = "deleted"] \in Op
          /\ [op[o] EXCEPT !.st = "deleted"].st = "deleted"
          /\ [op[o] EXCEPT !.st = "deleted"].res = op[o].res
      BY RowForms DEF OperationsInv, Op
    <2>2. /\ op' = [x \in Ops |-> IF x = o THEN [op[o] EXCEPT !.st = "deleted"] ELSE op[x]]
          /\ inbox' = inbox
      BY <1>2 DEF DeleteOperation, Write, DoneEdge, OperationsInv, TypeOK
    <2>3. RowsMove /\ \A x \in Ops : op'[x] = op[x] \/ Deletes(x)
      BY <1>2, <2>1, <2>2 DEF DeleteOperation, RowsMove, Deletes, OperationsInv, TypeOK
    <2> QED BY <1>1, <1>2, <2>3, DomainsStay DEF DeleteOperation, work, cloud, OperationsInv, TypeOK
  <1>3. CASE RecoverFail(o)
    <2>1. RowsMove /\ \A x \in Ops : op'[x] = op[x] \/ Errs(x)
      BY <1>3, WriteAborted, RowsStay DEF RecoverFail, OperationsInv
    <2> QED BY <1>1, <1>3, <2>1, DomainsStay DEF RecoverFail, work, OperationsInv, TypeOK
  <1>4. CASE o \in PollOps /\ VerifyDomain(o)
    <2>1. DomainsFollow /\ dom' \in [PollOps -> {"PENDING", "VERIFIED", "FAILED", "DELETED"}]
      BY <1>4 DEF VerifyDomain, DomainsFollow, OperationsInv, TypeOK
    <2> QED BY <1>1, <1>4, <2>1, RowsStay DEF VerifyDomain, cloud, OperationsInv, TypeOK
  <1>5. CASE o \in PollOps /\ DeleteDomain(o)
    <2>1. DomainsFollow /\ dom' \in [PollOps -> {"PENDING", "VERIFIED", "FAILED", "DELETED"}]
      BY <1>5 DEF DeleteDomain, DomainsFollow, OperationsInv, TypeOK
    <2>2. RowsMove /\ \A x \in Ops : op'[x] = op[x] \/ Errs(x)
      BY <1>5, WriteCancelled DEF DeleteDomain, OperationsInv
    <2> QED BY <1>1, <1>5, <2>1, <2>2 DEF DeleteDomain, cloud, OperationsInv, TypeOK
  <1> QED BY <1>2, <1>3, <1>4, <1>5

-----------------------------------------------------------------------------
(* The waiters and pivox-cloud. *)

(* What a WaitOperation call may hold. *)
GoodWaiter(v) ==
    /\ v \in Waiter
    /\ v.ch => v.on \in Ops /\ Settled(v.on)
    /\ v.pc \in {"read", "wait"} => v.on \in Ops
    /\ v.by = "wake" => v.ans # "pending"

(* Steps of pivox-cloud that commit nothing. *)
LEMMA CloudFrame ==
  ASSUME OperationsInv, op' = op, inbox' \subseteq inbox, UNCHANGED work,
         server' \in {"booting", "recovering", "up"}, abandoned' \subseteq Ops,
         restarts' \in 0..MaxRestarts, conn' \in BOOLEAN,
         waiter' \in [Waiters -> Waiter], \A w \in Waiters : GoodWaiter(waiter'[w])
  PROVE  OperationsInv'
  <1>1. RowsMove /\ UNCHANGED <<job, pc, eff>> /\ DomainsFollow
    BY DomainsStay DEF OperationsInv, TypeOK, RowsMove, work
  <1>2. TypeOK'
    BY DEF OperationsInv, TypeOK, work
  <1>3. NoticeInv'
    BY DEF OperationsInv, NoticeInv, GoodWaiter, Settled
  <1> QED BY <1>1, <1>2, <1>3, IdleWork

(* The invariant, of one call. *)
LEMMA WaitersGood == OperationsInv => \A w \in Waiters : GoodWaiter(waiter[w])
  BY DEF OperationsInv, TypeOK, NoticeInv, GoodWaiter

(* One call moves. *)
LEMMA WaiterFrame ==
  ASSUME OperationsInv, NEW w \in Waiters, NEW v, GoodWaiter(v),
         waiter' = [waiter EXCEPT ![w] = v],
         UNCHANGED <<op, inbox, work, server, abandoned, restarts, conn>>
  PROVE  OperationsInv'
  <1>1. waiter' \in [Waiters -> Waiter] /\ \A x \in Waiters : GoodWaiter(waiter'[x])
    BY WaitersGood DEF OperationsInv, TypeOK, GoodWaiter
  <1> QED BY <1>1, CloudFrame DEF OperationsInv, TypeOK

(* WaitOperation. *)
LEMMA WaitSteps ==
  ASSUME OperationsInv, NEW w \in Waiters,
         (\E o \in Ops : WaitRead(w, o)) \/ WaitRegister(w) \/ WaitWoken(w) \/ WaitDeadline(w)
  PROVE  OperationsInv'
  <1>1. ASSUME NEW o \in Ops, WaitRead(w, o) PROVE OperationsInv'
    <2> DEFINE v == IF op[o].st = "pending" THEN [Idle EXCEPT !.pc = "read", !.on = o]
                    ELSE [Idle EXCEPT !.pc = "returned", !.on = o, !.by = "read", !.ans = op[o].st]
    <2>1. op[o].st \in {"none", "pending", "done", "deleted"}
      BY DEF OperationsInv, TypeOK, Op
    <2>2. v \in Waiter /\ ~v.ch /\ v.on = o /\ v.by # "wake"
      BY <2>1 DEF Idle, Waiter
    <2>3. waiter' = [waiter EXCEPT ![w] = v] /\ UNCHANGED <<op, inbox, work, server, abandoned, restarts, conn>>
      BY <1>1 DEF WaitRead
    <2> HIDE DEF v
    <2>4. GoodWaiter(v)
      BY <2>2 DEF GoodWaiter
    <2> QED BY <2>3, <2>4, WaiterFrame
  <1>2. CASE WaitRegister(w)
    <2> DEFINE v == [waiter[w] EXCEPT !.pc = "wait"]
    <2>1. GoodWaiter(waiter[w]) /\ waiter[w].pc = "read"
      BY <1>2, WaitersGood DEF WaitRegister
    <2>2. /\ v \in Waiter /\ v.ch = waiter[w].ch /\ v.on = waiter[w].on /\ v.by = waiter[w].by
          /\ v.ans = waiter[w].ans
      BY <2>1 DEF GoodWaiter, Waiter
    <2>3. waiter' = [waiter EXCEPT ![w] = v] /\ UNCHANGED <<op, inbox, work, server, abandoned, restarts, conn>>
      BY <1>2 DEF WaitRegister
    <2> HIDE DEF v
    <2>4. GoodWaiter(v)
      BY <2>1, <2>2 DEF GoodWaiter
    <2> QED BY <2>3, <2>4, WaiterFrame
  <1>3. ASSUME NEW by \in {"wake", "deadline"}, Return(w, by), waiter[w].pc = "wait",
               by = "wake" => waiter[w].ch,
               UNCHANGED <<op, inbox, work, server, abandoned, restarts, conn>>
        PROVE  OperationsInv'
    <2> DEFINE ans == op[waiter[w].on].st
               v == [waiter[w] EXCEPT !.pc = "returned", !.by = by, !.ans = ans]
    <2>1. GoodWaiter(waiter[w])
      BY WaitersGood
    <2>2. ans \in {"none", "pending", "done", "deleted"} /\ (by = "wake" => ans # "pending")
      BY <1>3, <2>1 DEF GoodWaiter, Settled, OperationsInv, TypeOK, Op
    <2>3. waiter' = [waiter EXCEPT ![w] = v]
      BY <1>3 DEF Return
    <2> HIDE DEF ans
    <2>4. /\ v \in Waiter /\ v.pc = "returned" /\ v.ch = waiter[w].ch /\ v.on = waiter[w].on
          /\ v.by = by /\ v.ans = ans
      BY <1>3, <2>1, <2>2 DEF GoodWaiter, Waiter
    <2> HIDE DEF v
    <2>5. GoodWaiter(v)
      BY <2>1, <2>2, <2>4 DEF GoodWaiter
    <2> QED BY <1>3, <2>3, <2>5, WaiterFrame
  <1>4. ASSUME WaitWoken(w) \/ WaitDeadline(w) PROVE OperationsInv'
    BY <1>3, <1>4 DEF WaitWoken, WaitDeadline
  <1> QED BY <1>1, <1>2, <1>4

(* Dispatch, the LISTEN connection, restart and recovery. *)
LEMMA CloudSteps ==
  ASSUME OperationsInv,
         (\E o \in Ops : Dispatch(o)) \/ Disconnect \/ Reconnect \/ Restart \/ RecoverList \/ Serve
  PROVE  OperationsInv'
  <1>1. \A w \in Waiters : GoodWaiter(waiter[w])
    BY WaitersGood
  <1>2. ASSUME NEW o \in Ops, Dispatch(o) PROVE OperationsInv'
    <2>1. Settled(o)
      BY <1>2 DEF Dispatch, OperationsInv, NoticeInv
    <2>2. ASSUME NEW w \in Waiters PROVE GoodWaiter(waiter'[w])
      <3>1. \/ waiter'[w] = waiter[w]
            \/ waiter[w].on = o /\ waiter'[w] = [waiter[w] EXCEPT !.ch = TRUE]
        BY <1>2 DEF Dispatch, Dispatched, Wake
      <3>2. CASE waiter[w].on = o /\ waiter'[w] = [waiter[w] EXCEPT !.ch = TRUE]
        <4>1. /\ waiter'[w] \in Waiter /\ waiter'[w].on = o /\ waiter'[w].by = waiter[w].by
              /\ waiter'[w].ans = waiter[w].ans
          BY <1>1, <3>2 DEF GoodWaiter, Waiter
        <4> QED BY <1>1, <2>1, <4>1 DEF GoodWaiter
      <3> QED BY <1>1, <3>1, <3>2
    <2>3. waiter' \in [Waiters -> Waiter]
      BY <1>2, <2>2 DEF Dispatch, Dispatched, Wake, GoodWaiter
    <2> QED BY <1>2, <2>2, <2>3, CloudFrame DEF Dispatch, OperationsInv, TypeOK
  <1>3. ASSUME Disconnect \/ Reconnect \/ RecoverList \/ Serve PROVE OperationsInv'
    BY <1>1, <1>3, CloudFrame DEF Disconnect, Reconnect, RecoverList, Serve, OperationsInv, TypeOK
  <1>4. CASE Restart
    <2>1. ASSUME NEW w \in Waiters PROVE GoodWaiter(waiter'[w])
      <3>1. waiter'[w] = waiter[w] \/ waiter'[w] = [waiter[w] EXCEPT !.pc = "lost", !.ch = FALSE]
        BY <1>4 DEF Restart
      <3>2. CASE waiter'[w] = [waiter[w] EXCEPT !.pc = "lost", !.ch = FALSE]
        <4>1. /\ waiter'[w] \in Waiter /\ ~waiter'[w].ch /\ waiter'[w].pc = "lost"
              /\ waiter'[w].by = waiter[w].by /\ waiter'[w].ans = waiter[w].ans
          BY <1>1, <3>2 DEF GoodWaiter, Waiter
        <4> QED BY <1>1, <4>1 DEF GoodWaiter
      <3> QED BY <1>1, <3>1, <3>2
    <2>2. waiter' \in [Waiters -> Waiter]
      BY <1>4, <2>1 DEF Restart, GoodWaiter
    <2>3. restarts' \in 0..MaxRestarts
      <3>1. restarts \in 0..MaxRestarts /\ restarts < MaxRestarts /\ restarts' = restarts + 1
        BY <1>4 DEF Restart, OperationsInv, TypeOK
      <3> QED BY <3>1, BoundsAssumption
    <2> QED BY <1>4, <2>1, <2>2, <2>3, CloudFrame DEF Restart, OperationsInv, TypeOK
  <1> QED BY <1>2, <1>3, <1>4

-----------------------------------------------------------------------------
(* The jobs. *)

(* The step of o's job; the other operations are bystanders, some of which  *)
(* an organization delete cancels.                                          *)
LEMMA JobFrame ==
  ASSUME OperationsInv, NEW o \in Ops, RowsMove,
         \A x \in Ops \ {o} : /\ op'[x] = op[x] \/ Errs(x)
                              /\ job'[x] = job[x] /\ pc'[x] = pc[x] /\ eff'[x] = eff[x],
         DomainsFollow, OpInv(o)', UNCHANGED cloud,
         job' \in [Ops -> Job],
         pc' \in [Ops -> {"idle", "start", "domain", "expire", "complete", "fail",
                          "revoke", "erase", "refuse", "finish"}],
         eff' \in [Ops -> 0..2],
         dom' \in [PollOps -> {"PENDING", "VERIFIED", "FAILED", "DELETED"}]
  PROVE  OperationsInv'
  <1>1. inbox' \subseteq Ops
    BY DEF RowsMove, OperationsInv, TypeOK
  <1>2. TypeOK'
    BY <1>1 DEF RowsMove, OperationsInv, TypeOK, cloud
  <1>3. NoticeInv'
    BY NoticeKeeps DEF cloud
  <1>4. \A x \in Ops \ {o} : OpInv(x)'
    BY Bystander
  <1> QED BY <1>2, <1>3, <1>4 DEF OperationsInv

(* A job's state is set. *)
LEMMA JobSet ==
  ASSUME OperationsInv, NEW o \in Ops,
         NEW st \in {"none", "available", "running", "completed", "discarded"},
         job' = [job EXCEPT ![o].st = st]
  PROVE  /\ job' \in [Ops -> Job]
         /\ job'[o].st = st /\ job'[o].att = job[o].att
         /\ \A x \in Ops \ {o} : job'[x] = job[x]
  <1>1. job[o] \in Job
    BY DEF OperationsInv, TypeOK
  <1>2. [job[o] EXCEPT !.st = st] \in Job /\ [job[o] EXCEPT !.st = st].st = st
        /\ [job[o] EXCEPT !.st = st].att = job[o].att
    BY <1>1 DEF Job
  <1> QED BY <1>2 DEF OperationsInv, TypeOK

(* The operation is filed with its job. *)
LEMMA NewStep ==
  ASSUME OperationsInv, NEW o \in Ops, NewLro(o)
  PROVE  OperationsInv'
  <1> DEFINE row == [op[o] EXCEPT !.st = "pending"]
  <1>1. row \in Op /\ row.st = "pending" /\ row.err = op[o].err /\ row.res = op[o].res
    BY RowForms DEF OperationsInv, Op
  <1>2. op' = [x \in Ops |-> IF x = o THEN row ELSE op[x]] /\ inbox' = inbox
    BY DEF NewLro, Write, DoneEdge, OperationsInv, TypeOK
  <1> HIDE DEF row
  <1>3. RowsMove /\ Files(o) /\ \A x \in Ops \ {o} : op'[x] = op[x]
    BY <1>1, <1>2 DEF NewLro, RowsMove, Files, OperationsInv, TypeOK
  <1>4. /\ job' \in [Ops -> Job]
        /\ job'[o].st = "available" /\ job'[o].att = job[o].att
        /\ \A x \in Ops \ {o} : job'[x] = job[x]
    BY JobSet DEF NewLro
  <1>5. pc[o] = "idle" /\ job[o].att < MaxAttempts /\ ~op[o].res /\ op[o].err = "none" /\ job[o].st = "none"
    BY <1>3 DEF Files, OperationsInv, OpInv, JobInv, RowInv
  <1>6. o \in TxOps => eff[o] # 1
    BY <1>3 DEF Files, OperationsInv, OpInv, WorkInv, Settled
  <1>7. OpInv(o)'
    BY <1>3, <1>4, <1>5, <1>6 DEF NewLro, Files, OpInv, RowInv, JobInv, WorkInv, Settled, Applied
  <1> QED BY <1>3, <1>4, <1>7, JobFrame, DomainsStay DEF NewLro, OperationsInv, TypeOK

(* River leases a job. *)
LEMMA LeaseStep ==
  ASSUME OperationsInv, NEW o \in Ops, Lease(o)
  PROVE  OperationsInv'
  <1> DEFINE row == [st |-> "running", att |-> job[o].att + 1]
  <1>1. job[o] \in Job /\ job[o].st = "available" /\ job[o].att < MaxAttempts
    BY DEF Lease, OperationsInv, TypeOK, OpInv, JobInv
  <1>2. row \in Job /\ row.st = "running"
    <2>1. job[o].att \in 0..MaxAttempts
      BY <1>1 DEF Job
    <2>2. job[o].att + 1 \in 0..MaxAttempts
      BY <1>1, <2>1, BoundsAssumption
    <2> QED BY <2>2 DEF Job
  <1>3. job' = [job EXCEPT ![o] = row] /\ pc' = [pc EXCEPT ![o] = "start"]
        /\ UNCHANGED <<op, inbox, eff, dom, cloud>>
    BY DEF Lease, OperationsInv, TypeOK
  <1> HIDE DEF row
  <1>4. job' \in [Ops -> Job] /\ job'[o] = row /\ \A x \in Ops \ {o} : job'[x] = job[x]
    BY <1>2, <1>3 DEF OperationsInv, TypeOK
  <1>5. OpInv(o)'
    BY <1>1, <1>2, <1>3, <1>4 DEF OperationsInv, TypeOK, OpInv, RowInv, JobInv, WorkInv, Settled, Applied
  <1> QED BY <1>3, <1>4, <1>5, JobFrame, RowsStay, DomainsStay DEF OperationsInv, TypeOK

(* An attempt that ends with an error, a timeout or a death: whatever it    *)
(* has committed stays.                                                     *)
LEMMA RetryStep ==
  ASSUME OperationsInv, NEW o \in Ops, Running(o), Retry(o),
         UNCHANGED <<op, inbox, eff, dom, cloud>>
  PROVE  OperationsInv'
  <1>1. PICK st \in {"available", "discarded"} :
          /\ job' = [job EXCEPT ![o].st = st]
          /\ st = "available" => job[o].att < MaxAttempts
    BY DEF Retry
  <1>2. /\ job' \in [Ops -> Job]
        /\ job'[o].st = st /\ job'[o].att = job[o].att
        /\ \A x \in Ops \ {o} : job'[x] = job[x]
    BY <1>1, JobSet
  <1>3. pc' = [pc EXCEPT ![o] = "idle"] /\ job[o].st = "running"
    BY DEF Retry, Running
  <1>4. OpInv(o)'
    BY <1>1, <1>2, <1>3 DEF OperationsInv, TypeOK, OpInv, RowInv, JobInv, WorkInv, Settled, Applied
  <1> QED BY <1>2, <1>3, <1>4, JobFrame, RowsStay, DomainsStay DEF OperationsInv, TypeOK

(* River completes a job whose work has returned. *)
LEMMA FinishStep ==
  ASSUME OperationsInv, NEW o \in Ops, Finish(o)
  PROVE  OperationsInv'
  <1>1. /\ job' \in [Ops -> Job]
        /\ job'[o].st = "completed" /\ job'[o].att = job[o].att
        /\ \A x \in Ops \ {o} : job'[x] = job[x]
    BY JobSet DEF Finish
  <1>2. OpInv(o)'
    BY <1>1 DEF Finish, Running, OperationsInv, TypeOK, OpInv, RowInv, JobInv, WorkInv, Settled, Applied
  <1> QED BY <1>1, <1>2, JobFrame, RowsStay, DomainsStay DEF Finish, OperationsInv, TypeOK

(* The transaction that does the work, settles the operation and completes  *)
(* the job, and may cancel the operations of an organization.               *)
LEMMA TxSteps ==
  ASSUME OperationsInv, NEW o \in Ops, TxComplete(o) \/ TxRefuse(o)
  PROVE  OperationsInv'
  <1>1. o \in TxOps /\ o \notin PollOps /\ o \notin PhaseOps /\ Exists(o) /\ Running(o) /\ pc[o] = "start"
    BY ShapesAssumption DEF TxComplete, TxRefuse
  <1>2. /\ Interrupted(o) \subseteq PollOps /\ o \notin Interrupted(o)
        /\ \A x \in Interrupted(o) : x \in Ops /\ op[x].st = "pending"
    BY <1>1 DEF Interrupted, Ops
  <1>3. /\ job' \in [Ops -> Job]
        /\ job'[o].st = "completed" /\ job'[o].att = job[o].att
        /\ \A x \in Ops \ {o} : job'[x] = job[x]
        /\ pc' = [pc EXCEPT ![o] = "idle"]
    BY JobSet DEF TxComplete, TxRefuse, JobCompleteTx
  <1>4. CASE TxComplete(o)
    <2>1. op' = [x \in Ops |-> IF x = o THEN CompletedRow(o)
                               ELSE IF x \in Interrupted(o) THEN CancelledRow(x) ELSE op[x]]
          /\ inbox' \subseteq inbox \cup {x \in {o} \cup Interrupted(o) : op'[x].st = "done"}
      BY <1>1, <1>2, <1>4 DEF TxComplete, Write, TxRow, DoneEdge
    <2>2. RowsMove /\ Completes(o) /\ \A x \in Ops \ {o} : op'[x] = op[x] \/ Errs(x)
      <3>1. ASSUME NEW x \in Interrupted(o) PROVE x \in Ops /\ op'[x] = CancelledRow(x) /\ Exists(x)
        BY <1>2, <2>1, <3>1 DEF Exists
      <3>2. \A x \in Interrupted(o) : Errs(x)
        BY <3>1, RowForms DEF Errs, OperationsInv
      <3>3. Completes(o)
        BY <1>1, <2>1, RowForms DEF Completes, OperationsInv
      <3>4. op' \in [Ops -> Op]
        BY <2>1, RowForms DEF OperationsInv, TypeOK
      <3>5. \A x \in Ops \ {o} : op'[x] = op[x] \/ Errs(x)
        BY <2>1, <3>2
      <3>6. inbox' \subseteq inbox \cup {x \in Ops : op'[x].st = "done"}
        BY <1>2, <2>1
      <3> QED BY <3>3, <3>4, <3>5, <3>6 DEF RowsMove
    <2>3. DomainsFollow /\ dom' \in [PollOps -> {"PENDING", "VERIFIED", "FAILED", "DELETED"}]
      BY <1>4 DEF TxComplete, DomainsFollow, OperationsInv, TypeOK
    <2>4. eff' = [eff EXCEPT ![o] = 1] /\ UNCHANGED cloud
      BY <1>4 DEF TxComplete
    <2>5. OpInv(o)'
      BY <1>1, <1>3, <2>2, <2>4 DEF Running, Completes, OperationsInv, TypeOK, OpInv, RowInv, JobInv, WorkInv,
                                     Settled, Applied
    <2> QED BY <1>3, <2>2, <2>3, <2>4, <2>5, JobFrame DEF OperationsInv, TypeOK
  <1>5. CASE TxRefuse(o)
    <2>1. op' = [x \in Ops |-> IF x = o THEN FailedRow(o)
                               ELSE IF x \in Interrupted(o) THEN CancelledRow(x) ELSE op[x]]
          /\ inbox' \subseteq inbox \cup {x \in {o} \cup Interrupted(o) : op'[x].st = "done"}
      BY <1>1, <1>2, <1>5 DEF TxRefuse, Write, TxRow, DoneEdge
    <2>2. RowsMove /\ Errs(o) /\ \A x \in Ops \ {o} : op'[x] = op[x] \/ Errs(x)
      <3>1. ASSUME NEW x \in Interrupted(o) PROVE x \in Ops /\ op'[x] = CancelledRow(x) /\ Exists(x)
        BY <1>2, <2>1, <3>1 DEF Exists
      <3>2. \A x \in Interrupted(o) : Errs(x)
        BY <3>1, RowForms DEF Errs, OperationsInv
      <3>3. Errs(o)
        BY <1>1, <2>1, RowForms DEF Errs, OperationsInv
      <3>4. op' \in [Ops -> Op]
        BY <2>1, RowForms DEF OperationsInv, TypeOK
      <3>5. \A x \in Ops \ {o} : op'[x] = op[x] \/ Errs(x)
        BY <2>1, <3>2
      <3>6. inbox' \subseteq inbox \cup {x \in Ops : op'[x].st = "done"}
        BY <1>2, <2>1
      <3> QED BY <3>3, <3>4, <3>5, <3>6 DEF RowsMove
    <2>3. UNCHANGED <<eff, dom, cloud>>
      BY <1>5 DEF TxRefuse
    <2>4. OpInv(o)'
      BY <1>1, <1>3, <2>2, <2>3 DEF Running, Errs, OperationsInv, TypeOK, OpInv, RowInv, JobInv, WorkInv,
                                     Settled, Applied
    <2> QED BY <1>3, <2>2, <2>3, <2>4, JobFrame, DomainsStay DEF OperationsInv, TypeOK
  <1> QED BY <1>4, <1>5

(* An attempt goes on to another step, job and domain unchanged. *)
LEMMA GotoFrame ==
  ASSUME OperationsInv, NEW o \in Ops, RowsMove, \A x \in Ops \ {o} : op'[x] = op[x],
         NEW step \in {"idle", "start", "domain", "expire", "complete", "fail",
                       "revoke", "erase", "refuse", "finish"},
         Goto(o, step), UNCHANGED <<job, eff, cloud>>,
         DomainsFollow, dom' \in [PollOps -> {"PENDING", "VERIFIED", "FAILED", "DELETED"}],
         OpInv(o)'
  PROVE  OperationsInv'
  BY JobFrame DEF Goto, OperationsInv, TypeOK

(* One tick of the domain poll. *)
LEMMA PollSteps ==
  ASSUME OperationsInv, NEW o \in PollOps,
         PollCheck(o) \/ PollDomain(o) \/ PollExpire(o) \/ PollFail(o)
  PROVE  OperationsInv'
  <1> USE DEF Goto, Running
  <1>1. o \in Ops /\ o \notin TxOps /\ o \notin PhaseOps /\ OpInv(o) /\ dom[o] \in {"PENDING", "VERIFIED", "FAILED", "DELETED"}
    BY ShapesAssumption DEF Ops, OperationsInv, TypeOK
  <1>2. pc \in [Ops -> {"idle", "start", "domain", "expire", "complete", "fail",
                        "revoke", "erase", "refuse", "finish"}]
    BY DEF OperationsInv, TypeOK
  <1>3. CASE PollCheck(o)
    <2>1. PICK step \in {"finish", "domain"} : /\ Goto(o, step) /\ (step = "domain" => op[o].st = "pending")
                                               /\ UNCHANGED <<op, inbox, job, eff, dom, cloud>>
      BY <1>3 DEF PollCheck, Exists
    <2>2. OpInv(o)'
      BY <1>1, <1>2, <1>3, <2>1 DEF PollCheck, OpInv, RowInv, JobInv, WorkInv, Settled, Applied
    <2> QED BY <1>1, <2>1, <2>2, GotoFrame, RowsStay, DomainsStay DEF OperationsInv, TypeOK
  <1>4. CASE PollDomain(o)
    <2>1. op' = op /\ inbox' = inbox /\ UNCHANGED <<job, eff, dom, cloud>>
      BY <1>1, <1>4, RefreshStays DEF PollDomain
    <2>2. PICK step \in {"complete", "fail", "expire", "start"} :
            Goto(o, step) /\ (step = "complete" => dom[o] = "VERIFIED")
      BY <1>4 DEF PollDomain
    <2>3. OpInv(o)'
      BY <1>1, <1>2, <1>4, <2>1, <2>2 DEF PollDomain, OpInv, RowInv, JobInv, WorkInv, Settled, Applied
    <2> QED BY <1>1, <2>1, <2>2, <2>3, GotoFrame, RowsStay, DomainsStay DEF OperationsInv, TypeOK
  <1>5. CASE PollExpire(o)
    <2>1. DomainsFollow /\ dom' \in [PollOps -> {"PENDING", "VERIFIED", "FAILED", "DELETED"}]
      BY <1>1, <1>5 DEF PollExpire, DomainsFollow, OperationsInv, TypeOK
    <2>2. Goto(o, "fail") /\ UNCHANGED <<op, inbox, job, eff, cloud>>
      BY <1>1, <1>5, RefreshStays DEF PollExpire
    <2>3. OpInv(o)'
      BY <1>1, <1>2, <1>5, <2>1, <2>2 DEF PollExpire, DomainsFollow, OpInv, RowInv, JobInv, WorkInv, Settled, Applied
    <2> QED BY <1>1, <2>1, <2>2, <2>3, GotoFrame, RowsStay
  <1>6. CASE PollFail(o)
    <2>1. RowsMove /\ (op'[o] = op[o] \/ Errs(o)) /\ \A x \in Ops \ {o} : op'[x] = op[x]
      BY <1>1, <1>6, WriteFailed, RowsStay DEF PollFail, OperationsInv
    <2>2. Goto(o, "finish") /\ UNCHANGED <<job, eff, dom, cloud>>
      BY <1>6 DEF PollFail
    <2>3. OpInv(o)'
      BY <1>1, <1>2, <1>6, <2>1, <2>2 DEF PollFail, Errs, Exists, OpInv, RowInv, JobInv, WorkInv, Settled, Applied
    <2> QED BY <1>1, <2>1, <2>2, <2>3, GotoFrame, DomainsStay DEF OperationsInv, TypeOK
  <1> QED BY <1>3, <1>4, <1>5, <1>6

(* The operation is completed after the poll or the phases. *)
LEMMA CompleteStep ==
  ASSUME OperationsInv, NEW o \in Ops, Complete(o)
  PROVE  OperationsInv'
  <1>1. RowsMove /\ Completes(o) /\ \A x \in Ops \ {o} : op'[x] = op[x]
    BY WriteCompleted DEF Complete, OperationsInv
  <1>2. Goto(o, "finish") /\ UNCHANGED <<job, eff, dom, cloud>> /\ pc[o] = "complete"
    BY DEF Complete
  <1>3. OpInv(o)'
    BY <1>1, <1>2 DEF Goto, Completes, Exists, OperationsInv, TypeOK, OpInv, RowInv, JobInv, WorkInv, Settled, Applied
  <1> QED BY <1>1, <1>2, <1>3, GotoFrame, DomainsStay DEF OperationsInv, TypeOK

(* The phases of an account deletion. *)
LEMMA PhaseSteps ==
  ASSUME OperationsInv, NEW o \in Ops,
         PhaseValidate(o) \/ PhaseRevoke(o) \/ PhaseErase(o) \/ PhaseFail(o)
  PROVE  OperationsInv'
  <1> USE DEF Goto, Running
  <1>1. OpInv(o) /\ eff[o] \in 0..2
    BY DEF OperationsInv, TypeOK
  <1>2. pc \in [Ops -> {"idle", "start", "domain", "expire", "complete", "fail",
                        "revoke", "erase", "refuse", "finish"}]
    BY DEF OperationsInv, TypeOK
  <1>3. o \in PhaseOps /\ o \notin TxOps /\ o \notin PollOps
    BY <1>1, ShapesAssumption DEF Ops, PhaseValidate, PhaseRevoke, PhaseErase, PhaseFail, OpInv, JobInv
  <1>4. ASSUME NEW step \in {"revoke", "refuse"}, Goto(o, step), job[o].st = "running",
               UNCHANGED <<op, inbox, job, eff, dom, cloud>>
        PROVE  OperationsInv'
    <2>1. OpInv(o)'
      BY <1>1, <1>2, <1>3, <1>4 DEF OpInv, RowInv, JobInv, WorkInv, Settled, Applied
    <2> QED BY <1>4, <2>1, GotoFrame, RowsStay, DomainsStay DEF OperationsInv, TypeOK
  <1>8. CASE PhaseFail(o)
    <2>1. Exists(o) /\ Write({o}, FailedRow) /\ Goto(o, "finish") /\ UNCHANGED <<job, eff, dom, cloud>>
      BY <1>8 DEF PhaseFail
    <2>2. RowsMove /\ Errs(o) /\ \A x \in Ops \ {o} : op'[x] = op[x]
      BY <2>1, WriteFailed DEF OperationsInv
    <2>3. OpInv(o)'
      BY <1>1, <1>2, <1>3, <1>8, <2>1, <2>2
         DEF PhaseFail, Errs, Exists, OpInv, RowInv, JobInv, WorkInv, Settled, Applied
    <2> QED BY <2>1, <2>2, <2>3, GotoFrame, DomainsStay DEF OperationsInv, TypeOK
  <1>5. ASSUME NEW n \in 0..2, eff' = [eff EXCEPT ![o] = n], eff[o] = 2 => n = 2,
               NEW step \in {"erase", "complete"}, step = "complete" => n = 2, Goto(o, step),
               pc[o] \in {"revoke", "erase"}, UNCHANGED <<op, inbox, job, dom, cloud>>
        PROVE  OperationsInv'
    <2>1. OpInv(o)'
      BY <1>1, <1>2, <1>3, <1>5 DEF OpInv, RowInv, JobInv, WorkInv, Settled, Applied, OperationsInv, TypeOK
    <2> QED BY <1>5, <2>1, JobFrame, RowsStay, DomainsStay DEF OperationsInv, TypeOK
  <1>6. CASE PhaseRevoke(o)
    <2> DEFINE n == IF eff[o] = 0 THEN 1 ELSE eff[o]
    <2>1. n \in 0..2 /\ (eff[o] = 2 => n = 2)
      BY <1>1
    <2>2. eff' = [eff EXCEPT ![o] = n]
      BY <1>6 DEF PhaseRevoke
    <2> HIDE DEF n
    <2> QED BY <1>5, <1>6, <2>1, <2>2 DEF PhaseRevoke
  <1>7. CASE PhaseErase(o)
    BY <1>1, <1>4, <1>5, <1>7 DEF PhaseErase
  <1>9. CASE PhaseValidate(o)
    BY <1>4, <1>9 DEF PhaseValidate
  <1> QED BY <1>6, <1>7, <1>8, <1>9

(* Every step preserves the invariant. *)
LEMMA OperationsStep == OperationsInv /\ [Next]_vars => OperationsInv'
  <1> SUFFICES ASSUME OperationsInv, [Next]_vars PROVE OperationsInv'
    OBVIOUS
  <1>1. CASE UNCHANGED vars
    BY <1>1, CloudFrame, WaitersGood DEF vars, work, OperationsInv, TypeOK
  <1>2. ASSUME NEW o \in Ops, AttemptFails(o) \/ JobTimeout(o) \/ \E step \in {"start", "complete", "refuse"} : Vanished(o, step)
        PROVE  OperationsInv'
    BY <1>2, RetryStep DEF AttemptFails, JobTimeout, Vanished
  <1>3. ASSUME NEW o \in Ops, Work(o) PROVE OperationsInv'
    <2>1. PollCheck(o) => o \in PollOps
      BY DEF PollCheck
    <2> QED BY <1>2, <1>3, <2>1, FinishStep, TxSteps, CompleteStep, PhaseSteps, PollSteps DEF Work
  <1>4. PollOps \subseteq Ops
    BY DEF Ops
  <1>5. ASSUME NEW o \in Ops,
               \/ NewLro(o) \/ CancelOperation(o) \/ DeleteOperation(o) \/ Lease(o) \/ Work(o)
               \/ AttemptFails(o) \/ JobTimeout(o) \/ Dispatch(o) \/ RecoverFail(o)
        PROVE  OperationsInv'
    BY <1>2, <1>3, <1>5, NewStep, CancelStep, ClientSteps, LeaseStep, CloudSteps
  <1>6. ASSUME NEW o \in PollOps, VerifyDomain(o) \/ DeleteDomain(o) PROVE OperationsInv'
    BY <1>4, <1>6, ClientSteps
  <1> QED BY <1>1, <1>5, <1>6, WaitSteps, CloudSteps DEF Next

-----------------------------------------------------------------------------
(* Rows, jobs, work and notices agree in every behaviour. *)
THEOREM OperationsCorrect == Spec => []OperationsInv
  <1> QED BY OperationsInit, OperationsStep, PTL DEF Spec

(* What the row says when a client is shown a response. *)
LEMMA ResponseMeans ==
  ASSUME OperationsInv, NEW o \in Ops, Visible(o) = "response"
  PROVE  op[o] \in Op /\ op[o].st = "done" /\ op[o].err = "none" /\ op[o].res /\ Applied(o)
  <1>1. op[o] \in Op /\ op[o].st = "done" /\ op[o].err = "none"
    BY DEF Visible, OperationsInv, TypeOK, Op
  <1> QED BY <1>1 DEF OperationsInv, OpInv, RowInv

(* A response is shown only for work that was done. *)
LEMMA ResponseIsTrue == OperationsInv => SuccessMeansApplied
  <1> SUFFICES ASSUME OperationsInv, NEW o \in Ops, Visible(o) = "response"
               PROVE  CASE o \in TxOps -> eff[o] = 1
                        [] o \in PhaseOps -> eff[o] = 2
                        [] OTHER -> dom[o] \in {"VERIFIED", "DELETED"}
    BY DEF SuccessMeansApplied
  <1> QED BY ResponseMeans, ShapesAssumption DEF Applied, Ops

(* Nothing is half committed, and a response is shown only for work that    *)
(* was done, wherever the attempts of the job are interrupted.              *)
THEOREM WorkIsSound == Spec => []WorkAgrees
  <1>1. OperationsInv => WorkAgrees
    <2> SUFFICES ASSUME OperationsInv PROVE WorkAgrees
      OBVIOUS
    <2>1. NoHalfCommit
      BY DEF OperationsInv, OpInv, WorkInv, Settled, NoHalfCommit, Ops
    <2> QED BY <2>1, ResponseIsTrue DEF OperationsInv, WorkAgrees
  <1> QED BY <1>1, OperationsCorrect, PTL

(* A completed job has settled its operation, and a WaitOperation that was  *)
(* woken answers with one that is done or gone.                             *)
THEOREM AnswersAreSound == Spec => []AnswersAgree
  <1>1. OperationsInv => AnswersAgree
    <2> SUFFICES ASSUME OperationsInv PROVE AnswersAgree
      OBVIOUS
    <2>1. CompletedJobSettled
      BY DEF OperationsInv, OpInv, WorkInv, Settled, CompletedJobSettled, Ops
    <2>2. WokenSeesDone
      BY DEF OperationsInv, NoticeInv, WokenSeesDone
    <2> QED BY <2>1, <2>2, ResponseIsTrue DEF OperationsInv, AnswersAgree
  <1> QED BY <1>1, OperationsCorrect, PTL

(* Whoever would replace a response finds that it cannot: the work it needs *)
(* to be undone is done, or the row is not pending.                         *)
LEMMA ResponseStays ==
  ASSUME OperationsInv, Next, NEW o \in Ops, Visible(o) = "response", o \notin abandoned,
         pc[o] # "refuse"
  PROVE  Visible(o)' \in {"response", "deleted"}
  <1>1. op[o] \in Op /\ op[o].st = "done" /\ op[o].err = "none" /\ op[o].res /\ Applied(o)
    BY ResponseMeans
  <1>2. op \in [Ops -> Op] /\ OpInv(o) /\ PollOps \subseteq Ops
    BY DEF OperationsInv, TypeOK, Ops
  <1>3. SUFFICES op'[o] = op[o] \/ op'[o].st = "deleted" \/ (op'[o].st = "done" /\ op'[o].err = "none")
    BY <1>1 DEF Visible
  <1>4. ASSUME NEW x \in Ops,
               NewLro(x) \/ CancelOperation(x) \/ DeleteOperation(x) \/ Lease(x)
                 \/ AttemptFails(x) \/ JobTimeout(x) \/ Dispatch(x) \/ RecoverFail(x)
        PROVE  op'[o] = op[o] \/ op'[o].st = "deleted"
    <2>1. CASE NewLro(x)
      BY <1>1, <1>2, <2>1 DEF NewLro
    <2>2. CASE CancelOperation(x)
      BY <1>1, <2>2 DEF CancelOperation, Cancellable, Write
    <2>3. CASE DeleteOperation(x)
      <3>1. [op[o] EXCEPT !.st = "deleted"].st = "deleted"
        BY <1>1 DEF Op
      <3> QED BY <1>2, <2>3, <3>1 DEF DeleteOperation
    <2>4. CASE RecoverFail(x)
      BY <2>4 DEF RecoverFail, Write
    <2> QED BY <1>4, <2>1, <2>2, <2>3, <2>4 DEF Lease, AttemptFails, JobTimeout, Dispatch
  <1>5. ASSUME NEW x \in Ops, Work(x)
        PROVE  op'[o] = op[o] \/ (op'[o].st = "done" /\ op'[o].err = "none")
    <2>1. CASE TxComplete(x) \/ TxRefuse(x)
      <3>1. x # o
        BY <1>1, <1>2, <2>1 DEF TxComplete, TxRefuse, Running, Applied, OpInv, WorkInv
      <3>2. o \notin {x} \cup Interrupted(x)
        BY <1>1, <3>1 DEF Interrupted
      <3> QED BY <2>1, <3>2 DEF TxComplete, TxRefuse, Write
    <2>2. CASE Complete(x)
      BY <1>1, <2>2, WriteCompleted DEF Complete, OperationsInv, Completes
    <2>3. CASE PhaseFail(x)
      <3>1. x # o
        BY <2>3 DEF PhaseFail
      <3> QED BY <2>3, <3>1 DEF PhaseFail, Write
    <2>4. CASE x \in PollOps /\ (PollDomain(x) \/ PollExpire(x))
      BY <1>2, <2>4, RefreshStays DEF PollDomain, PollExpire
    <2>5. CASE x \in PollOps /\ PollFail(x)
      <3>1. x # o
        BY <1>1, <1>2, <2>5 DEF PollFail, OpInv, WorkInv
      <3> QED BY <2>5, <3>1 DEF PollFail, Write
    <2> QED BY <1>5, <2>1, <2>2, <2>3, <2>4, <2>5
            DEF Work, Finish, PhaseValidate, PhaseRevoke, PhaseErase, Vanished, PollCheck
  <1>6. ASSUME NEW x \in PollOps, VerifyDomain(x) \/ DeleteDomain(x) PROVE op'[o] = op[o]
    BY <1>1, <1>6 DEF VerifyDomain, DeleteDomain, Write
  <1> QED BY <1>4, <1>5, <1>6
          DEF Next, WaitRead, WaitRegister, WaitWoken, WaitDeadline,
              Disconnect, Reconnect, Restart, RecoverList, Serve

(* A success that was shown is final: no cancel, late failure or repeated   *)
(* attempt replaces it, but for RecoverPending and the account deletion     *)
(* that finds its identity gone.                                            *)
THEOREM SuccessIsFinal == Spec => SuccessFinal
  <1>1. OperationsInv /\ [Next]_vars
          => [\A o \in Ops : Visible(o) = "response" =>
                Visible(o)' \in {"response", "deleted"} \/ o \in abandoned \/ pc[o] = "refuse"]_vars
    BY ResponseStays
  <1> QED BY <1>1, OperationsCorrect, PTL DEF Spec, SuccessFinal
=============================================================================
