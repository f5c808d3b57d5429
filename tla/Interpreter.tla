----------------------------- MODULE Interpreter -----------------------------
(***************************************************************************)
(* One execution of a workflow definition by Interpreter.Run: the tree     *)
(* walk over sequences, conditions, parallel blocks, try/catch and         *)
(* sub-workflows, with one goroutine per parallel branch and a context     *)
(* that a failed sibling or the worker may cancel at any moment.           *)
(*                                                                         *)
(* The definition is a tree of blocks.  It has no loops, so a block is     *)
(* executed at most once and the call stack of every goroutine is the      *)
(* state of the blocks themselves.  What a walk returns is one of          *)
(*   ok     nil                         end    the success-terminate signal *)
(*   fail   a terminal error            retry  a RetryableError            *)
(*   ctx    the error of a context that was cancelled                      *)
(*   timeout   the HTTP client's own timeout                               *)
(* isContextError takes the last two for the same, so no action tells them *)
(* apart; the model keeps both to say where an interruption came from.     *)
(***************************************************************************)
EXTENDS Naturals, Sequences, FiniteSets

CONSTANTS Blocks,      \* blocks of the definition, sub-workflows unfolded
          Top,         \* the run itself
          Kind,        \* kind of each block
          Kids,        \* its child blocks, in order
          Above,       \* its ancestors
          Rethrow,     \* try blocks with rethrow
          Otherwise,   \* conditions whose last child is an else block
          Target,      \* workflow a run or sub-workflow block executes
          MaxDepth     \* maxSubWorkflowDepth

Kinds == {"run", "sub", "seq", "cond", "par", "try", "set", "http", "end", "fail"}
Children(b) == {Kids[b][k] : k \in DOMAIN Kids[b]}
In(b, a) == b = a \/ a \in Above[b]

(* validateUniqueStepIDs: no step occurs twice, so the definition is a tree. *)
ASSUME TreeAssumption ==
    /\ Kind \in [Blocks -> Kinds] /\ Kids \in [Blocks -> Seq(Blocks)]
    /\ Top \in Blocks /\ Above[Top] = {} /\ Above \in [Blocks -> SUBSET Blocks]
    /\ \A b \in Blocks : \A k \in DOMAIN Kids[b] :
          /\ Above[Kids[b][k]] = Above[b] \cup {b}
          /\ \A j \in DOMAIN Kids[b] : Kids[b][j] = Kids[b][k] => j = k
    /\ \A b \in Blocks : b \notin Above[b] /\ In(b, Top)
    /\ \A b \in Blocks : \A a \in Above[b] :
          /\ Above[a] \subseteq Above[b]
          /\ \E k \in DOMAIN Kids[a] : In(b, Kids[a][k])
ASSUME ShapeAssumption ==
    /\ Kind[Top] = "run"
    /\ \A b \in Blocks : Kind[b] \in {"run", "sub", "try"} => Len(Kids[b]) = 2
    /\ \A b \in Blocks : Kind[b] \in {"set", "http", "end", "fail"} => Kids[b] = <<>>
    /\ \A b \in Otherwise : Kids[b] # <<>>
    /\ Rethrow \subseteq Blocks /\ Otherwise \subseteq Blocks
    /\ MaxDepth \in Nat

VARIABLES st,         \* idle, active or done, by block
          at,         \* the child an active block is executing (0: none yet)
          res,        \* what the block's walk returned
          held,       \* the error a try, a run or an errgroup keeps
          cancelled   \* the job's context: worker shutdown or job timeout

vars == <<st, at, res, held, cancelled>>

Results == {"ok", "end", "ctx", "timeout", "retry", "fail"}

TypeOK == /\ st \in [Blocks -> {"idle", "active", "done"}]
          /\ at \in [Blocks -> Nat]
          /\ \A b \in Blocks : at[b] \in 0 .. Len(Kids[b])
          /\ res \in [Blocks -> Results \cup {"none"}]
          /\ held \in [Blocks -> Results \cup {"none"}]
          /\ cancelled \in BOOLEAN

Init == /\ st = [b \in Blocks |-> IF b = Top THEN "active" ELSE "idle"]
        /\ at = [b \in Blocks |-> 0]
        /\ res = [b \in Blocks |-> "none"]
        /\ held = [b \in Blocks |-> "none"]
        /\ cancelled = FALSE

-----------------------------------------------------------------------------
Active(b, kind) == st[b] = "active" /\ Kind[b] = kind
Child(b) == Kids[b][at[b]]
Starting(b) == at[b] = 0
Returned(b) == at[b] > 0 /\ st[Child(b)] = "done"
Failure(r) == r \notin {"ok", "none"}

(* A block's context is done when the job's is, or when the errgroup of an   *)
(* enclosing parallel block has an error.                                    *)
Cancelled(b) == cancelled \/ \E p \in Above[b] : Kind[p] = "par" /\ held[p] # "none"

Return(b, r) ==
    /\ st' = [st EXCEPT ![b] = "done"]
    /\ res' = [res EXCEPT ![b] = r]
    /\ UNCHANGED <<at, held, cancelled>>

Call(b, k) ==
    /\ at' = [at EXCEPT ![b] = k]
    /\ st' = [st EXCEPT ![Kids[b][k]] = "active"]
    /\ UNCHANGED <<res, cancelled>>

-----------------------------------------------------------------------------
(* walkSequence: the context is looked at before every step.                 *)
WalkSequence(b) ==
    /\ Active(b, "seq")
    /\ IF Returned(b) /\ Failure(res[Child(b)]) THEN Return(b, res[Child(b)])
       ELSE /\ Starting(b) \/ Returned(b)
            /\ IF at[b] = Len(Kids[b]) THEN Return(b, "ok")
               ELSE IF Cancelled(b) THEN Return(b, "ctx")
               ELSE Call(b, at[b] + 1) /\ UNCHANGED held

(* What an activity can return.  A set activity fails on a CEL error.  An    *)
(* http activity that is out of attempts, or is refused, is terminal; a      *)
(* database fault while it resolves its connector is retryable; it notices   *)
(* a cancelled context.  The timeout error of Go's HTTP client, which every  *)
(* broker call may meet, matches context.DeadlineExceeded.                   *)
Interrupted(b) == IF Cancelled(b) THEN {"ctx"} ELSE {}
HttpOutcomes(b) == {"ok", "fail", "retry", "timeout"} \cup Interrupted(b)
Outcomes(b) == CASE Kind[b] = "http" -> HttpOutcomes(b)
                 [] Kind[b] = "set" -> {"ok", "fail"}
                 [] Kind[b] = "end" -> {"end"}
                 [] Kind[b] = "fail" -> {"fail"}
                 [] OTHER -> {}

RunActivity(b) ==
    /\ st[b] = "active"
    /\ \E r \in Outcomes(b) : Return(b, r)

(* runCondition: the first branch whose predicate holds, the else block, or  *)
(* nothing; a predicate that does not evaluate is a terminal error.          *)
RunCondition(b) ==
    /\ Active(b, "cond")
    /\ \/ Starting(b) /\ \E k \in DOMAIN Kids[b] : Call(b, k) /\ UNCHANGED held
       \/ Starting(b) /\ b \notin Otherwise /\ Return(b, "ok")
       \/ Starting(b) /\ Return(b, "fail")
       \/ Returned(b) /\ Return(b, res[Child(b)])

-----------------------------------------------------------------------------
(* runParallel: a goroutine per branch ...                                   *)
RunParallel(b) ==
    /\ Active(b, "par") /\ Starting(b)
    /\ st' = [c \in Blocks |-> IF c \in Children(b) THEN "active" ELSE st[c]]
    /\ at' = [at EXCEPT ![b] = Len(Kids[b])]
    /\ UNCHANGED <<res, held, cancelled>>

FirstError_Last(b) == TRUE   \* mutant: a later error replaces the first

(* ... the first error is kept and cancels the group's context (external:    *)
(* errgroup's once) ...                                                      *)
FirstError(b) == held[b] = "none"

GroupError(b, c) ==
    /\ Active(b, "par") /\ c \in Children(b)
    /\ st[c] = "done" /\ Failure(res[c]) /\ res[c] # held[b]
    /\ FirstError(b)
    /\ held' = [held EXCEPT ![b] = res[c]]
    /\ UNCHANGED <<st, at, res, cancelled>>

Joined_First(b) == held[b] # "none" \/ \A c \in Children(b) : st[c] = "done"   \* mutant: no join on error

Joined_AllOk(b) == \A c \in Children(b) : st[c] = "done" /\ res[c] = "ok"   \* mutant: waits for successes

(* ... and Wait returns it when every branch has ended.                      *)
Joined(b) == \A c \in Children(b) : st[c] = "done"

Wait(b) ==
    /\ Active(b, "par") /\ ~Starting(b) /\ Joined(b)
    /\ (\E c \in Children(b) : Failure(res[c])) => held[b] # "none"
    /\ Return(b, IF held[b] = "none" THEN "ok" ELSE held[b])

-----------------------------------------------------------------------------
(* runTry: end and context errors unwind; any other error runs the catch.    *)
Catchable(r) == r \in {"fail", "retry"}

AfterCatch_Handled(b) == "ok"   \* mutant: a catch that fails counts as handled

AfterCatch(b) == LET c == res[Kids[b][2]]
                 IN IF Failure(c) THEN c ELSE IF b \in Rethrow THEN held[b] ELSE "ok"

RunTry(b) ==
    /\ Active(b, "try")
    /\ \/ Starting(b) /\ Call(b, 1) /\ UNCHANGED held
       \/ /\ at[b] = 1 /\ Returned(b)
          /\ LET r == res[Child(b)]
             IN IF Catchable(r) THEN Call(b, 2) /\ held' = [held EXCEPT ![b] = r]
                ELSE Return(b, r)
       \/ at[b] = 2 /\ Returned(b) /\ Return(b, AfterCatch(b))

-----------------------------------------------------------------------------
(* RunWorkflowActivity: the target must resolve (fail: missing or corrupt;   *)
(* retry: a database fault; ctx: cancelled while it loads), must not be      *)
(* among the workflows being executed, and must not be nested too deep.      *)
Enclosing(b) == {a \in Above[b] : Kind[a] \in {"run", "sub"}}
Refused(b) == \/ \E a \in Enclosing(b) : Target[a] = Target[b]
              \/ Cardinality(Enclosing(b)) >= MaxDepth

RunWorkflow(b) ==
    /\ Active(b, "sub") /\ Starting(b)
    /\ \/ Refused(b) /\ Return(b, "fail")
       \/ ~Refused(b) /\ Call(b, 1) /\ UNCHANGED held
       \/ \E r \in {"fail", "retry"} \cup Interrupted(b) : Return(b, r)

(* Interpreter.Run, for the run and for a sub-run: what the walk of the root *)
(* sequence returned is classified; an end stays inside its run.             *)
Classified(r) == IF r = "end" THEN "ok" ELSE r

(* runErrorSequence: the handler's own outcome is discarded.                 *)
AfterErrorSequence(b) == held[b]

RunsErrorSequence(b) == res[Kids[b][1]] = "fail" /\ Kids[Kids[b][2]] # <<>>

Run(b) ==
    /\ st[b] = "active" /\ Kind[b] \in {"run", "sub"}
    /\ \/ Kind[b] = "run" /\ Starting(b) /\ Call(b, 1) /\ UNCHANGED held
       \/ /\ at[b] = 1 /\ Returned(b)
          /\ IF RunsErrorSequence(b)
             THEN Call(b, 2) /\ held' = [held EXCEPT ![b] = "fail"]
             ELSE Return(b, Classified(res[Child(b)]))
       \/ at[b] = 2 /\ Returned(b) /\ Return(b, AfterErrorSequence(b))

(* The worker shuts down, or River's job timeout passes.                     *)
CancelContext ==
    /\ ~cancelled /\ st[Top] = "active"
    /\ cancelled' = TRUE
    /\ UNCHANGED <<st, at, res, held>>

Walk(b) == \/ WalkSequence(b) \/ RunActivity(b) \/ RunCondition(b) \/ RunParallel(b)
           \/ (\E c \in Children(b) : GroupError(b, c)) \/ Wait(b) \/ RunTry(b)
           \/ RunWorkflow(b) \/ Run(b)

Next == CancelContext \/ \E b \in Blocks : Walk(b)

(* Some goroutine that can move does, and activities return: HTTP calls have *)
(* a timeout.                                                                *)
Spec == Init /\ [][Next]_vars /\ WF_vars(\E b \in Blocks : Walk(b))

-----------------------------------------------------------------------------
(* Properties.                                                               *)

Leaves == {b \in Blocks : Kids[b] = <<>> /\ Kind[b] # "seq"}

(* Structured concurrency: when a block has returned nothing inside it is    *)
(* still running.  So a catch block, the next step or the finalize never     *)
(* overlaps with a parallel branch that was only told to stop.               *)
NothingOutlives ==
    \A b \in Blocks : st[b] = "done" =>
        \A c \in Blocks : b \in Above[c] => st[c] # "active"

(* The cancellation that fail-fast sends to the siblings of a failed branch  *)
(* stays inside the parallel block: a run is interrupted only when the job's *)
(* own context was cancelled, or when one of its HTTP calls ran into the     *)
(* client's timeout while nobody had cancelled it.  The worker hands an      *)
(* interrupted run back to River instead of recording its failure.           *)
InterruptedOnlyByContext ==
    /\ res[Top] = "ctx" => cancelled
    /\ res[Top] = "timeout" => \E h \in Leaves : res[h] = "timeout"

(* No failure is lost: a run completes although a step failed only when an   *)
(* enclosing try caught that failure, or an end terminated the run.          *)
NoFailureLost ==
    res[Top] = "ok" =>
        \A l \in Leaves : res[l] \in {"fail", "retry"} =>
            \/ \E t \in Above[l] : Kind[t] = "try" /\ at[t] = 2 /\ In(l, Kids[t][1])
            \/ \E e \in Leaves : res[e] = "end"
            \/ \E r \in Above[l] : Kind[r] \in {"run", "sub"} /\ In(l, Kids[r][2])

(* Cleanup runs at most once per run: once the error sequence has begun the  *)
(* job is not executed again, whatever its steps return and even if the      *)
(* worker shuts down meanwhile.                                              *)
CleanupIsFinal ==
    at[Top] = 2 /\ st[Top] = "done" => res[Top] = "fail"

(* A catch block runs because something in its body failed, never because an *)
(* end was raised there or a sibling's cancellation reached it.              *)
CatchHandlesFailure ==
    \A t \in Blocks : Kind[t] = "try" /\ at[t] = 2 =>
        \E c \in Blocks : /\ In(c, Kids[t][1]) /\ res[c] \in {"fail", "retry"}
                          /\ Kind[c] \in {"cond", "sub", "set", "http", "fail"}

(* Error handling neither loses a failure nor invents one: catch blocks,    *)
(* rethrows, parallel joins and the error sequence leave the run with the   *)
(* outcome its steps had.                                                   *)
HandlersKeepFailures ==
    TypeOK /\ NoFailureLost /\ CleanupIsFinal /\ CatchHandlesFailure

(* Every run comes to an end: parallel branches, catch blocks and            *)
(* cancellation never leave everyone waiting.                                *)
RunEnds == <>(st[Top] = "done")
=============================================================================
