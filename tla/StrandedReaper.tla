--------------------------- MODULE StrandedReaper ---------------------------
(***************************************************************************)
(* The paging of the stranded-run reaper.  A tick lists DISCARDED          *)
(* workflow_run jobs by ascending id, a page at a time, and finalizes the  *)
(* runs that are still unsettled, until the list is exhausted or the       *)
(* per-tick cap is reached.  Jobs are discarded and cleaned up meanwhile.  *)
(* What finalizing does to a run is WorkflowRuns!Reap.                     *)
(***************************************************************************)
EXTENDS Naturals, FiniteSets, FiniteSetsExt

CONSTANTS NumJobs,     \* workflow_run jobs, with ids 1..NumJobs
          PageSize,    \* reapStrandedRunsPageSize
          MaxPerTick,  \* MaxPerTick, or its default
          MaxFailures, \* bound on JobList calls that fail
          Expiring     \* jobs whose retention period ends within the behaviour

ASSUME BoundsAssumption == /\ NumJobs \in Nat \ {0}
                           /\ PageSize \in Nat \ {0}
                           /\ MaxPerTick \in Nat \ {0}

Jobs == 1 .. NumJobs

VARIABLES discarded,  \* ids of the DISCARDED jobs
          fresh,      \* jobs not discarded yet
          stranded,   \* jobs whose run is not settled although the job is discarded
          elders,     \* jobs discarded before the current tick began
          aged,       \* discarded jobs old enough for River's cleaner
          cursor,     \* last id of the page before (0: no cursor)
          page,       \* jobs of the page still to be reaped
          full,       \* the current page was as long as requested
          scanned,    \* jobs this tick has looked at
          ticking,    \* a tick is in progress
          failures    \* JobList calls that failed

queue == <<discarded, fresh, stranded, aged>>
scan == <<cursor, page, full, scanned>>
vars == <<queue, elders, scan, ticking, failures>>

TypeOK == /\ discarded \subseteq Jobs
          /\ fresh \subseteq Jobs
          /\ stranded \subseteq Jobs
          /\ elders \subseteq Jobs
          /\ aged \subseteq discarded
          /\ cursor \in 0 .. NumJobs
          /\ page \subseteq Jobs
          /\ full \in BOOLEAN
          /\ scanned \in Nat
          /\ ticking \in BOOLEAN
          /\ failures \in 0 .. MaxFailures

Init == /\ discarded = {} /\ fresh = Jobs /\ stranded = {}
        /\ elders = {} /\ aged = {}
        /\ cursor = 0 /\ page = {} /\ full = FALSE /\ scanned = 0
        /\ ticking = FALSE /\ failures = 0

(* River (external) discards a job.  The ErrorHandler has usually finalized  *)
(* its run; when it could not, the run is stranded.                          *)
Discard(j) ==
    /\ j \in fresh
    /\ fresh' = fresh \ {j}
    /\ discarded' = discarded \cup {j}
    /\ stranded' \in {stranded, stranded \cup {j}}
    /\ UNCHANGED <<aged, elders, scan, ticking, failures>>

(* River's cleaner (external) deletes discarded jobs days after they were    *)
(* discarded: not before a tick that began with the job discarded has ended  *)
(* without failing to finalize its run.                                      *)
Clean(j) ==
    /\ j \in aged \cap Expiring
    /\ discarded' = discarded \ {j}
    /\ aged' = aged \ {j}
    /\ UNCHANGED <<fresh, stranded, elders, scan, ticking, failures>>

-----------------------------------------------------------------------------
(* reapStrandedRuns.                                                         *)

StartTick ==
    /\ ~ticking
    /\ ticking' = TRUE
    /\ cursor' = 0 /\ page' = {} /\ full' = TRUE /\ scanned' = 0
    /\ elders' = discarded
    /\ UNCHANGED <<queue, failures>>

Least(S, n) == {x \in S : Cardinality({y \in S : y < x}) < n}

Want == Min({PageSize, MaxPerTick - scanned})

(* The discarded jobs JobList has left to show after the cursor.             *)
After == {j \in discarded : j > cursor}

(* JobList: the next Want of them, by ascending id.                          *)
ListPage ==
    LET listed == Least(After, Want)
    IN  /\ ticking /\ page = {} /\ full
        /\ scanned < MaxPerTick
        /\ page' = listed
        /\ full' = (Cardinality(listed) = Want)
        /\ UNCHANGED <<queue, elders, cursor, scanned, ticking, failures>>

(* A JobList that fails ends the tick with an error; nothing remembers how   *)
(* far it came.                                                              *)
FailList ==
    /\ ticking /\ page = {} /\ full
    /\ scanned < MaxPerTick
    /\ failures < MaxFailures
    /\ failures' = failures + 1
    /\ ticking' = FALSE
    /\ UNCHANGED <<queue, elders, scan>>

(* The next job of the page; a finalize that fails is logged and skipped.    *)
ReapNext(ok) ==
    LET j == Min(page)
    IN  /\ page # {}
        /\ stranded' = IF ok THEN stranded \ {j} ELSE stranded
        /\ elders' = IF ok THEN elders ELSE elders \ {j}
        /\ page' = page \ {j}
        /\ scanned' = scanned + 1
        /\ cursor' = j
        /\ UNCHANGED <<discarded, fresh, aged, full, ticking, failures>>

(* The loop ends on a short page or at the cap.                              *)
Exhausted_EndsOnFullPage == scanned > 0   \* mutant: a full page ends the loop as well

Exhausted == ~full

EndTick ==
    /\ ticking /\ page = {}
    /\ Exhausted \/ scanned >= MaxPerTick
    /\ ticking' = FALSE
    /\ aged' = aged \cup (elders \cap discarded)
    /\ UNCHANGED <<discarded, fresh, stranded, elders, scan, failures>>

Next == \/ \E j \in Jobs : Discard(j) \/ Clean(j)
        \/ StartTick \/ ListPage \/ FailList \/ EndTick
        \/ \E ok \in BOOLEAN : ReapNext(ok)

(* The periodic job keeps ticking, a tick keeps going, a finalize that is    *)
(* tried again and again succeeds, and the cleaner eventually takes old jobs *)
(* away.                                                                     *)
Fairness == /\ WF_vars(StartTick \/ ListPage \/ EndTick \/ \E ok \in BOOLEAN : ReapNext(ok))
            /\ \A j \in Jobs : /\ SF_vars(page # {} /\ Min(page) = j /\ ReapNext(TRUE))
                               /\ WF_vars(Clean(j))

Spec == Init /\ [][Next]_vars /\ Fairness

-----------------------------------------------------------------------------
(* Properties.                                                               *)

(* What the reaper's comments say of a capped tick ("the next tick continues *)
(* where it left off"): every stranded run is finalized in the end.          *)
StrandedReaped == \A j \in Jobs : j \in stranded ~> j \notin stranded

(* That holds as long as the jobs a tick has looked at and those it has left *)
(* never outnumber the cap, across pages, failed listings, failed finalizes, *)
(* jobs discarded in the middle of a tick and jobs the cleaner removes.      *)
BacklogFits ==
    ticking => scanned + Cardinality({j \in discarded \cup page : j > cursor}) <= MaxPerTick
ReapedWithinCap == []BacklogFits => StrandedReaped
=============================================================================
