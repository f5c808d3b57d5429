--------------------------- MODULE WorkflowCatalog ---------------------------
(***************************************************************************)
(* Workflows, their immutable versions, the promoted version, the etag a   *)
(* conditional write is checked against, and the runs that pin a version.  *)
(* Update, promote, version create, version delete and workflow delete     *)
(* each hold the workflow row's lock to their end and are one action.      *)
(* RunWorkflow takes no lock: it reads the workflow, then the version, and *)
(* inserts the run later, so it is three.  What becomes of a run once it   *)
(* exists is WorkflowRuns; here it is PENDING, ACTIVE (RUNNING or WAITING) *)
(* or OVER.  A version's definition is data no operation looks into.       *)
(***************************************************************************)
EXTENDS Naturals, FiniteSets, FiniteSetsExt

CONSTANTS Workflows,   \* workflow ids, uuids never used twice
          Versions,    \* version ids
          Runs,        \* run ids
          Clients,     \* callers that send back the etag they read
          Configs,     \* contents of the container's updatable columns
          Instants,    \* now(): when a transaction can have started
          None

ASSUME NoneAssumption == None \notin Workflows \cup Versions \cup Instants

VARIABLES live,      \* workflows that exist
          promoted,  \* workflows.version, by workflow
          etag,      \* workflows.etag, by workflow: the instant it is the md5 of
          config,    \* workflows' updatable columns, by workflow
          version,   \* workflow_versions, by version id
          issued,    \* history: the highest number a workflow's versions had
          run,       \* workflow_runs, by run id
          request,   \* RunWorkflow transactions, by the run they would insert
          seen,      \* what each client read last
          used,      \* workflow and version ids handed out so far
          stamps,    \* history: the instants a workflow's row has carried
          tied       \* history: workflows with two writes of one instant

vars == <<live, promoted, etag, config, version, issued, run, request, seen, used,
          stamps, tied>>
containers == <<live, promoted, etag, config, stamps, tied>>

NoVersion == [wf |-> None, num |-> 0]
NoWorkflowRun == [st |-> "NONE", wf |-> None, ver |-> None]
NoRequest == [pc |-> "none", wf |-> None, ver |-> None]
NothingSeen == [wf |-> None, etag |-> None, promoted |-> None, config |-> None]

\* parseWorkflowVersionName accepts only positive numbers
Version == {NoVersion} \cup [wf : Workflows, num : Nat \ {0}]
Run == [st : {"NONE", "PENDING", "ACTIVE", "OVER"},
        wf : Workflows \cup {None}, ver : Versions \cup {None}]
Request == [pc : {"none", "read", "resolved", "done"},
            wf : Workflows \cup {None}, ver : Versions \cup {None}]
Seen == [wf : Workflows \cup {None}, etag : Instants \cup {None},
         promoted : Versions \cup {None}, config : Configs \cup {None}]

TypeOK == /\ live \subseteq Workflows
          /\ promoted \in [Workflows -> Versions \cup {None}]
          /\ etag \in [Workflows -> Instants \cup {None}]
          /\ config \in [Workflows -> Configs \cup {None}]
          /\ version \in [Versions -> Version]
          /\ issued \in [Workflows -> Nat]
          /\ run \in [Runs -> Run]
          /\ request \in [Runs -> Request]
          /\ seen \in [Clients -> Seen]
          /\ used \subseteq Workflows \cup Versions
          /\ stamps \in [Workflows -> SUBSET Instants]
          /\ tied \subseteq Workflows

Init == /\ live = {}
        /\ promoted = [w \in Workflows |-> None]
        /\ etag = [w \in Workflows |-> None]
        /\ config = [w \in Workflows |-> None]
        /\ version = [v \in Versions |-> NoVersion]
        /\ issued = [w \in Workflows |-> 0]
        /\ run = [r \in Runs |-> NoWorkflowRun]
        /\ request = [r \in Runs |-> NoRequest]
        /\ seen = [c \in Clients |-> NothingSeen]
        /\ used = {}
        /\ stamps = [w \in Workflows |-> {}]
        /\ tied = {}

-----------------------------------------------------------------------------
VersionsOf(w) == {v \in Versions : version[v].wf = w}
NumbersOf(w) == {version[v].num : v \in VersionsOf(w)}
RunsOf(w) == {r \in Runs : run[r].wf = w}

(* The etag rule of UpdateWorkflow and DeleteWorkflow: an unconditional call *)
(* (None stands for the empty etag) or one whose etag is the row's.          *)
EtagMatches(w, c) == c # None => seen[c].wf = w /\ seen[c].etag = etag[w]

Bump_Forgotten(w) == UNCHANGED <<etag, stamps, tied>>   \* mutant: the etag is left alone

(* etag = md5(now()::text), in the UPDATE and as an INSERT default.  now()   *)
(* is when the transaction started, before it waited for the row's lock, so  *)
(* a later write may carry an earlier instant, or one that was there before. *)
Bump(w) ==
    \E t \in Instants :
        /\ etag' = [etag EXCEPT ![w] = t]
        /\ stamps' = [stamps EXCEPT ![w] = @ \cup {t}]
        /\ tied' = IF t \in stamps[w] THEN tied \cup {w} ELSE tied

(* A workflow is created, or forked, without a promoted version.             *)
NewContainer(w, k) ==
    /\ live' = live \cup {w}
    /\ Bump(w)
    /\ config' = [config EXCEPT ![w] = k]
    /\ UNCHANGED promoted

CreateWorkflow(w) ==
    /\ w \notin used
    /\ used' = used \cup {w}
    /\ \E k \in Configs : NewContainer(w, k)
    /\ UNCHANGED <<version, issued, run, request, seen>>

GetWorkflow(c, w) ==
    /\ w \in live
    /\ seen' = [seen EXCEPT ![c] = [wf |-> w, etag |-> etag[w],
                                    promoted |-> promoted[w], config |-> config[w]]]
    /\ UNCHANGED <<containers, version, issued, run, request, used>>

UpdateWorkflow(c, w) ==
    /\ w \in live
    /\ EtagMatches(w, c)
    /\ Bump(w)
    /\ \E k \in Configs : config' = [config EXCEPT ![w] = k]
    /\ UNCHANGED <<live, promoted, version, issued, run, request, seen, used>>

-----------------------------------------------------------------------------
NextWorkflowVersionNumber_Count(w) ==   \* mutant: COUNT(*) + 1
    Cardinality(VersionsOf(w)) + 1

(* COALESCE(MAX(version_number), 0) + 1.                                     *)
NextWorkflowVersionNumber(w) == Max(NumbersOf(w) \cup {0}) + 1

AddVersion(w, v, n) ==
    /\ version' = [version EXCEPT ![v] = [wf |-> w, num |-> n]]
    /\ issued' = [issued EXCEPT ![w] = Max({@, n})]

CreateWorkflowVersion(w, v) ==
    /\ w \in live
    /\ v \notin used
    /\ used' = used \cup {v}
    /\ AddVersion(w, v, NextWorkflowVersionNumber(w))
    /\ UNCHANGED <<containers, run, request, seen>>

ForkWorkflow_KeepsPointer(src, w, v) ==   \* mutant: the row is copied, pointer and all
    /\ issued[src] > 0
    /\ w \notin used /\ v \notin used
    /\ used' = used \cup {w, v}
    /\ \E k \in Configs : config' = [config EXCEPT ![w] = k]
    /\ live' = live \cup {w}
    /\ promoted' = [promoted EXCEPT ![w] = promoted[src]]
    /\ Bump(w)
    /\ AddVersion(w, v, 1)
    /\ UNCHANGED <<run, request, seen>>

(* ForkWorkflow: a new workflow whose unpromoted version 1 clones the named, *)
(* or else the promoted, version of a source.  The source is read without a  *)
(* lock before the transaction inserts: it had a version then, and may have  *)
(* another config, or be gone, by now.                                       *)
ForkWorkflow(src, w, v) ==
    /\ issued[src] > 0
    /\ w \notin used /\ v \notin used
    /\ used' = used \cup {w, v}
    /\ \E k \in Configs : NewContainer(w, k)
    /\ AddVersion(w, v, 1)
    /\ UNCHANGED <<run, request, seen>>

(* GetWorkflowVersionByNumber: what the name "workflows/w/versions/n" denotes. *)
ByNumber(w, n) == {v \in VersionsOf(w) : version[v].num = n}

(* The UPDATE joins the version to the workflow once more.                   *)
PromoteWorkflowVersion(w, n) ==
    /\ w \in live
    /\ \E v \in ByNumber(w, n) :
          version[v].wf = w /\ promoted' = [promoted EXCEPT ![w] = v]
    /\ Bump(w)
    /\ UNCHANGED <<live, config, version, issued, run, request, seen, used>>

IsPromoted_Forgotten(w, v) == FALSE   \* mutant: the app-level guard is missing

IsPromoted(w, v) == promoted[w] = v

(* DeleteWorkflowVersion: not the promoted version, and (workflow_runs'      *)
(* foreign key) none that a run pins; fk_workflows_version would only set    *)
(* the promoted pointer to NULL.                                             *)
DeleteWorkflowVersion(w, n) ==
    /\ w \in live
    /\ \E v \in ByNumber(w, n) :
          /\ ~IsPromoted(w, v)
          /\ \A r \in Runs : run[r].ver # v
          /\ version' = [version EXCEPT ![v] = NoVersion]
          /\ promoted' = [u \in Workflows |-> IF promoted[u] = v THEN None ELSE promoted[u]]
    /\ UNCHANGED <<live, etag, stamps, tied, config, issued, run, request, seen, used>>

-----------------------------------------------------------------------------
(* RunWorkflow reads the workflow row, and with it the promoted pointer.     *)
RunWorkflow(w, r) ==
    /\ w \in live
    /\ request[r].pc = "none"
    /\ request' = [request EXCEPT ![r] = [pc |-> "read", wf |-> w, ver |-> promoted[w]]]
    /\ UNCHANGED <<containers, version, issued, run, seen, used>>

Resolvable_ByNumberOnly(r) ==   \* mutant: the number is looked up in any workflow
    {v \in Versions : version[v].wf # None}

(* resolveRunVersion: the version the request names within the workflow, or  *)
(* else the promoted one read before, if either is still there.              *)
Resolvable(r) == VersionsOf(request[r].wf)
                     \cup {v \in Versions : v = request[r].ver /\ version[v].wf # None}

ResolveRunVersion(r) ==
    /\ request[r].pc = "read"
    /\ \/ \E v \in Resolvable(r) :
             request' = [request EXCEPT ![r] = [pc |-> "resolved", wf |-> request[r].wf, ver |-> v]]
       \/ request' = [request EXCEPT ![r].pc = "done"]   \* no such version
    /\ UNCHANGED <<containers, version, issued, run, seen, used>>

(* The foreign key of workflow_runs.version_id.                              *)
VersionKey(r) == version[request[r].ver].wf # None

(* CreateWorkflowRun: refused when the workflow or the version went since.   *)
CreateWorkflowRun(r) ==
    /\ request[r].pc = "resolved"
    /\ request' = [request EXCEPT ![r].pc = "done"]
    /\ run' = IF request[r].wf \in live /\ VersionKey(r)
              THEN [run EXCEPT ![r] = [st |-> "PENDING", wf |-> request[r].wf,
                                       ver |-> request[r].ver]]
              ELSE run
    /\ UNCHANGED <<containers, version, issued, seen, used>>

(* The executor, or a cancel, moves the run on (WorkflowRuns).               *)
RunProgress(r) ==
    /\ run[r].st \in {"PENDING", "ACTIVE"}
    /\ \E st \in {"ACTIVE", "OVER"} :
          run' = [run EXCEPT ![r] = [st |-> st, wf |-> run[r].wf, ver |-> run[r].ver]]
    /\ UNCHANGED <<containers, version, issued, request, seen, used>>

(* ON DELETE CASCADE from workflows to workflow_runs.                        *)
Cascade(w) == [r \in Runs |-> IF run[r].wf = w THEN NoWorkflowRun ELSE run[r]]

(* DeleteWorkflow: refused while runs are active unless forced.              *)
DeleteWorkflow(c, w, force) ==
    /\ w \in live
    /\ EtagMatches(w, c)
    /\ ~force => \A r \in RunsOf(w) : run[r].st # "ACTIVE"
    /\ live' = live \ {w}
    /\ promoted' = [promoted EXCEPT ![w] = None]
    /\ etag' = [etag EXCEPT ![w] = None]
    /\ config' = [config EXCEPT ![w] = None]
    /\ stamps' = [stamps EXCEPT ![w] = {}]
    /\ tied' = tied \ {w}
    /\ version' = [v \in Versions |-> IF version[v].wf = w THEN NoVersion ELSE version[v]]
    /\ run' = Cascade(w)
    /\ UNCHANGED <<issued, request, seen, used>>

Next == \/ \E w \in Workflows :
              \/ CreateWorkflow(w)
              \/ \E v \in Versions : CreateWorkflowVersion(w, v)
              \/ \E n \in NumbersOf(w) : PromoteWorkflowVersion(w, n)
              \/ \E n \in NumbersOf(w) : DeleteWorkflowVersion(w, n)
              \/ \E s \in Workflows, v \in Versions : ForkWorkflow(s, w, v)
              \/ \E r \in Runs : RunWorkflow(w, r)
              \/ \E c \in Clients : GetWorkflow(c, w)
              \/ \E c \in Clients \cup {None} : UpdateWorkflow(c, w)
              \/ \E c \in Clients \cup {None}, force \in BOOLEAN : DeleteWorkflow(c, w, force)
        \/ \E r \in Runs : ResolveRunVersion(r) \/ CreateWorkflowRun(r) \/ RunProgress(r)

Spec == Init /\ [][Next]_vars

-----------------------------------------------------------------------------
(* Properties.                                                               *)

(* A live workflow executes its own definition: the promoted pointer names   *)
(* an existing version of that very workflow, after any order of promotes,   *)
(* version deletes and forks.                                                *)
PromotedIsOwn ==
    \A w \in Workflows : promoted[w] # None => w \in live /\ version[promoted[w]].wf = w

(* Within a workflow a version number denotes one version, whatever was      *)
(* deleted before (UNIQUE (workflow_id, version_number) never fires).        *)
NumberDenotesOne ==
    \A v, u \in Versions : version[v].wf # None /\ version[v].wf = version[u].wf
                           /\ version[v].num = version[u].num => v = u

(* Every run has its workflow and the version it pinned, and that version is *)
(* the workflow's own, although RunWorkflow's reads can be stale by the time *)
(* it inserts.                                                               *)
RunPinsOwnVersion ==
    \A r \in Runs : run[r].st # "NONE" =>
        run[r].wf \in live /\ version[run[r].ver].wf = run[r].wf

(* A workflow that has gone live never silently loses its definition: the    *)
(* pointer moves only to another version, or goes with the workflow.         *)
StaysPromoted ==
    [][\A w \in Workflows : promoted[w] # None => promoted'[w] # None \/ w \notin live']_vars

(* No lost update: a client whose etag still matches has seen the row as it  *)
(* is, the promoted version included, so a conditional update or delete      *)
(* never undoes a change its caller did not know of.  This needs the writes  *)
(* to the row to have run in transactions begun at different instants, which *)
(* nothing in the code ensures: two that began in one microsecond and waited *)
(* for each other's lock leave the same etag on different contents.          *)
EtagIsCurrent ==
    \A c \in Clients : \A w \in live \ tied :
        seen[c].wf = w /\ seen[c].etag = etag[w] =>
            seen[c].promoted = promoted[w] /\ seen[c].config = config[w]

(* What the schema says of version_number ("monotonic per workflow"): a new  *)
(* version's number is above every number the workflow has used.  A number   *)
(* that comes back makes an old version name denote another definition.      *)
NumbersMonotonic ==
    [][\A w \in Workflows : \A n \in NumbersOf(w)' \ NumbersOf(w) : n > issued[w]]_vars
=============================================================================
